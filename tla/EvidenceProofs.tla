---------------------------- MODULE EvidenceProofs ----------------------------
(***************************************************************************)
(* Proofs about Evidence, for any set of requests: types, that durable      *)
(* records are backed by the store and the log, that uploads stay sealed,   *)
(* and that only requests about the hold change it.                         *)
(***************************************************************************)
EXTENDS Evidence, TLAPS

\* The point a request is at tells what it is about.
TaskInv ==
    \A r \in Requests :
        /\ pc[r] = "idle" => task[r].op = None
        /\ pc[r] \in {"stored", "readBack", "marked"} => Uploaded(r)
        /\ pc[r] \in {"inserted", "announced"} => task[r].op \in Creations
        /\ pc[r] \in {"changed", "fetched", "written"} => task[r].op \in Changes
        /\ pc[r] = "audited" => task[r].op \in {"upload"} \cup Changes

\* How far a request has got with a record of its own.
CreationOf(r) ==
    /\ task[r].op \in Creations /\ pc[r] \in {"announced", "readBack", "marked", "audited"} =>
           <<"evidence.uploaded", r>> \in log
    /\ Uploaded(r) /\ pc[r] \in {"stored"} \cup Flushed => r \in DOMAIN store
    /\ pc[r] = "readBack" => mark[r] = Sent
    /\ Uploaded(r) /\ pc[r] \in {"marked", "audited"} =>
           loaded[r].status = "HASHED" /\ loaded[r].sha256 = Sent

CreationInv == \A r \in Requests : CreationOf(r)

\* A request that has loaded a record and may yet write its copy of it back.
Changing(r) == task[r].op \in Changes /\ pc[r] \in {"changed", "fetched", "written", "audited"}

\* What a copy says of its record: one of an uploaded record has been hashed, and
\* each mutator has made of it what the mutator is for.
ChangeInv ==
    \A r \in Requests : Changing(r) =>
        /\ task[r].of \in DOMAIN rows
        /\ Uploaded(task[r].of) =>
               /\ task[r].op # "hash"
               /\ loaded[r].sha256 = Sent
               /\ loaded[r].status \in {"HASHED", "SEALED"}
        /\ task[r].op = "seal" => loaded[r].status = "SEALED"
        /\ task[r].op \in HoldChanges => loaded[r].legal_hold = (task[r].op = "apply")

\* Durable records are those of the creations that committed.
RowsInv == \A e \in DOMAIN rows : pc[e] = "committed" /\ task[e].op \in Creations

EvidenceInv == TypeOK /\ TaskInv /\ CreationInv /\ ChangeInv /\ RowsInv /\ RecordsAreWhole

-----------------------------------------------------------------------------
\* No record, no request: the program starts with the invariant.
LEMMA InitInv == Init => EvidenceInv
BY DEF Init, EvidenceInv, TypeOK, TaskInv, CreationInv, CreationOf, ChangeInv, RowsInv,
       RecordsAreWhole, Changing, Uploaded, Creations, Changes, Flushed, PCs, Ended,
       NewRecord, Record, Hashes, Grades, Events, HoldChanges

\* An UPDATE of some of a record's columns, from a copy, leaves a record.
LEMMA MergeIsRecord ==
      ASSUME NEW a \in Record, NEW b \in Record, NEW C
      PROVE  [col \in DOMAIN a |-> IF col \in C THEN b[col] ELSE a[col]] \in Record
<1> DEFINE m == [col \in DOMAIN a |-> IF col \in C THEN b[col] ELSE a[col]]
<1>1. DOMAIN a = {"status", "sha256", "worm_grade", "legal_hold"}
      BY DEF Record
<1>2. DOMAIN m = {"status", "sha256", "worm_grade", "legal_hold"}
      BY <1>1
<1>3. m = [status |-> m.status, sha256 |-> m.sha256, worm_grade |-> m.worm_grade, legal_hold |-> m.legal_hold]
      BY <1>1
<1>4. m.status \in {"RECEIVED", "HASHED", "SEALED"} /\ m.sha256 \in Hashes \cup {None}
      BY <1>1 DEF Record
<1>5. m.worm_grade \in Grades \cup {None} /\ m.legal_hold \in BOOLEAN
      BY <1>1 DEF Record
<1> QED BY <1>3, <1>4, <1>5 DEF Record

\* What each mutator of EvidenceRecord makes of a copy, and what it leaves alone.
LEMMA ChangedIsRecord ==
    ASSUME NEW record \in Record, NEW op \in Changes, NEW c \in Changed(op, record)
    PROVE  /\ c \in Record
           /\ op = "hash" => c.status = "HASHED"
           /\ op = "seal" => c.status = "SEALED" /\ c.sha256 = record.sha256
           /\ op \in HoldChanges => (c.legal_hold <=> op = "apply") /\ c.sha256 = record.sha256 /\ c.status = record.status
<1>1. CASE op = "hash"
    <2>1. Changed(op, record) = {[record EXCEPT !.status = "HASHED", !.sha256 = h] : h \in Hashes}
      BY <1>1, Zenon DEF Changed
    <2>2. PICK h \in Hashes : c = [record EXCEPT !.status = "HASHED", !.sha256 = h]
      BY <2>1, Zenon
    <2>3. c.status = "HASHED" /\ c \in Record
      BY <2>2 DEF Record
    <2> QED BY <2>3, <1>1 DEF HoldChanges
<1>2. CASE op = "seal"
    <2>1. Changed(op, record) = {[record EXCEPT !.status = "SEALED", !.worm_grade = g] : g \in Grades}
      BY <1>2, Zenon DEF Changed
    <2>2. PICK g \in Grades : c = [record EXCEPT !.status = "SEALED", !.worm_grade = g]
      BY <2>1, Zenon
    <2>3. c.status = "SEALED" /\ c.sha256 = record.sha256 /\ c \in Record
      BY <2>2 DEF Record
    <2> QED BY <2>3, <1>2 DEF HoldChanges
<1>3. CASE op = "apply"
    <2>1. Changed(op, record) = {[record EXCEPT !.legal_hold = TRUE]}
      BY <1>3, Zenon DEF Changed
    <2>2. c = [record EXCEPT !.legal_hold = TRUE]
      BY <2>1
    <2>3. c.legal_hold = TRUE /\ c.sha256 = record.sha256 /\ c.status = record.status /\ c \in Record
      BY <2>2 DEF Record
    <2> QED BY <2>3, <1>3 DEF Changed, Changes, Record, HoldChanges
<1>4. CASE op = "release"
    <2>1. Changed(op, record) = {[record EXCEPT !.legal_hold = FALSE]}
      BY <1>4, Zenon DEF Changed
    <2>2. c = [record EXCEPT !.legal_hold = FALSE]
      BY <2>1
    <2>3. c.legal_hold = FALSE /\ c.sha256 = record.sha256 /\ c.status = record.status /\ c \in Record
      BY <2>2 DEF Record
    <2> QED BY <2>3, <1>4 DEF Changed, Changes, Record, HoldChanges
<1> QED BY <1>1, <1>2, <1>3, <1>4 DEF Changes, HoldChanges

\* Where a copy is written back, the record it is of is there.
LEMMA TypeStep == EvidenceInv /\ [Next]_vars => TypeOK'
<1> SUFFICES ASSUME EvidenceInv, [Next]_vars PROVE TypeOK'
    OBVIOUS
<1> USE DEF EvidenceInv, TypeOK, PCs, Ended, Flushed, Goto
<1>0. CASE UNCHANGED vars
    BY <1>0 DEF vars
<1>1. ASSUME NEW r \in Requests, Put(r) PROVE TypeOK'
    <2>1. DOMAIN store' = DOMAIN store \cup {r} /\ store' \in [DOMAIN store' -> Hashes]
        BY <1>1 DEF Put, With, Hashes
    <2>2. [task[r] EXCEPT !.op = "upload"] \in [op : Creations \cup Changes \cup {None}, of : Requests]
        BY DEF Creations
    <2>3. task' \in [Requests -> [op : Creations \cup Changes \cup {None}, of : Requests]]
        BY <1>1, <2>2 DEF Put
    <2> QED BY <1>1, <2>1, <2>3 DEF Put
<1>2. ASSUME NEW r \in Requests, Insert(r) PROVE TypeOK'
    <2>1. [task[r] EXCEPT !.op = "record"] \in [op : Creations \cup Changes \cup {None}, of : Requests]
        BY DEF Creations
    <2>2. task' \in [Requests -> [op : Creations \cup Changes \cup {None}, of : Requests]]
        BY <1>2, <2>1 DEF Insert
    <2>3. NewRecord \in Record
        BY DEF NewRecord, Record
    <2> QED BY <1>2, <2>2, <2>3 DEF Insert
<1>3. ASSUME NEW r \in Requests, Announce(r) PROVE TypeOK'
    BY <1>3 DEF Announce, Audit, Events
<1>4. ASSUME NEW r \in Requests, ReadBack(r) PROVE TypeOK'
    <2>1. r \in DOMAIN store
        BY <1>4 DEF ReadBack, CreationInv, CreationOf, Uploaded
    <2>2. store[r] \in Hashes
        BY <2>1
    <2>3. mark' \in [Requests -> Hashes \cup {None}]
        BY <1>4, <2>2 DEF ReadBack
    <2>4. log' \in SUBSET (Events \X Requests)
        BY <1>4 DEF ReadBack, Audit, Events
    <2> QED BY <1>4, <2>3, <2>4 DEF ReadBack
<1>5. ASSUME NEW r \in Requests, MarkHashed(r) PROVE TypeOK'
    <2>1. mark[r] \in Hashes
        BY <1>5 DEF MarkHashed, CreationInv, CreationOf, Hashes
    <2>2. [loaded[r] EXCEPT !.status = "HASHED", !.sha256 = mark[r]] \in Record
        <3>1. loaded[r] \in Record
            OBVIOUS
        <3> HIDE DEF TypeOK
        <3> QED BY <2>1, <3>1 DEF Record
    <2>3. loaded' = [loaded EXCEPT ![r] = [loaded[r] EXCEPT !.status = "HASHED", !.sha256 = mark[r]]]
        BY <1>5 DEF MarkHashed
    <2> QED BY <1>5, <2>2, <2>3 DEF MarkHashed
<1>6. ASSUME NEW r \in Requests, AnnounceHash(r) PROVE TypeOK'
    BY <1>6 DEF AnnounceHash, Audit, Events
<1>7. ASSUME NEW r \in Requests, CommitNew(r) PROVE TypeOK'
    BY <1>7 DEF CommitNew, With
<1>8. ASSUME NEW r \in Requests, Change(r) PROVE TypeOK'
    <2>1. PICK op \in Changes, e \in DOMAIN rows :
                /\ task' = [task EXCEPT ![r] = [op |-> op, of |-> e]]
                /\ loaded' \in {[loaded EXCEPT ![r] = record] : record \in Changed(op, rows[e])}
                /\ base' = [base EXCEPT ![r] = rows[e]]
        BY <1>8 DEF Change
    <2>2. rows[e] \in Record
        OBVIOUS
    <2>3. PICK record \in Changed(op, rows[e]) : loaded' = [loaded EXCEPT ![r] = record]
        BY <2>1
    <2>4. record \in Record
        BY <2>2, ChangedIsRecord
    <2> QED BY <1>8, <2>1, <2>2, <2>3, <2>4 DEF Change
<1>9. ASSUME NEW r \in Requests, Fetch(r) PROVE TypeOK'
    <2>1. task[r].of \in DOMAIN rows
        BY <1>9 DEF Fetch, ChangeInv, Changing, TaskInv
    <2>2. rows[task[r].of] \in Record
        BY <2>1
    <2> QED BY <1>9, <2>2 DEF Fetch
<1>10. ASSUME NEW r \in Requests, Write(r) PROVE TypeOK'
    BY <1>10 DEF Write
<1>11. ASSUME NEW r \in Requests, AnnounceChange(r) PROVE TypeOK'
    <2>1. task[r].op \in Changes
        BY <1>11 DEF AnnounceChange, TaskInv
    <2>2. EventOf(task[r].op) \in Events
        BY <2>1 DEF EventOf, Events, Changes
    <2> QED BY <1>11, <2>2 DEF AnnounceChange, Audit
<1>12. ASSUME NEW r \in Requests, CommitChange(r) PROVE TypeOK'
    <2> DEFINE e == task[r].of
               merged == [col \in DOMAIN rows[e] |-> IF col \in Dirty(r) THEN loaded[r][col] ELSE rows[e][col]]
    <2>1. e \in DOMAIN rows
        BY <1>12 DEF CommitChange, ChangeInv, Changing
    <2>2. merged \in Record
        <3>1. rows[e] \in Record /\ loaded[r] \in Record
            BY <2>1
        <3> HIDE DEF e, EvidenceInv, TypeOK
        <3> QED BY <3>1, MergeIsRecord
    <2>3. rows' = [rows EXCEPT ![e] = merged]
        BY <1>12 DEF CommitChange
    <2> QED BY <1>12, <2>1, <2>2, <2>3 DEF CommitChange
<1>13. ASSUME NEW r \in Requests, Reject(r) PROVE TypeOK'
    BY <1>13 DEF Reject
<1>14. ASSUME NEW r \in Requests, Fail(r) PROVE TypeOK'
    BY <1>14 DEF Fail
<1>15. ASSUME NEW r \in Requests, Alter(r) PROVE TypeOK'
    BY <1>15 DEF Alter, Hashes
<1> QED
    BY <1>0, <1>1, <1>2, <1>3, <1>4, <1>5, <1>6, <1>7, <1>8,
       <1>9, <1>10, <1>11, <1>12, <1>13, <1>14, <1>15 DEF Next, Step

\* Every step keeps the invariant.
LEMMA InvStep == EvidenceInv /\ [Next]_vars => EvidenceInv'
<1> SUFFICES ASSUME EvidenceInv, [Next]_vars PROVE EvidenceInv'
    OBVIOUS
<1>t. TypeOK'
    BY TypeStep
<1> USE DEF EvidenceInv, TaskInv, CreationInv, CreationOf, ChangeInv, Changing, RowsInv, RecordsAreWhole,
           Uploaded, Creations, Changes, HoldChanges, Flushed, Goto
<1>0. CASE UNCHANGED vars
    BY <1>0, <1>t DEF vars
<1>1. ASSUME NEW r \in Requests, Put(r) PROVE EvidenceInv'
    <2>1. TaskInv'
        BY <1>1, <1>t DEF Put, TypeOK, With
    <2>2. CreationInv'
        <3>1. DOMAIN store \subseteq DOMAIN store' /\ r \in DOMAIN store'
            BY <1>1 DEF Put, With
        <3>2. pc'[r] = "stored" /\ log' = log /\ mark' = mark /\ loaded' = loaded
            BY <1>1 DEF Put, TypeOK
        <3>3. \A q \in Requests : q # r => pc'[q] = pc[q] /\ task'[q] = task[q]
            BY <1>1 DEF Put, TypeOK
        <3> SUFFICES ASSUME NEW q \in Requests PROVE CreationOf(q)'
            OBVIOUS
        <3>c. CreationOf(q)
            OBVIOUS
        <3> HIDE DEF EvidenceInv, TaskInv, CreationInv, ChangeInv, RowsInv, RecordsAreWhole
        <3>r. CASE q = r
            BY <3>c, <3>r, <3>1, <3>2, <3>3
        <3>q. CASE q # r
            BY <3>c, <3>q, <3>1, <3>2, <3>3
        <3> QED BY <3>r, <3>q
    <2>3. ChangeInv'
        BY <1>1, <1>t DEF Put, TypeOK, With
    <2>4. RowsInv'
        BY <1>1, <1>t DEF Put, TypeOK, With
    <2>5. RecordsAreWhole'
        BY <1>1, <1>t DEF Put, TypeOK, With
    <2> QED BY <1>t, <2>1, <2>2, <2>3, <2>4, <2>5
<1>2. ASSUME NEW r \in Requests, Insert(r) PROVE EvidenceInv'
    BY <1>2, <1>t DEF Insert, TypeOK
<1>3. ASSUME NEW r \in Requests, Announce(r) PROVE EvidenceInv'
    BY <1>3, <1>t DEF Announce, Audit, TypeOK
<1>4. ASSUME NEW r \in Requests, ReadBack(r) PROVE EvidenceInv'
    <2>1. TaskInv'
        BY <1>4, <1>t DEF ReadBack, TypeOK, Audit
    <2>2. CreationInv'
        <3>1. store' = store /\ task' = task /\ loaded' = loaded /\ log \subseteq log'
            BY <1>4 DEF ReadBack, Audit
        <3>2. \/ pc'[r] = "readBack" /\ mark'[r] = Sent
              \/ pc'[r] = "failed"
            BY <1>4 DEF ReadBack, TypeOK
        <3>3. \A q \in Requests : q # r => pc'[q] = pc[q] /\ mark'[q] = mark[q]
            BY <1>4 DEF ReadBack, TypeOK
        <3>4. <<"evidence.uploaded", r>> \in log /\ r \in DOMAIN store
            BY <1>4 DEF ReadBack
        <3> SUFFICES ASSUME NEW q \in Requests PROVE CreationOf(q)'
            OBVIOUS
        <3>c. CreationOf(q)
            OBVIOUS
        <3> HIDE DEF EvidenceInv, TaskInv, CreationInv, ChangeInv, RowsInv, RecordsAreWhole
        <3>r. CASE q = r
            BY <3>c, <3>r, <3>1, <3>2, <3>3, <3>4
        <3>q. CASE q # r
            BY <3>c, <3>q, <3>1, <3>2, <3>3, <3>4
        <3> QED BY <3>r, <3>q
    <2>3. ChangeInv'
        BY <1>4, <1>t DEF ReadBack, TypeOK, Audit
    <2>4. RowsInv'
        BY <1>4, <1>t DEF ReadBack, TypeOK, Audit
    <2>5. RecordsAreWhole'
        BY <1>4, <1>t DEF ReadBack, TypeOK, Audit
    <2> QED BY <1>t, <2>1, <2>2, <2>3, <2>4, <2>5
<1>5. ASSUME NEW r \in Requests, MarkHashed(r) PROVE EvidenceInv'
    BY <1>5, <1>t DEF MarkHashed, TypeOK
<1>6. ASSUME NEW r \in Requests, AnnounceHash(r) PROVE EvidenceInv'
    BY <1>6, <1>t DEF AnnounceHash, Audit, TypeOK
<1>7. ASSUME NEW r \in Requests, CommitNew(r) PROVE EvidenceInv'
    <2>1. TaskInv'
        BY <1>7, <1>t DEF CommitNew, TypeOK, With
    <2>2. CreationInv'
        <3>1. UNCHANGED <<store, task, loaded, log, mark>> /\ pc'[r] = "committed"
            BY <1>7 DEF CommitNew, TypeOK
        <3>2. \A q \in Requests : q # r => pc'[q] = pc[q]
            BY <1>7 DEF CommitNew, TypeOK
        <3> SUFFICES ASSUME NEW q \in Requests PROVE CreationOf(q)'
            OBVIOUS
        <3>c. CreationOf(q)
            OBVIOUS
        <3> HIDE DEF EvidenceInv, TaskInv, CreationInv, ChangeInv, RowsInv, RecordsAreWhole
        <3>r. CASE q = r
            BY <3>c, <3>r, <3>1, <3>2
        <3>q. CASE q # r
            BY <3>c, <3>q, <3>1, <3>2
        <3> QED BY <3>r, <3>q
    <2>3. ChangeInv'
        BY <1>7, <1>t DEF CommitNew, TypeOK, With
    <2>4. RowsInv'
        BY <1>7, <1>t DEF CommitNew, TypeOK, With
    <2>5. RecordsAreWhole'
        <3>1. /\ DOMAIN rows' = DOMAIN rows \cup {r} /\ rows'[r] = loaded[r]
              /\ \A e \in DOMAIN rows : e # r => rows'[e] = rows[e]
            <4>1. rows' = With(rows, r, loaded[r])
                BY <1>7 DEF CommitNew
            <4> HIDE DEF EvidenceInv
            <4> QED BY <4>1 DEF With
        <3>2. UNCHANGED <<store, log, task>>
            BY <1>7 DEF CommitNew
        <3>3. <<"evidence.uploaded", r>> \in log
            BY <1>7 DEF CommitNew
        <3>4. Uploaded(r) => r \in DOMAIN store /\ loaded[r].sha256 = Sent
                             /\ loaded[r].status = "HASHED"
            BY <1>7 DEF CommitNew
        <3> HIDE DEF EvidenceInv, TaskInv, CreationInv, ChangeInv, RowsInv
        <3>5. ASSUME NEW d \in DOMAIN rows'
              PROVE /\ <<"evidence.uploaded", d>> \in log'
                    /\ Uploaded(d)' => /\ d \in DOMAIN store'
                                      /\ rows'[d].sha256 = Sent
                                      /\ rows'[d].status \in {"HASHED", "SEALED"}
            <4>1. CASE d = r
                BY <4>1, <3>1, <3>2, <3>3, <3>4
            <4>2. CASE d # r
                <5>1. RecordsAreWhole
                    BY DEF EvidenceInv
                <5> QED BY <5>1, <4>2, <3>1, <3>2, <3>5
            <4> QED BY <4>1, <4>2
        <3> QED BY <3>5
    <2> QED BY <1>t, <2>1, <2>2, <2>3, <2>4, <2>5
<1>8. ASSUME NEW r \in Requests, Change(r) PROVE EvidenceInv'
    <2>a. PICK op \in Changes, e \in DOMAIN rows :
                /\ MayChange(op, rows[e])
                /\ task' = [task EXCEPT ![r] = [op |-> op, of |-> e]]
                /\ loaded' \in {[loaded EXCEPT ![r] = record] : record \in Changed(op, rows[e])}
        BY <1>8 DEF Change
    <2>b. PICK record \in Changed(op, rows[e]) : loaded' = [loaded EXCEPT ![r] = record]
        BY <2>a
    <2>c. UNCHANGED <<store, rows, log, mark>> /\ pc[r] = "idle" /\ task[r].op = None
        BY <1>8 DEF Change
    <2>d. /\ task'[r] = [op |-> op, of |-> e] /\ loaded'[r] = record /\ pc'[r] = "changed"
          /\ \A q \in Requests : q # r =>
                 task'[q] = task[q] /\ loaded'[q] = loaded[q] /\ pc'[q] = pc[q]
        BY <1>8, <2>a, <2>b DEF Change, TypeOK
    <2>e. e # r /\ e \in Requests
        BY <2>c DEF TypeOK
    <2>1. TaskInv'
        BY <1>8, <1>t DEF Change, TypeOK
    <2>2. CreationInv'
        <3>1. op \notin Creations
            <4> HIDE DEF EvidenceInv
            <4> QED BY <2>a
        <3> SUFFICES ASSUME NEW q \in Requests PROVE CreationOf(q)'
            OBVIOUS
        <3>c. CreationOf(q)
            OBVIOUS
        <3> HIDE DEF EvidenceInv, TaskInv, CreationInv, ChangeInv, RowsInv, RecordsAreWhole
        <3>r. CASE q = r
            BY <3>c, <3>r, <2>c, <2>d, <3>1
        <3>q. CASE q # r
            BY <3>c, <3>q, <2>c, <2>d, <3>1
        <3> QED BY <3>r, <3>q
    <2>3. ChangeInv'
        <3>1. rows[e] \in Record
            BY DEF TypeOK
        <3>2. Uploaded(e) => op # "hash" /\ rows[e].sha256 = Sent
                             /\ rows[e].status \in {"HASHED", "SEALED"}
            BY <2>a DEF MayChange
        <3>3. Uploaded(e) => record.sha256 = Sent /\ record.status \in {"HASHED", "SEALED"}
            <4> HIDE DEF Changes, HoldChanges
            <4>1. op \in {"seal"} \cup HoldChanges \/ op = "hash"
                BY <2>a DEF Changes, HoldChanges
            <4> QED BY <3>1, <3>2, <4>1, ChangedIsRecord
        <3>4. op = "seal" => record.status = "SEALED"
            <4> HIDE DEF Changes, HoldChanges
            <4> QED BY <3>1, ChangedIsRecord
        <3>5. op \in HoldChanges => record.legal_hold = (op = "apply")
            <4> HIDE DEF Changes, HoldChanges
            <4>1. op \in HoldChanges => (record.legal_hold <=> op = "apply")
                BY <3>1, ChangedIsRecord
            <4>2. record \in Record
                BY <3>1, ChangedIsRecord
            <4>3. record.legal_hold \in BOOLEAN
                BY <4>2 DEF Record
            <4> QED BY <4>1, <4>3
        <3>6. ASSUME NEW q \in Requests, Changing(q)'
              PROVE /\ task'[q].of \in DOMAIN rows'
                    /\ Uploaded(task[q].of)' =>
                           /\ task'[q].op # "hash"
                           /\ loaded'[q].sha256 = Sent
                           /\ loaded'[q].status \in {"HASHED", "SEALED"}
                    /\ task'[q].op = "seal" => loaded'[q].status = "SEALED"
                    /\ task'[q].op \in HoldChanges => loaded'[q].legal_hold = (task'[q].op = "apply")
            <4>1. CASE q = r
                BY <4>1, <2>c, <2>d, <2>e, <3>2, <3>3, <3>4, <3>5
            <4>2. CASE q # r
                <5>1. Changing(q) /\ task'[q] = task[q] /\ loaded'[q] = loaded[q]
                    BY <3>6, <4>2, <2>d
                <5>2. task[q].of \in DOMAIN rows /\ task[q].of # r /\ task[q].of \in Requests
                    BY <5>1, <2>c DEF TypeOK
                <5>3. Uploaded(task[q].of)' => Uploaded(task[q].of)
                    BY <5>1, <5>2, <2>d
                <5> QED BY <5>1, <5>2, <5>3, <2>c
            <4> QED BY <4>1, <4>2
        <3> QED BY <3>6
    <2>4. RowsInv'
        BY <1>8, <1>t DEF Change, TypeOK
    <2>5. RecordsAreWhole'
        <3> SUFFICES ASSUME NEW d \in DOMAIN rows
                     PROVE /\ <<"evidence.uploaded", d>> \in log
                           /\ Uploaded(d)' => /\ d \in DOMAIN store
                                             /\ rows[d].sha256 = Sent
                                             /\ rows[d].status \in {"HASHED", "SEALED"}
            BY <2>c
        <3>1. RecordsAreWhole
            OBVIOUS
        <3>2. d # r /\ d \in Requests
            BY <2>c DEF TypeOK
        <3> HIDE DEF EvidenceInv
        <3> QED BY <2>d, <3>1, <3>2
    <2> QED BY <1>t, <2>1, <2>2, <2>3, <2>4, <2>5
<1>9. ASSUME NEW r \in Requests, Fetch(r) PROVE EvidenceInv'
    BY <1>9, <1>t DEF Fetch, TypeOK
<1>10. ASSUME NEW r \in Requests, Write(r) PROVE EvidenceInv'
    BY <1>10, <1>t DEF Write, TypeOK
<1>11. ASSUME NEW r \in Requests, AnnounceChange(r) PROVE EvidenceInv'
    <2>1. UNCHANGED <<store, rows, task, loaded, base, mark>> /\ log \subseteq log'
        BY <1>11 DEF AnnounceChange, Audit
    <2>2. /\ pc[r] = "written" /\ pc'[r] = "audited"
          /\ \A q \in Requests \ {r} : pc'[q] = pc[q]
        BY <1>11 DEF AnnounceChange, TypeOK
    <2>3. task[r].op \in Changes /\ task[r].op \notin Creations
        BY <2>2
    <2>4. TaskInv'
        BY <2>1, <2>2, <2>3
    <2>5. CreationInv'
        <3> SUFFICES ASSUME NEW q \in Requests PROVE CreationOf(q)'
            OBVIOUS
        <3>c. CreationOf(q)
            OBVIOUS
        <3> HIDE DEF EvidenceInv, TaskInv, CreationInv, ChangeInv, RowsInv, RecordsAreWhole
        <3> QED BY <3>c, <2>1, <2>2, <2>3
    <2>6. ChangeInv'
        BY <2>1, <2>2
    <2>7. RowsInv' /\ RecordsAreWhole'
        BY <2>1, <2>2 DEF TypeOK
    <2> QED BY <1>t, <2>4, <2>5, <2>6, <2>7
<1>12. ASSUME NEW r \in Requests, CommitChange(r) PROVE EvidenceInv'
    <2>a. UNCHANGED <<store, log, task, loaded, base, mark>> /\ DOMAIN rows' = DOMAIN rows
        BY <1>12 DEF CommitChange, TypeOK
    <2>b. /\ pc[r] = "audited" /\ pc'[r] = "committed" /\ task[r].op \in Changes
          /\ \A q \in Requests \ {r} : pc'[q] = pc[q]
        BY <1>12 DEF CommitChange, TypeOK
    <2>1. TaskInv'
        BY <2>a, <2>b
    <2>2. CreationInv'
        <3> SUFFICES ASSUME NEW q \in Requests PROVE CreationOf(q)'
            OBVIOUS
        <3>c. CreationOf(q)
            OBVIOUS
        <3> HIDE DEF EvidenceInv, TaskInv, CreationInv, ChangeInv, RowsInv, RecordsAreWhole
        <3> QED BY <3>c, <2>a, <2>b
    <2>3. ChangeInv'
        BY <2>a, <2>b
    <2>4. RowsInv'
        BY <2>a, <2>b DEF TypeOK
    <2>5. RecordsAreWhole'
        <3> DEFINE e == task[r].of
                   merged == [col \in DOMAIN rows[e] |->
                                 IF col \in Dirty(r) THEN loaded[r][col] ELSE rows[e][col]]
        <3>1. UNCHANGED <<store, log, task>> /\ rows' = [rows EXCEPT ![e] = merged]
            BY <1>12 DEF CommitChange
        <3>2. e \in DOMAIN rows /\ Changing(r)
            BY <1>12 DEF CommitChange
        <3>3. rows[e] \in Record /\ loaded[r] \in Record
            BY <3>2 DEF TypeOK
        <3>4. merged.status \in {rows[e].status, loaded[r].status}
              /\ merged.sha256 \in {rows[e].sha256, loaded[r].sha256}
            BY <3>3 DEF Record
        <3>5. Uploaded(e) => merged.sha256 = Sent /\ merged.status \in {"HASHED", "SEALED"}
            <4> HIDE DEF merged
            <4> QED BY <3>2, <3>4
        <3> HIDE DEF merged
        <3>6. DOMAIN rows' = DOMAIN rows /\ rows'[e] = merged
              /\ \A d \in DOMAIN rows : d # e => rows'[d] = rows[d]
            BY <3>1, <3>2 DEF TypeOK
        <3> HIDE DEF e
        <3> QED BY <3>1, <3>2, <3>5, <3>6
    <2> QED BY <1>t, <2>1, <2>2, <2>3, <2>4, <2>5
<1>13. ASSUME NEW r \in Requests, Reject(r) PROVE EvidenceInv'
    BY <1>13, <1>t DEF Reject, TypeOK
<1>14. ASSUME NEW r \in Requests, Fail(r) PROVE EvidenceInv'
    BY <1>14, <1>t DEF Fail, TypeOK
<1>15. ASSUME NEW r \in Requests, Alter(r) PROVE EvidenceInv'
    BY <1>15, <1>t DEF Alter, TypeOK
<1> QED
    BY <1>0, <1>1, <1>2, <1>3, <1>4, <1>5, <1>6, <1>7, <1>8,
       <1>9, <1>10, <1>11, <1>12, <1>13, <1>14, <1>15 DEF Next, Step

-----------------------------------------------------------------------------
\* A committed row changes only by the UPDATE of one request, in the columns its
\* flush found changed: a creation never meets an existing row.
LEMMA RowChange ==
    ASSUME EvidenceInv, [Next]_vars, NEW e \in DOMAIN rows
    PROVE  \/ rows'[e] = rows[e]
           \/ \E r \in Requests :
                 /\ CommitChange(r) /\ task[r].of = e
                 /\ rows'[e] = [col \in DOMAIN rows[e] |->
                                   IF col \in Dirty(r) THEN loaded[r][col] ELSE rows[e][col]]
<1>1. ASSUME NEW r \in Requests, CommitNew(r) PROVE rows'[e] = rows[e]
    <2>1. pc[r] # "committed"
        BY <1>1 DEF CommitNew
    <2>2. e # r
        BY <2>1 DEF EvidenceInv, RowsInv
    <2> QED BY <1>1, <2>2 DEF CommitNew, With
<1>2. ASSUME NEW r \in Requests, CommitChange(r)
      PROVE  \/ rows'[e] = rows[e]
             \/ /\ task[r].of = e
                /\ rows'[e] = [col \in DOMAIN rows[e] |->
                                  IF col \in Dirty(r) THEN loaded[r][col] ELSE rows[e][col]]
    <2> DEFINE d == task[r].of
               merged == [col \in DOMAIN rows[d] |->
                             IF col \in Dirty(r) THEN loaded[r][col] ELSE rows[d][col]]
    <2>1. rows' = [rows EXCEPT ![d] = merged]
        BY <1>2 DEF CommitChange
    <2> HIDE DEF merged, d
    <2>2. d = e => rows'[e] = merged
        BY <2>1
    <2>3. d # e => rows'[e] = rows[e]
        BY <2>1
    <2> QED BY <2>2, <2>3 DEF merged, d
<1>3. ASSUME NEW r \in Requests,
             \/ Put(r) \/ Insert(r) \/ Announce(r) \/ ReadBack(r) \/ MarkHashed(r) \/ AnnounceHash(r)
             \/ Change(r) \/ Fetch(r) \/ Write(r) \/ AnnounceChange(r) \/ Reject(r) \/ Fail(r)
             \/ Alter(r)
      PROVE  rows' = rows
    BY <1>3 DEF Put, Insert, Announce, ReadBack, MarkHashed, AnnounceHash, Change, Fetch, Write,
                AnnounceChange, Reject, Fail, Alter
<1>4. CASE UNCHANGED vars
    BY <1>4 DEF vars
<1> QED BY <1>1, <1>2, <1>3, <1>4, Zenon DEF Next, Step

-----------------------------------------------------------------------------
\* The invariant holds throughout, for any requests.
THEOREM InvariantHolds == Spec => []EvidenceInv
<1>1. Init => EvidenceInv
    BY InitInv
<1>2. EvidenceInv /\ [Next]_vars => EvidenceInv'
    BY InvStep
<1> QED BY <1>1, <1>2, PTL DEF Spec

\* Types: above all, no request writes back to a record that is not there, and
\* what a stale copy writes back is a record.
THEOREM TypeCorrect == Spec => []TypeOK
<1>1. EvidenceInv => TypeOK
    BY DEF EvidenceInv
<1> QED BY <1>1, InvariantHolds, PTL

\* What the store and the log know of an upload that its record does not: an object
\* is an upload's, a failed check has ended one, and a committed one has its row.
TrailOf(r) ==
    /\ <<"evidence.integrity_check_failed", r>> \in log =>
           /\ pc[r] = "failed" /\ Uploaded(r)
           /\ <<"evidence.uploaded", r>> \in log /\ r \in DOMAIN store
    /\ r \in DOMAIN store => Uploaded(r) /\ pc[r] # "idle"
    /\ Uploaded(r) /\ pc[r] = "committed" => r \in DOMAIN rows

TrailInv == \A r \in Requests : TrailOf(r)

\* A step of a request adds to the log what is about its own record or task, to the
\* store an object of its own, and takes nothing away.
LEMMA StepOfOther ==
    ASSUME EvidenceInv, NEW r \in Requests, Step(r) \/ Alter(r)
    PROVE  /\ DOMAIN rows \subseteq DOMAIN rows' /\ log \subseteq log'
           /\ DOMAIN store \subseteq DOMAIN store'
           /\ \A q \in Requests \ {r} :
                 /\ pc'[q] = pc[q] /\ task'[q] = task[q]
                 /\ q \in DOMAIN store' => q \in DOMAIN store
                 /\ <<"evidence.integrity_check_failed", q>> \in log' =>
                        <<"evidence.integrity_check_failed", q>> \in log
<1>t. TypeOK
    BY DEF EvidenceInv
<1> USE DEF TypeOK, Goto, Audit
<1>1. CASE Put(r)
    <2>1. DOMAIN store' = DOMAIN store \cup {r}
        BY <1>1 DEF Put, With
    <2> QED BY <1>t, <1>1, <2>1 DEF Put
<1>2. CASE Insert(r) \/ Change(r) \/ Reject(r) \/ Fail(r)
    BY <1>t, <1>2 DEF Insert, Change, Reject, Fail
<1>3. CASE Announce(r) \/ ReadBack(r)
    BY <1>t, <1>3 DEF Announce, ReadBack
<1>4. CASE MarkHashed(r) \/ AnnounceHash(r) \/ Fetch(r) \/ Write(r)
    BY <1>t, <1>4 DEF MarkHashed, AnnounceHash, Fetch, Write
<1>5. CASE CommitNew(r)
    BY <1>t, <1>5 DEF CommitNew, With
<1>6. CASE AnnounceChange(r)
    <2>1. task[r].op \in Changes
        BY <1>6 DEF AnnounceChange, EvidenceInv, TaskInv
    <2>2. EventOf(task[r].op) # "evidence.integrity_check_failed"
        BY <2>1 DEF EventOf, Changes
    <2> QED BY <1>t, <1>6, <2>2 DEF AnnounceChange
<1>7. CASE CommitChange(r)
    BY <1>t, <1>7 DEF CommitChange
<1>8. CASE Alter(r)
    BY <1>t, <1>8 DEF Alter
<1> QED BY <1>1, <1>2, <1>3, <1>4, <1>5, <1>6, <1>7, <1>8 DEF Step

\* What a request adds is in keeping with where it then is.
LEMMA OwnTrail ==
    ASSUME EvidenceInv, NEW r \in Requests, TrailOf(r), Step(r) \/ Alter(r)
    PROVE  TrailOf(r)'
<1>t. TypeOK /\ TaskInv /\ CreationOf(r)
    BY DEF EvidenceInv, CreationInv
<1> USE DEF TypeOK, TrailOf, Uploaded, Goto, Audit, Creations, Changes, HoldChanges
<1>1. CASE Put(r)
    <2>1. r \in DOMAIN store' /\ log' = log /\ rows' = rows /\ pc[r] = "idle"
        BY <1>1 DEF Put, With
    <2>2. task'[r].op = "upload" /\ pc'[r] = "stored"
        BY <1>t, <1>1 DEF Put
    <2> QED BY <2>1, <2>2
<1>2. CASE Insert(r) \/ Change(r) \/ Reject(r) \/ Fail(r)
    BY <1>t, <1>2 DEF Insert, Change, Reject, Fail, TaskInv, Flushed
<1>3. CASE Announce(r)
    BY <1>t, <1>3 DEF Announce
<1>4. CASE ReadBack(r)
    BY <1>t, <1>4 DEF ReadBack, CreationOf, Flushed
<1>5. CASE MarkHashed(r) \/ AnnounceHash(r) \/ Fetch(r) \/ Write(r)
    BY <1>t, <1>5 DEF MarkHashed, AnnounceHash, Fetch, Write
<1>6. CASE CommitNew(r)
    BY <1>t, <1>6 DEF CommitNew, With
<1>7. CASE AnnounceChange(r)
    <2>1. task[r].op \in Changes
        BY <1>t, <1>7 DEF AnnounceChange, TaskInv
    <2>2. EventOf(task[r].op) # "evidence.integrity_check_failed"
        BY <2>1 DEF EventOf
    <2> QED BY <1>t, <1>7, <2>2 DEF AnnounceChange
<1>8. CASE CommitChange(r)
    BY <1>t, <1>8 DEF CommitChange
<1>9. CASE Alter(r)
    BY <1>t, <1>9 DEF Alter
<1> QED BY <1>1, <1>2, <1>3, <1>4, <1>5, <1>6, <1>7, <1>8, <1>9 DEF Step

\* No step takes an object, an audit row or a record away, and a request that has
\* ended does nothing more.
LEMMA TrailStep == EvidenceInv /\ TrailInv /\ [Next]_vars => TrailInv'
<1> SUFFICES ASSUME EvidenceInv, TrailInv, Next, NEW q \in Requests PROVE TrailOf(q)'
    BY DEF TrailInv, TrailOf, Uploaded, vars
<1>1. PICK r \in Requests : Step(r) \/ Alter(r)
    BY DEF Next
<1>2. CASE q = r
    BY <1>1, <1>2, OwnTrail DEF TrailInv
<1>3. CASE q # r
    <2>1. TrailOf(q)
        BY DEF TrailInv
    <2>2. /\ DOMAIN rows \subseteq DOMAIN rows' /\ log \subseteq log'
          /\ DOMAIN store \subseteq DOMAIN store'
        BY <1>1, StepOfOther
    <2>3. /\ pc'[q] = pc[q] /\ task'[q] = task[q]
          /\ q \in DOMAIN store' => q \in DOMAIN store
          /\ <<"evidence.integrity_check_failed", q>> \in log' =>
                 <<"evidence.integrity_check_failed", q>> \in log
        BY <1>1, <1>3, StepOfOther
    <2> QED BY <2>1, <2>2, <2>3 DEF TrailOf, Uploaded
<1> QED BY <1>2, <1>3

\* upload_evidence() stores, reads back and hashes before the record is durable, and
\* no later mutator of any request undoes it.  Where the bytes do not read back right
\* it leaves an object and two audit rows, and no record.
THEOREM RecordsAlwaysBacked == Spec => []RecordsAreBacked
<1>1. Init => TrailInv
    BY DEF Init, TrailInv, TrailOf
<1>2. EvidenceInv /\ TrailInv => RecordsAreBacked
    <2> SUFFICES ASSUME EvidenceInv, TrailInv PROVE RecordsAreBacked
        OBVIOUS
    <2>1. TypeOK /\ RowsInv /\ RecordsAreWhole
        BY DEF EvidenceInv
    <2>2. FailedChecksLeaveNoRecord
        BY <2>1 DEF FailedChecksLeaveNoRecord, TrailInv, TrailOf, RowsInv
    <2>3. OrphansAreUncommitted
        BY <2>1 DEF OrphansAreUncommitted, TrailInv, TrailOf, TypeOK
    <2> QED BY <2>1, <2>2, <2>3 DEF RecordsAreBacked
<1> QED BY <1>1, <1>2, TrailStep, InvariantHolds, PTL DEF Spec

\* A sealed record of upload_evidence() stays sealed, though seal() and the holds
\* write back copies that were checked before another request committed: of such
\* a record no copy is to be hashed, and only a seal assigns the status.
THEOREM SealsHold == Spec => UploadsStaySealed
<1>1. ASSUME EvidenceInv, [Next]_vars, NEW e \in DOMAIN rows,
             Uploaded(e), rows[e].status = "SEALED"
      PROVE  rows'[e].status = "SEALED"
    <2>1. CASE rows'[e] = rows[e]
        BY <1>1, <2>1
    <2>2. ASSUME NEW r \in Requests, CommitChange(r), task[r].of = e,
                 rows'[e] = [col \in DOMAIN rows[e] |->
                                IF col \in Dirty(r) THEN loaded[r][col] ELSE rows[e][col]]
          PROVE  rows'[e].status = "SEALED"
        <3>1. "status" \in DOMAIN rows[e]
            BY <1>1 DEF EvidenceInv, TypeOK, Record
        <3>2. Changing(r)
            BY <2>2 DEF CommitChange, Changing
        <3>3. task[r].op # "hash" /\ (task[r].op = "seal" => loaded[r].status = "SEALED")
            BY <1>1, <2>2, <3>2 DEF EvidenceInv, ChangeInv
        <3>4. "status" \in Dirty(r) => task[r].op = "seal"
            BY <2>2, <3>3 DEF Dirty, Assigned, CommitChange, Changes, HoldChanges
        <3> QED BY <1>1, <2>2, <3>1, <3>3, <3>4
    <2> QED BY <1>1, <2>1, <2>2, RowChange
<1>2. EvidenceInv /\ [Next]_vars =>
          [\A e \in DOMAIN rows :
              Uploaded(e) /\ rows[e].status = "SEALED" => rows'[e].status = "SEALED"]_vars
    BY <1>1
<1> QED BY <1>2, InvariantHolds, PTL DEF Spec, UploadsStaySealed

\* A request that did not ask about the hold never changes it, since the flush
\* of its copy leaves the column out: apply_legal_hold() and release_legal_hold()
\* alone do, and the row says what the one that committed last asked for.
THEOREM HoldsAreKept == Spec => HoldIsKept
<1> DEFINE Asked(e) == \E r \in Requests :
                /\ pc[r] = "audited" /\ pc'[r] = "committed"
                /\ task[r] \in [op : HoldChanges, of : {e}]
                /\ rows'[e].legal_hold = (task[r].op = "apply")
<1>1. ASSUME EvidenceInv, [Next]_vars, NEW e \in DOMAIN rows,
             rows'[e].legal_hold # rows[e].legal_hold
      PROVE  Asked(e)
    <2>1. PICK r \in Requests :
             /\ CommitChange(r) /\ task[r].of = e
             /\ rows'[e] = [col \in DOMAIN rows[e] |->
                               IF col \in Dirty(r) THEN loaded[r][col] ELSE rows[e][col]]
        BY <1>1, RowChange
    <2>2. "legal_hold" \in DOMAIN rows[e]
        BY <1>1 DEF EvidenceInv, TypeOK, Record
    <2>3. "legal_hold" \in Dirty(r) /\ rows'[e].legal_hold = loaded[r].legal_hold
        BY <1>1, <2>1, <2>2
    <2>4. task[r].op \in HoldChanges
        BY <2>1, <2>3 DEF Dirty, Assigned, CommitChange, Changes, HoldChanges
    <2>5. Changing(r)
        BY <2>1 DEF CommitChange, Changing
    <2>6. loaded[r].legal_hold = (task[r].op = "apply")
        BY <1>1, <2>4, <2>5 DEF EvidenceInv, ChangeInv
    <2>7. task[r] \in [op : HoldChanges, of : {e}]
        <3>1. task[r] \in [op : Creations \cup Changes \cup {None}, of : Requests]
            BY <1>1 DEF EvidenceInv, TypeOK
        <3> QED BY <3>1, <2>1, <2>4
    <2>8. pc[r] = "audited" /\ pc'[r] = "committed"
        BY <1>1, <2>1 DEF CommitChange, Goto, EvidenceInv, TypeOK
    <2>9. rows'[e].legal_hold = (task[r].op = "apply")
        BY <2>3, <2>6
    <2> QED BY <2>7, <2>8, <2>9
<1>2. EvidenceInv /\ [Next]_vars =>
          [\A e \in DOMAIN rows :
              rows'[e].legal_hold # rows[e].legal_hold => Asked(e)]_vars
    BY <1>1
<1> QED BY <1>2, InvariantHolds, PTL DEF Spec, HoldIsKept
===============================================================================
