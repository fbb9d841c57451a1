------------------------------- MODULE Evidence -------------------------------
(***************************************************************************)
(* Evidence records and the object store, for concurrent requests.         *)
(*                                                                         *)
(* upload_evidence() stores an object, inserts the record, reads the object *)
(* back and marks the record hashed, all in one transaction, but the store *)
(* knows no transaction and the audit rows are eager.  record_upload()     *)
(* inserts a record for an object stored by somebody else.  The other four  *)
(* load a record, check and change the copy, and write its changed columns *)
(* back; the row stays locked from that UPDATE to the end of the            *)
(* transaction.                                                            *)
(***************************************************************************)
CONSTANTS
    Requests,   \* requests; a record and its object are named after their request
    Sent,       \* the bytes a client sends, and their hash
    Altered,    \* other bytes, and their hash
    None        \* a column that is NULL

ASSUME ContentAssumption == Sent # Altered /\ None \notin {Sent, Altered}

VARIABLES
    store,      \* objects: from the request that put them to their bytes
    rows,       \* committed records, by the request that made them
    log,        \* committed audit rows, of the records they name
    pc,         \* where a request is
    task,       \* what a request is about: an operation and a record
    loaded,     \* the copy a request has checked and changed
    base,       \* the row its session holds when it writes back
    mark        \* upload and mark_hashed: the hash to record

vars == <<store, rows, log, pc, task, loaded, base, mark>>

Hashes == {Sent, Altered}
Grades == {"governance", "compliance"}
Creations == {"upload", "record"}
Changes == {"hash", "seal", "apply", "release"}
HoldChanges == {"apply", "release"}

Record == [status : {"RECEIVED", "HASHED", "SEALED"}, sha256 : Hashes \cup {None},
           worm_grade : Grades \cup {None}, legal_hold : BOOLEAN]
NewRecord == [status |-> "RECEIVED", sha256 |-> None, worm_grade |-> None,
              legal_hold |-> FALSE]

Ended == {"committed", "rejected", "failed"}
\* A request that has flushed its record or its change and may commit or not.
Flushed == {"inserted", "announced", "readBack", "marked", "written", "audited"}
PCs == {"idle", "stored", "changed", "fetched"} \cup Flushed \cup Ended

Events == {"evidence.uploaded", "evidence.hashed", "evidence.sealed",
           "evidence.legal_hold.applied", "evidence.legal_hold.released",
           "evidence.integrity_check_failed"}

TypeOK ==
    /\ DOMAIN store \subseteq Requests /\ store \in [DOMAIN store -> Hashes]
    /\ DOMAIN rows \subseteq Requests /\ rows \in [DOMAIN rows -> Record]
    /\ log \in SUBSET (Events \X Requests)
    /\ pc \in [Requests -> PCs]
    /\ task \in [Requests -> [op : Creations \cup Changes \cup {None}, of : Requests]]
    /\ loaded \in [Requests -> Record]
    /\ base \in [Requests -> Record]
    /\ mark \in [Requests -> Hashes \cup {None}]

Init ==
    /\ store = [k \in {} |-> Sent]
    /\ rows = [e \in {} |-> NewRecord]
    /\ log = {}
    /\ pc = [r \in Requests |-> "idle"]
    /\ task = [r \in Requests |-> [op |-> None, of |-> r]]
    /\ loaded = [r \in Requests |-> NewRecord]
    /\ base = [r \in Requests |-> NewRecord]
    /\ mark = [r \in Requests |-> None]

Goto(r, label) == pc' = [pc EXCEPT ![r] = label]
Audit(event, e) == log' = log \cup {<<event, e>>}

\* f with x mapped to v, whether or not x was in its domain.
With(f, x, v) == [y \in DOMAIN f \cup {x} |-> IF y = x THEN v ELSE f[y]]

-----------------------------------------------------------------------------
\* upload_evidence(): the caller may submit evidence; the object is stored.
Put(r) ==
    /\ pc[r] = "idle"
    /\ task' = [task EXCEPT ![r].op = "upload"]
    /\ store' = With(store, r, Sent)
    /\ Goto(r, "stored")
    /\ UNCHANGED <<rows, log, loaded, base, mark>>

\* EvidenceRecord.new() and add(): upload after storing, record_upload at once.
Insert(r) ==
    /\ \/ pc[r] = "stored" /\ UNCHANGED task
       \/ pc[r] = "idle" /\ task' = [task EXCEPT ![r].op = "record"]
    /\ loaded' = [loaded EXCEPT ![r] = NewRecord]
    /\ Goto(r, "inserted")
    /\ UNCHANGED <<store, rows, log, base, mark>>

\* Mutant: the audit row is written once the record is committed, by nobody.
AnnounceNothing(r) ==
    /\ pc[r] = "inserted"
    /\ Goto(r, "announced")
    /\ UNCHANGED <<store, rows, log, task, loaded, base, mark>>

\* "evidence.uploaded" is durable before the record is.
Announce(r) ==
    /\ pc[r] = "inserted"
    /\ Audit("evidence.uploaded", r)
    /\ Goto(r, "announced")
    /\ UNCHANGED <<store, rows, task, loaded, base, mark>>

\* Mutant: the failed check answers 409, and an HTTPException commits.
ReadBackConflict(r) ==
    /\ pc[r] = "announced" /\ task[r].op = "upload"
    /\ mark' = [mark EXCEPT ![r] = store[r]]
    /\ \/ store[r] = Sent /\ Goto(r, "readBack") /\ UNCHANGED <<rows, log>>
       \/ /\ store[r] # Sent
          /\ Audit("evidence.integrity_check_failed", r)
          /\ rows' = With(rows, r, loaded[r])
          /\ Goto(r, "rejected")
    /\ UNCHANGED <<store, task, loaded, base>>

\* The object as the store holds it now; other bytes end the request with an
\* EvidenceIntegrityError, which rolls the record back and not the audit rows.
ReadBack(r) ==
    /\ pc[r] = "announced" /\ task[r].op = "upload"
    /\ mark' = [mark EXCEPT ![r] = store[r]]
    /\ \/ store[r] = Sent /\ Goto(r, "readBack") /\ UNCHANGED log
       \/ /\ store[r] # Sent
          /\ Audit("evidence.integrity_check_failed", r)
          /\ Goto(r, "failed")
    /\ UNCHANGED <<store, rows, task, loaded, base>>

\* The upload's own mark_hashed(): the row is not committed, nobody else sees it.
MarkHashed(r) ==
    /\ pc[r] = "readBack"
    /\ loaded' = [loaded EXCEPT ![r].status = "HASHED", ![r].sha256 = mark[r]]
    /\ Goto(r, "marked")
    /\ UNCHANGED <<store, rows, log, task, base, mark>>

AnnounceHash(r) ==
    /\ pc[r] = "marked"
    /\ Audit("evidence.hashed", r)
    /\ Goto(r, "audited")
    /\ UNCHANGED <<store, rows, task, loaded, base, mark>>

\* The session commits, after the response.
CommitNew(r) ==
    /\ \/ pc[r] = "announced" /\ task[r].op = "record"
       \/ pc[r] = "audited" /\ task[r].op = "upload"
    /\ rows' = With(rows, r, loaded[r])
    /\ Goto(r, "committed")
    /\ UNCHANGED <<store, log, task, loaded, base, mark>>

-----------------------------------------------------------------------------
\* Mutant: a sealed record is refused, a hashed one is hashed again.
MayChangeHashed(op, record) ==
    /\ op = "hash" => record.status # "SEALED"
    /\ op = "seal" => record.status = "HASHED"

\* The checks of EvidenceRecord; a legal hold is taken and released in any state.
MayChange(op, record) ==
    /\ op = "hash" => record.status = "RECEIVED"
    /\ op = "seal" => record.status = "HASHED"

\* What each mutator of EvidenceRecord can make of a copy.
Changed(op, record) ==
    CASE op = "hash" -> {[record EXCEPT !.status = "HASHED", !.sha256 = h] : h \in Hashes}
      [] op = "seal" -> {[record EXCEPT !.status = "SEALED", !.worm_grade = g] : g \in Grades}
      [] op = "apply" -> {[record EXCEPT !.legal_hold = TRUE]}
      [] op = "release" -> {[record EXCEPT !.legal_hold = FALSE]}

\* mark_hashed(), seal(), apply_legal_hold(), release_legal_hold(): load the
\* record, check it and change the copy.
Change(r) ==
    /\ pc[r] = "idle"
    /\ \E op \in Changes, e \in DOMAIN rows :
        /\ MayChange(op, rows[e])
        /\ task' = [task EXCEPT ![r] = [op |-> op, of |-> e]]
        /\ loaded' \in {[loaded EXCEPT ![r] = record] : record \in Changed(op, rows[e])}
        /\ base' = [base EXCEPT ![r] = rows[e]]
    /\ Goto(r, "changed")
    /\ UNCHANGED <<store, rows, log, mark>>

\* The repository gets the row again: the instance of the load if it is still
\* in the session's weak identity map, a new SELECT otherwise.
Fetch(r) ==
    /\ pc[r] = "changed"
    /\ base' \in {base, [base EXCEPT ![r] = rows[task[r].of]]}
    /\ Goto(r, "fetched")
    /\ UNCHANGED <<store, rows, log, task, loaded, mark>>

\* Mutant: every column is assigned, as ParcelRepository.update() does.
AssignedAll(op) == {"status", "sha256", "worm_grade", "legal_hold"}

\* Mutant: the hold's method assigns the status of its copy, too.
AssignedWithStatus(op) ==
    IF op \in HoldChanges THEN {"status", "legal_hold"} ELSE {"status", "sha256", "worm_grade"}

\* The columns the repository's method assigns.
Assigned(op) ==
    CASE op = "hash" -> {"status", "sha256"}
      [] op = "seal" -> {"status", "worm_grade"}
      [] op \in HoldChanges -> {"legal_hold"}

\* Those of them the flush puts in its UPDATE; with none, there is no UPDATE.
Dirty(r) == {col \in Assigned(task[r].op) : loaded[r][col] # base[r][col]}

\* r holds the lock of record e.
Holds(r, e) ==
    /\ pc[r] \in {"written", "audited"}
    /\ task[r].op \in Changes /\ task[r].of = e
    /\ Dirty(r) # {}

\* The flush waits while another transaction has the row.
Write(r) ==
    /\ pc[r] = "fetched"
    /\ Dirty(r) = {} \/ ~ \E q \in Requests : Holds(q, task[r].of)
    /\ Goto(r, "written")
    /\ UNCHANGED <<store, rows, log, task, loaded, base, mark>>

EventOf(op) ==
    CASE op = "hash" -> "evidence.hashed"
      [] op = "seal" -> "evidence.sealed"
      [] op = "apply" -> "evidence.legal_hold.applied"
      [] op = "release" -> "evidence.legal_hold.released"

AnnounceChange(r) ==
    /\ pc[r] = "written"
    /\ Audit(EventOf(task[r].op), task[r].of)
    /\ Goto(r, "audited")
    /\ UNCHANGED <<store, rows, task, loaded, base, mark>>

CommitChange(r) ==
    /\ pc[r] = "audited" /\ task[r].op \in Changes
    /\ LET e == task[r].of
       IN  rows' = [rows EXCEPT ![e] = [col \in DOMAIN @ |->
                        IF col \in Dirty(r) THEN loaded[r][col] ELSE @[col]]]
    /\ Goto(r, "committed")
    /\ UNCHANGED <<store, log, task, loaded, base, mark>>

-----------------------------------------------------------------------------
\* 400, 403, 404 and 409.  A refused evidence_type or name comes after the put.
Reject(r) ==
    /\ pc[r] \in {"idle", "stored"}
    /\ Goto(r, "rejected")
    /\ UNCHANGED <<store, rows, log, task, loaded, base, mark>>

\* Any other end: an exception, a failed commit, a lost connection, a dead process.
Fail(r) ==
    /\ pc[r] \in {"stored", "changed", "fetched"} \cup Flushed
    /\ Goto(r, "failed")
    /\ UNCHANGED <<store, rows, log, task, loaded, base, mark>>

\* The store loses the bytes it was given.
Alter(k) ==
    /\ k \in DOMAIN store /\ store[k] = Sent
    /\ store' = [store EXCEPT ![k] = Altered]
    /\ UNCHANGED <<rows, log, pc, task, loaded, base, mark>>

Step(r) ==
    \/ Put(r)
    \/ Insert(r)
    \/ Announce(r)
    \/ ReadBack(r)
    \/ MarkHashed(r)
    \/ AnnounceHash(r)
    \/ CommitNew(r)
    \/ Change(r)
    \/ Fetch(r)
    \/ Write(r)
    \/ AnnounceChange(r)
    \/ CommitChange(r)
    \/ Reject(r)
    \/ Fail(r)

Next == \E r \in Requests : Step(r) \/ Alter(r)

Spec == Init /\ [][Next]_vars

-----------------------------------------------------------------------------
Uploaded(e) == task[e].op = "upload"

\* "the storage write must complete BEFORE the EvidenceRecord row is persisted"
\* and the recorded hash is that of what the store gave back: a durable uploaded
\* record has its object, has been hashed, and its hash is the client's bytes',
\* however requests overlap afterwards.  The audit row of every record is durable.
RecordsAreWhole ==
    \A e \in DOMAIN rows :
        /\ <<"evidence.uploaded", e>> \in log
        /\ Uploaded(e) => /\ e \in DOMAIN store
                          /\ rows[e].sha256 = Sent
                          /\ rows[e].status \in {"HASHED", "SEALED"}

\* What remains of an upload whose object did not read back as it was sent: its
\* object and two audit rows, of a record that is not there and never will be.  (The
\* docstring of EvidenceIntegrityError says that the record is left at RECEIVED; the
\* transaction that inserted it is rolled back.)
FailedChecksLeaveNoRecord ==
    \A r \in Requests : <<"evidence.integrity_check_failed", r>> \in log =>
        /\ r \notin DOMAIN rows
        /\ <<"evidence.uploaded", r>> \in log
        /\ r \in DOMAIN store

\* "an orphaned object in storage with no EvidenceRecord referencing it" is that of
\* an upload that has not committed: no record that was once durable loses its row,
\* and none is durable without its object.
OrphansAreUncommitted ==
    \A k \in DOMAIN store \ DOMAIN rows : Uploaded(k) /\ pc[k] # "committed"

\* The store, which knows no transaction, and the audit log, which is written eagerly,
\* are ahead of the records and never behind, whatever fails and whatever overlaps.
RecordsAreBacked == RecordsAreWhole /\ FailedChecksLeaveNoRecord /\ OrphansAreUncommitted

\* "Status moves one-way".  Of an uploaded record that is true even of requests
\* that overlap, since no stale copy of it can say RECEIVED: once sealed, it stays
\* so.  (Records of record_upload() have no such protection.)
UploadsStaySealed ==
    [][\A e \in DOMAIN rows :
        Uploaded(e) /\ rows[e].status = "SEALED" => rows'[e].status = "SEALED"]_vars

\* A legal hold is "orthogonal to status": only requests about the hold change
\* it, whatever copies the other mutators have loaded before it was taken.
HoldIsKept ==
    [][\A e \in DOMAIN rows :
        rows'[e].legal_hold # rows[e].legal_hold =>
            \E r \in Requests :
                /\ pc[r] = "audited" /\ pc'[r] = "committed"
                /\ task[r] \in [op : HoldChanges, of : {e}]
                /\ rows'[e].legal_hold = (task[r].op = "apply")]_vars
=============================================================================
