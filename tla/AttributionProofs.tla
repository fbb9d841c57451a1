-------------------------- MODULE AttributionProofs --------------------------
(***************************************************************************)
(* Proofs about Attribution, for any number of concurrent requests:        *)
(* lineages are chains, refusals leave nothing, and the refinement of the  *)
(* table in which a correction is one step.                                *)
(***************************************************************************)
EXTENDS Attribution, FiniteSetTheorems, TLAPS

\* A fresh row below a row of the table, or below none, keeps the DAG of lineages.
LEMMA AddToLineage ==
    ASSUME NEW dag, NEW e, Lineage!ValidDag(dag),
           e.hash \notin Lineage!Hashes(dag) \cup {NoRow},
           e.prev_hash \in Lineage!Hashes(dag) \cup {NoRow}
    PROVE  Lineage!ValidDag(dag \cup {e})
<1> DEFINE all == dag \cup {e}
<1>1. Lineage!UniqueHashes(all)
  BY DEF Lineage!ValidDag, Lineage!UniqueHashes, Lineage!Hashes
<1>2. Lineage!Resolves(all)
  BY DEF Lineage!ValidDag, Lineage!Resolves, Lineage!Hashes
<1>3. ASSUME NEW part \in SUBSET all, part # {}
      PROVE  \E f \in part : f.prev_hash \notin Lineage!Hashes(part)
  <2>1. CASE part \subseteq {e}
    BY <1>3, <2>1 DEF Lineage!Hashes
  <2>2. CASE part \ {e} # {}
    <3>1. PICK f \in part \ {e} : f.prev_hash \notin Lineage!Hashes(part \ {e})
      BY <2>2 DEF Lineage!ValidDag, Lineage!Acyclic
    <3>2. f.prev_hash # e.hash
      BY DEF Lineage!ValidDag, Lineage!Resolves
    <3>3. QED
      BY <3>1, <3>2 DEF Lineage!Hashes
  <2>3. QED
    BY <2>1, <2>2
<1>4. QED
  BY <1>1, <1>2, <1>3 DEF Lineage!ValidDag, Lineage!Acyclic

\* What is shown inductive.
IInv == TypeOK /\ AttributionInv /\ LineagesAreChains /\ RefusalsLeaveNothing

\* The DAG of lineages names rows by their ids.
LEMMA LineageHashes ==
    ASSUME NEW table PROVE Lineage!Hashes(AsDag(table)) = Ids(table)
<1>1. ASSUME NEW h \in Lineage!Hashes(AsDag(table)) PROVE h \in Ids(table)
  <2>1. PICK d \in AsDag(table) : h = d.hash
    BY DEF Lineage!Hashes
  <2>2. PICK row \in table : d = [hash |-> row.id, prev_hash |-> row.supersedes]
    BY DEF AsDag
  <2> QED
    BY <2>1, <2>2 DEF Ids
<1>2. ASSUME NEW row \in table PROVE row.id \in Lineage!Hashes(AsDag(table))
  <2> DEFINE d == [hash |-> row.id, prev_hash |-> row.supersedes]
  <2>1. d \in AsDag(table)
    BY DEF AsDag
  <2>2. d.hash = row.id
    OBVIOUS
  <2> HIDE DEF d
  <2> QED
    BY <2>1, <2>2 DEF Lineage!Hashes
<1> QED
  BY <1>1, <1>2 DEF Ids

\* Nothing is recorded and no request has begun.
LEMMA InitIInv == Init => IInv
<1> SUFFICES ASSUME Init PROVE IInv
  OBVIOUS
<1>1. TypeOK
  BY DEF Init, TypeOK, PCs
<1>2. AttributionInv
  BY DEF Init, AttributionInv, Ids
<1>3. LineagesAreChains
  <2>1. AsDag(rows) = {}
    BY DEF Init, AsDag
  <2>2. Lineage!ValidDag({})
    BY DEF Lineage!ValidDag, Lineage!UniqueHashes, Lineage!Resolves,
           Lineage!Acyclic
  <2> QED
    BY <2>1, <2>2 DEF Init, LineagesAreChains
<1>4. RefusalsLeaveNothing
  BY DEF Init, RefusalsLeaveNothing, Refusals
<1> QED
  BY <1>1, <1>2, <1>3, <1>4 DEF IInv

\* Every step keeps the types.
LEMMA TypeStep == TypeOK /\ [Next]_vars => TypeOK'
<1> SUFFICES ASSUME TypeOK, [Next]_vars PROVE TypeOK'
  OBVIOUS
<1> USE DEF TypeOK, PCs, Open, Refusals, Goto
<1>1. ASSUME NEW r \in Requests, BeginRecord(r) PROVE TypeOK'
  BY <1>1 DEF BeginRecord
<1>2. ASSUME NEW r \in Requests, BeginCorrect(r) PROVE TypeOK'
  BY <1>2 DEF BeginCorrect, Ids, Row
<1>3. ASSUME NEW r \in Requests, Hop(r) PROVE TypeOK'
  BY <1>3 DEF Hop, Row
<1>4. ASSUME NEW r \in Requests, Resolve(r) PROVE TypeOK'
  BY <1>4 DEF Resolve
<1>5. ASSUME NEW r \in Requests, Refuse(r) PROVE TypeOK'
  BY <1>5 DEF Refuse
<1>6. ASSUME NEW r \in Requests, Insert(r) PROVE TypeOK'
  BY <1>6 DEF Insert, NewRow, Row
<1>7. ASSUME NEW r \in Requests, Collide(r) PROVE TypeOK'
  BY <1>7 DEF Collide
<1>8. ASSUME NEW r \in Requests, StageAudit(r) PROVE TypeOK'
  BY <1>8 DEF StageAudit
<1>9. ASSUME NEW r \in Requests, Commit(r) PROVE TypeOK'
  BY <1>9 DEF Commit, Discard, Mine
<1>10. ASSUME NEW r \in Requests, Fail(r) PROVE TypeOK'
  BY <1>10 DEF Fail, Discard, Mine
<1>11. ASSUME NEW r \in Requests, Admit(r) PROVE TypeOK'
  BY <1>11 DEF Admit
<1>12. CASE UNCHANGED vars
  BY <1>12 DEF vars
<1> QED
  BY <1>1, <1>2, <1>3, <1>4, <1>5, <1>6, <1>7, <1>8, <1>9, <1>10, <1>11,
     <1>12
  DEF Next, Step

\* A request has one row in its transaction, and its commit adds just that.
LEMMA CommitMovesOneRow ==
  ASSUME IInv, NEW r \in Requests, Commit(r)
  PROVE  /\ NewRow(r) \in staged
         /\ rows' = rows \cup {NewRow(r)}
         /\ staged' = staged \ {NewRow(r)}
         /\ log' = log \cup {r}
         /\ stagedLog' = stagedLog \ {r}
         /\ UNCHANGED cursor
         /\ pc' = [pc EXCEPT ![r] = "committed"]
<1>1. pc[r] = "audited"
  BY DEF Commit
<1>2. NewRow(r) \in staged /\ r \in stagedLog
  BY <1>1 DEF IInv, AttributionInv
<1>3. Mine(r, staged) = {NewRow(r)}
  BY <1>2 DEF IInv, AttributionInv, Mine, NewRow
<1> QED
  BY <1>2, <1>3 DEF Commit, Discard, Goto

\* Likewise a failure takes back the request's row, if it has one.
LEMMA FailDropsOwnRow ==
  ASSUME IInv, NEW r \in Requests, Fail(r)
  PROVE  /\ staged' = {row \in staged : row.id # r}
         /\ stagedLog' = stagedLog \ {r}
         /\ UNCHANGED <<rows, log, cursor>>
         /\ pc' = [pc EXCEPT ![r] = "failed"]
BY DEF Fail, Discard, Mine, Goto

\* The row a commit adds is below nothing: it is new, and supersedes a row of
\* the table that no row superseded.
LEMMA CommittedRowIsNew ==
  ASSUME IInv, NEW r \in Requests, Commit(r)
  PROVE  /\ r \notin Ids(rows)
         /\ cursor[r] \in Ids(rows) \cup {NoRow}
         /\ ~Taken(cursor[r], rows)
<1>1. NewRow(r) \in staged /\ pc[r] = "audited"
  BY CommitMovesOneRow DEF Commit
<1> QED
  BY <1>1 DEF IInv, AttributionInv, Ids, NewRow

\* Only Commit adds a committed row, below one that nothing supersedes.
LEMMA ChainStep == IInv /\ [Next]_vars => LineagesAreChains'
<1> SUFFICES ASSUME IInv, [Next]_vars PROVE LineagesAreChains'
  OBVIOUS
<1>1. CASE rows' = rows
  BY <1>1 DEF IInv, LineagesAreChains, AsDag
<1>2. ASSUME NEW r \in Requests, Commit(r) PROVE LineagesAreChains'
  <2> DEFINE e == [hash |-> r, prev_hash |-> cursor[r]]
  <2>1. rows' = rows \cup {NewRow(r)}
    BY <1>2, CommitMovesOneRow
  <2>2. AsDag(rows') = AsDag(rows) \cup {e}
    <3>1. e = [hash |-> NewRow(r).id, prev_hash |-> NewRow(r).supersedes]
      BY DEF NewRow
    <3> HIDE DEF e
    <3> QED
      BY <2>1, <3>1 DEF AsDag
  <2>3. Lineage!Hashes(AsDag(rows)) = Ids(rows)
    BY LineageHashes
  <2>4. /\ e.hash \notin Lineage!Hashes(AsDag(rows)) \cup {NoRow}
        /\ e.prev_hash \in Lineage!Hashes(AsDag(rows)) \cup {NoRow}
    BY <1>2, <2>3, CommittedRowIsNew, NoRowAssumption
  <2>5. Lineage!ValidDag(AsDag(rows) \cup {e})
    <3> HIDE DEF e
    <3> QED
      BY <2>4, AddToLineage DEF IInv, LineagesAreChains
  <2>6. \A f, g \in rows' : f.supersedes = g.supersedes
                                => f = g \/ f.supersedes = NoRow
    BY <1>2, <2>1, CommittedRowIsNew
    DEF IInv, LineagesAreChains, Taken, NewRow
  <2> QED
    BY <2>2, <2>5, <2>6 DEF LineagesAreChains
<1>3. rows' = rows \/ \E r \in Requests : Commit(r)
  BY DEF Next, Step, BeginRecord, BeginCorrect, Hop, Resolve, Refuse, Admit,
         Insert, Collide, StageAudit, Fail, vars
<1> QED
  BY <1>1, <1>2, <1>3
\* Steps before the INSERT: they move one request and its cursor, and leave
\* the tables alone.
LEMMA WalkKeepsInv ==
  ASSUME IInv, NEW r \in Requests,
         pc[r] \in {"idle", "walking", "resolved", "admitted"},
         UNCHANGED <<rows, log, staged, stagedLog>>,
         NEW label \in {"walking", "resolved", "admitted", "refused", "conflict"},
         pc' = [pc EXCEPT ![r] = label],
         NEW next \in Ids(rows) \cup {NoRow},
         cursor' = [cursor EXCEPT ![r] = next],
         label = "conflict" => Taken(next, rows)
  PROVE  AttributionInv' /\ RefusalsLeaveNothing'
<1> USE DEF IInv, TypeOK
<1>1. \A s \in Requests : s # r => pc'[s] = pc[s] /\ cursor'[s] = cursor[s]
  OBVIOUS
<1>2. pc'[r] = label /\ cursor'[r] = next
  OBVIOUS
<1>3. r \notin Ids(rows) \cup Ids(staged) \cup log \cup stagedLog
  BY DEF AttributionInv, Ids
<1>4. AttributionInv'
  <2>1. \A row \in rows : pc'[row.id] = "committed"
    BY <1>1, <1>3 DEF AttributionInv, Ids, Row
  <2>2. \A row \in staged : /\ pc'[row.id] \in {"inserted", "audited"}
                            /\ row = [id |-> row.id, supersedes |-> cursor'[row.id]]
                            /\ ~Taken(row.supersedes, rows)
    BY <1>1, <1>3 DEF AttributionInv, Ids, Row, NewRow
  <2>3. \A s \in Requests : pc'[s] \in {"inserted", "audited"}
            => [id |-> s, supersedes |-> cursor'[s]] \in staged
    BY <1>1, <1>2 DEF AttributionInv, NewRow
  <2>4. \A s \in Requests : s \in stagedLog <=> pc'[s] = "audited"
    BY <1>1, <1>2, <1>3 DEF AttributionInv
  <2>5. \A s \in Requests : cursor'[s] \in Ids(rows) \cup {NoRow}
    BY <1>1, <1>2 DEF AttributionInv
  <2> QED
    BY <2>1, <2>2, <2>3, <2>4, <2>5 DEF AttributionInv, NewRow, Ids, Taken
<1>5. RefusalsLeaveNothing'
  BY <1>1, <1>2, <1>3
  DEF RefusalsLeaveNothing, Refusals, Ids, Taken
<1> QED
  BY <1>4, <1>5

\* The unique constraint refuses a key that is taken, committed or staged.
LEMMA InsertKeepsInv ==
  ASSUME IInv, NEW r \in Requests, Insert(r)
  PROVE  AttributionInv' /\ RefusalsLeaveNothing'
<1> USE DEF IInv, TypeOK
<1>1. \A s \in Requests : s # r => pc'[s] = pc[s]
  BY DEF Insert, Goto
<1>2. pc[r] = "admitted" /\ pc'[r] = "inserted"
  BY DEF Insert, Goto
<1>3. UNCHANGED <<rows, log, stagedLog, cursor>>
  BY DEF Insert
<1>4. /\ staged' = staged \cup {NewRow(r)}
      /\ ~Taken(cursor[r], staged)
      /\ ~Taken(cursor[r], rows)
  BY DEF Insert
<1>5. r \notin Ids(rows) \cup Ids(staged) \cup log \cup stagedLog
  BY <1>2 DEF AttributionInv, Ids
<1>6. AttributionInv'
  <2>1. \A row \in rows : pc'[row.id] = "committed"
    BY <1>1, <1>5 DEF AttributionInv, Ids, Row
  <2>2. \A row \in staged' : /\ pc'[row.id] \in {"inserted", "audited"}
                             /\ row = NewRow(row.id)
                             /\ ~Taken(row.supersedes, rows)
    BY <1>1, <1>2, <1>4, <1>5 DEF AttributionInv, Ids, Row, NewRow
  <2>3. \A s \in Requests : pc'[s] \in {"inserted", "audited"}
                                => NewRow(s) \in staged'
    BY <1>1, <1>4 DEF AttributionInv
  <2>4. \A s \in Requests : s \in stagedLog <=> pc'[s] = "audited"
    BY <1>1, <1>2, <1>5 DEF AttributionInv
  <2>5. \A e, f \in staged' : e.supersedes = f.supersedes
                                 => e = f \/ e.supersedes = NoRow
    BY <1>4 DEF AttributionInv, Taken, NewRow
  <2> QED
    BY <1>3, <2>1, <2>2, <2>3, <2>4, <2>5
    DEF AttributionInv, NewRow, Ids, Taken
<1>7. RefusalsLeaveNothing'
  BY <1>1, <1>2, <1>3, <1>4
  DEF RefusalsLeaveNothing, Refusals, Ids, Taken, NewRow
<1> QED
  BY <1>6, <1>7

\* audit_staged() writes into the transaction of the row.
LEMMA StageAuditKeepsInv ==
  ASSUME IInv, NEW r \in Requests, StageAudit(r)
  PROVE  AttributionInv' /\ RefusalsLeaveNothing'
<1> USE DEF IInv, TypeOK
<1>1. \A s \in Requests : s # r => pc'[s] = pc[s]
  BY DEF StageAudit, Goto
<1>2. pc[r] = "inserted" /\ pc'[r] = "audited"
  BY DEF StageAudit, Goto
<1>3. UNCHANGED <<rows, log, staged, cursor>> /\ stagedLog' = stagedLog \cup {r}
  BY DEF StageAudit
<1>4. r \notin Ids(rows)
  BY <1>2 DEF AttributionInv, Ids
<1>5. AttributionInv'
  <2>1. \A row \in rows : pc'[row.id] = "committed"
    BY <1>1, <1>4 DEF AttributionInv, Ids, Row
  <2>2. \A row \in staged : pc'[row.id] \in {"inserted", "audited"}
    BY <1>1, <1>2 DEF AttributionInv, Row
  <2>3. \A s \in Requests : pc'[s] \in {"inserted", "audited"}
                                => NewRow(s) \in staged
    BY <1>1, <1>2 DEF AttributionInv
  <2>4. \A s \in Requests : s \in stagedLog' <=> pc'[s] = "audited"
    BY <1>1, <1>2, <1>3 DEF AttributionInv
  <2> QED
    BY <1>3, <2>1, <2>2, <2>3, <2>4 DEF AttributionInv, NewRow, Ids, Taken
<1>6. RefusalsLeaveNothing'
  BY <1>1, <1>2, <1>3 DEF RefusalsLeaveNothing, Refusals, Ids, Taken
<1> QED
  BY <1>5, <1>6

\* What becomes durable was staged by this request and by no other.
LEMMA CommitKeepsInv ==
  ASSUME IInv, NEW r \in Requests, Commit(r)
  PROVE  AttributionInv' /\ RefusalsLeaveNothing'
<1> USE DEF IInv, TypeOK
<1>1. \A s \in Requests : s # r => pc'[s] = pc[s]
  BY CommitMovesOneRow
<1>2. pc[r] = "audited" /\ pc'[r] = "committed"
  BY DEF Commit, Goto
<1>3. /\ NewRow(r) \in staged
      /\ rows' = rows \cup {NewRow(r)}
      /\ staged' = staged \ {NewRow(r)}
      /\ log' = log \cup {r}
      /\ stagedLog' = stagedLog \ {r}
      /\ UNCHANGED cursor
  BY CommitMovesOneRow
<1>4. NewRow(r).id = r /\ NewRow(r).supersedes = cursor[r]
  BY DEF NewRow
<1>5. AttributionInv'
  <2>1. \A row \in rows' : pc'[row.id] = "committed"
    BY <1>1, <1>2, <1>3, <1>4 DEF AttributionInv, Row
  <2>2. log' = Ids(rows)'
    BY <1>3, <1>4 DEF AttributionInv, Ids
  <2>3. ASSUME NEW row \in staged'
        PROVE  /\ pc'[row.id] \in {"inserted", "audited"}
               /\ row = NewRow(row.id)
               /\ ~Taken(row.supersedes, rows')
    <3>1. row \in staged /\ row # NewRow(r)
      BY <1>3
    <3>2. row = NewRow(row.id) /\ row.id \in Requests \ {r}
      BY <3>1 DEF AttributionInv, Row
    <3>3. pc'[row.id] \in {"inserted", "audited"}
      BY <1>1, <3>1, <3>2 DEF AttributionInv
    <3>4. ~Taken(row.supersedes, rows)
      BY <3>1 DEF AttributionInv
    <3>5. row.supersedes = NoRow \/ row.supersedes # cursor[r]
      BY <1>3, <1>4, <3>1 DEF AttributionInv
    <3> QED
      BY <1>3, <1>4, <3>2, <3>3, <3>4, <3>5 DEF Taken
  <2>4. ASSUME NEW s \in Requests, pc'[s] \in {"inserted", "audited"}
        PROVE  NewRow(s) \in staged'
    <3>1. s # r
      BY <1>2, <2>4
    <3> QED
      BY <1>1, <1>3, <2>4, <3>1 DEF AttributionInv, NewRow
  <2>5. \A s \in Requests : s \in stagedLog' <=> pc'[s] = "audited"
    BY <1>1, <1>2, <1>3 DEF AttributionInv
  <2>6. \A s \in Requests : cursor[s] \in Ids(rows)' \cup {NoRow}
    BY <1>3 DEF AttributionInv, Ids
  <2>7. \A e, f \in staged' : e.supersedes = f.supersedes
                                 => e = f \/ e.supersedes = NoRow
    BY <1>3 DEF AttributionInv
  <2> QED
    BY <1>3, <2>1, <2>2, <2>3, <2>4, <2>5, <2>6, <2>7
    DEF AttributionInv, NewRow
<1>6. RefusalsLeaveNothing'
  <2> SUFFICES ASSUME NEW s \in Requests, pc'[s] \in Refusals
               PROVE  /\ s \notin Ids(rows)' \cup Ids(staged)'
                      /\ s \notin log' \cup stagedLog'
                      /\ pc'[s] = "conflict" => Taken(cursor'[s], rows')
    BY DEF RefusalsLeaveNothing, Ids, Taken
  <2>1. s # r /\ pc[s] \in Refusals
    BY <1>1, <1>2 DEF Refusals
  <2>2. /\ s \notin Ids(rows) \cup Ids(staged)
        /\ s \notin log \cup stagedLog
        /\ pc[s] = "conflict" => Taken(cursor[s], rows)
    BY <2>1 DEF RefusalsLeaveNothing
  <2> QED
    BY <1>1, <1>3, <1>4, <2>1, <2>2 DEF Ids, Taken
<1> QED
  BY <1>5, <1>6

\* A failed request takes away only what it has staged itself.
LEMMA FailKeepsInv ==
  ASSUME IInv, NEW r \in Requests, Fail(r)
  PROVE  AttributionInv' /\ RefusalsLeaveNothing'
<1> USE DEF IInv, TypeOK
<1>1. \A s \in Requests : s # r => pc'[s] = pc[s]
  BY FailDropsOwnRow
<1>2. pc[r] \in Open /\ pc'[r] = "failed"
  BY DEF Fail, Goto
<1>3. /\ staged' = {row \in staged : row.id # r}
      /\ stagedLog' = stagedLog \ {r}
      /\ UNCHANGED <<rows, log, cursor>>
  BY FailDropsOwnRow
<1>4. r \notin Ids(rows)
  BY <1>2 DEF AttributionInv, Ids, Open
<1>5. AttributionInv'
  <2>1. \A row \in rows : pc'[row.id] = "committed"
    BY <1>1, <1>4 DEF AttributionInv, Ids, Row
  <2>2. \A row \in staged' : pc'[row.id] \in {"inserted", "audited"}
    BY <1>1, <1>3 DEF AttributionInv, Row
  <2>3. ASSUME NEW s \in Requests, pc'[s] \in {"inserted", "audited"}
        PROVE  NewRow(s) \in staged'
    <3>1. s # r
      BY <1>2, <2>3
    <3> QED
      BY <1>1, <1>3, <2>3, <3>1 DEF AttributionInv, NewRow
  <2>4. \A s \in Requests : s \in stagedLog' <=> pc'[s] = "audited"
    BY <1>1, <1>2, <1>3 DEF AttributionInv
  <2> QED
    BY <1>3, <2>1, <2>2, <2>3, <2>4 DEF AttributionInv, NewRow, Ids, Taken
<1>6. RefusalsLeaveNothing'
  BY <1>1, <1>2, <1>3, <1>4
  DEF RefusalsLeaveNothing, AttributionInv, Refusals, Ids, Taken
<1> QED
  BY <1>5, <1>6

\* Every step keeps the invariant.
LEMMA InvStep ==
    IInv /\ [Next]_vars => AttributionInv' /\ RefusalsLeaveNothing'
<1> SUFFICES ASSUME IInv, [Next]_vars
             PROVE  AttributionInv' /\ RefusalsLeaveNothing'
  OBVIOUS
<1>0. \A r \in Requests : /\ cursor[r] \in Ids(rows) \cup {NoRow}
                          /\ cursor = [cursor EXCEPT ![r] = cursor[r]]
  BY DEF IInv, TypeOK, AttributionInv
<1>1. ASSUME NEW r \in Requests, BeginRecord(r)
      PROVE  AttributionInv' /\ RefusalsLeaveNothing'
  BY <1>0, <1>1, WalkKeepsInv DEF BeginRecord, Goto
<1>2. ASSUME NEW r \in Requests, BeginCorrect(r)
      PROVE  AttributionInv' /\ RefusalsLeaveNothing'
  <2>1. PICK named \in Ids(rows) : cursor' = [cursor EXCEPT ![r] = named]
    BY <1>2 DEF BeginCorrect
  <2> QED
    BY <1>2, <2>1, WalkKeepsInv DEF BeginCorrect, Goto
<1>3. ASSUME NEW r \in Requests, Hop(r)
      PROVE  AttributionInv' /\ RefusalsLeaveNothing'
  <2>1. PICK row \in rows : cursor' = [cursor EXCEPT ![r] = row.id]
    BY <1>3 DEF Hop
  <2>2. row.id \in Ids(rows)
    BY DEF Ids
  <2>3. pc' = [pc EXCEPT ![r] = "walking"]
    BY <1>3 DEF Hop, IInv, TypeOK
  <2> QED
    BY <1>3, <2>1, <2>2, <2>3, WalkKeepsInv DEF Hop
<1>4. ASSUME NEW r \in Requests, Resolve(r)
      PROVE  AttributionInv' /\ RefusalsLeaveNothing'
  BY <1>0, <1>4, WalkKeepsInv DEF Resolve, Goto
<1>5. ASSUME NEW r \in Requests, Refuse(r)
      PROVE  AttributionInv' /\ RefusalsLeaveNothing'
  BY <1>0, <1>5, WalkKeepsInv DEF Refuse, Goto
<1>6. ASSUME NEW r \in Requests, Insert(r)
      PROVE  AttributionInv' /\ RefusalsLeaveNothing'
  BY <1>6, InsertKeepsInv
<1>7. ASSUME NEW r \in Requests, Collide(r)
      PROVE  AttributionInv' /\ RefusalsLeaveNothing'
  BY <1>0, <1>7, WalkKeepsInv DEF Collide, Goto
<1>8. ASSUME NEW r \in Requests, StageAudit(r)
      PROVE  AttributionInv' /\ RefusalsLeaveNothing'
  BY <1>8, StageAuditKeepsInv
<1>9. ASSUME NEW r \in Requests, Commit(r)
      PROVE  AttributionInv' /\ RefusalsLeaveNothing'
  BY <1>9, CommitKeepsInv
<1>10. ASSUME NEW r \in Requests, Fail(r)
       PROVE  AttributionInv' /\ RefusalsLeaveNothing'
  BY <1>10, FailKeepsInv
<1>11. ASSUME NEW r \in Requests, Admit(r)
       PROVE  AttributionInv' /\ RefusalsLeaveNothing'
  BY <1>0, <1>11, WalkKeepsInv DEF Admit, Goto
<1>12. CASE UNCHANGED vars
  BY <1>12 DEF vars, IInv, AttributionInv, RefusalsLeaveNothing, NewRow, Ids,
               Taken
<1> QED
  BY <1>1, <1>2, <1>3, <1>4, <1>5, <1>6, <1>7, <1>8, <1>9, <1>10, <1>11,
     <1>12
  DEF Next, Step

\* The invariant holds throughout, for any requests.
LEMMA Invariance == Spec => []IInv
<1>1. IInv /\ [Next]_vars => IInv'
  BY TypeStep, ChainStep, InvStep DEF IInv
<1> QED
  BY InitIInv, <1>1, PTL DEF Spec

\* Type correctness of the model of the two attribution endpoints.
THEOREM TypeCorrect == Spec => []TypeOK
BY Invariance, PTL DEF IInv

\* At every instant at most one open transaction supersedes a given row, and it
\* does so only while no committed row supersedes it; the audit log names
\* exactly the committed rows.
THEOREM AttributionInvariant == Spec => []AttributionInv
BY Invariance, PTL DEF IInv

\* ADR-028: corrections form one linear history per attribution, whatever
\* correct_attribution() calls overlap.
THEOREM LineagesAlwaysChains == Spec => []LineagesAreChains
BY Invariance, PTL DEF IInv

\* 400, 403, 404, 409 and every failure leave neither row nor audit row, and
\* 409 is answered only when another correction has been committed.
THEOREM RefusalsAlwaysClean == Spec => []RefusalsLeaveNothing
BY Invariance, PTL DEF IInv

\* A commit is one Record or Correct of the ledger, no other step moves it.
LEMMA StepRefines == IInv /\ [Next]_vars => [Ledger!Next]_<<rows, log>>
<1> SUFFICES ASSUME IInv, [Next]_vars
             PROVE  Ledger!Next \/ UNCHANGED <<rows, log>>
  OBVIOUS
<1>1. ASSUME NEW r \in Requests, Commit(r) PROVE Ledger!Next
  <2>1. /\ rows' = rows \cup {NewRow(r)}
        /\ log' = log \cup {NewRow(r).id}
        /\ NewRow(r) = [id |-> r, supersedes |-> cursor[r]]
    BY <1>1, CommitMovesOneRow DEF NewRow
  <2>2. /\ r \notin Ledger!Ids
        /\ cursor[r] \in Ledger!Ids \cup {NoRow}
        /\ ~Taken(cursor[r], rows)
    BY <1>1, CommittedRowIsNew DEF Ids, Ledger!Ids
  <2>3. NewRow(r).id = r
    BY DEF NewRow
  <2>4. Ledger!Enter([id |-> r, supersedes |-> cursor[r]])
    BY <2>1, <2>2, <2>3, Zenon DEF Ledger!Enter
  <2>5. CASE cursor[r] = NoRow
    BY <2>4, <2>5 DEF Ledger!Record, Ledger!Next
  <2>6. CASE cursor[r] # NoRow
    <3>1. cursor[r] \in Ledger!ActiveIds
      BY <2>2, <2>6 DEF Ledger!ActiveIds, Taken
    <3> QED
      BY <2>4, <3>1 DEF Ledger!Correct, Ledger!Next
  <2> QED
    BY <2>5, <2>6
<1>2. UNCHANGED <<rows, log>> \/ \E r \in Requests : Commit(r)
  BY DEF Next, Step, BeginRecord, BeginCorrect, Hop, Resolve, Refuse, Admit,
         Insert, Collide, StageAudit, Fail, vars
<1> QED
  BY <1>1, <1>2

\* The walk to the head, the race for it, the unique constraint and the staged
\* audit row implement the table in which recording and correcting are atomic.
THEOREM AttributionImplementsLedger == Spec => ImplementsLedger
<1>1. Init => Ledger!Init
  BY DEF Init, Ledger!Init
<1> QED
  BY <1>1, StepRefines, Invariance, PTL
  DEF Spec, ImplementsLedger, Ledger!Spec, Ledger!vars

-----------------------------------------------------------------------------
(***************************************************************************)
(* Why a request ends: its steps are bounded, although the table grows      *)
(* while it walks.                                                         *)
(***************************************************************************)
\* The rows a walk at x may yet come to: those not committed, and those that
\* supersede x or another of them.
Leads(part, x) ==
  /\ Requests \ Ids(rows) \subseteq part
  /\ \A row \in rows : row.supersedes \in part \cup {x} => row.id \in part

ToCome(x) == {q \in Requests : \A part \in SUBSET Requests : Leads(part, x) => q \in part}

StepsLeft(r) ==
  CASE pc[r] = "idle" -> 6 + Cardinality(Requests)
    [] pc[r] = "walking" -> 5 + Cardinality(ToCome(cursor[r]))
    [] pc[r] = "resolved" -> 4
    [] pc[r] = "admitted" -> 3
    [] pc[r] = "inserted" -> 2
    [] pc[r] = "audited" -> 1
    [] OTHER -> 0

\* A step of a request is one less for it, and no more for any other.
StepsCount ==
  \A r \in Requests : /\ StepsLeft(r)' <= StepsLeft(r)
                      /\ Step(r) \/ Fail(r) => StepsLeft(r)' < StepsLeft(r)

\* The rows to come are themselves closed.
LEMMA ToComeLeads == \A x : ToCome(x) \in SUBSET Requests /\ (TypeOK => Leads(ToCome(x), x))
<1> SUFFICES ASSUME NEW x, TypeOK PROVE Leads(ToCome(x), x)
  BY DEF ToCome
<1>1. Requests \ Ids(rows) \subseteq ToCome(x)
  BY DEF ToCome, Leads
<1>2. ASSUME NEW row \in rows, row.supersedes \in ToCome(x) \cup {x}
      PROVE  row.id \in ToCome(x)
  <2>1. row.id \in Requests
    BY DEF TypeOK, Row
  <2>2. ASSUME NEW part \in SUBSET Requests, Leads(part, x) PROVE row.id \in part
    <3>1. row.supersedes \in part \cup {x}
      BY <1>2, <2>2 DEF ToCome
    <3> QED
      BY <2>2, <3>1 DEF Leads
  <2> QED
    BY <2>1, <2>2 DEF ToCome
<1> QED
  BY <1>1, <1>2 DEF Leads

\* A hop leaves the row it goes to behind, for good: the lineages have no cycle.
LEMMA HopLeavesBehind ==
  ASSUME IInv, NEW row \in rows
  PROVE  /\ ToCome(row.id) \subseteq ToCome(row.supersedes)
         /\ row.id \in ToCome(row.supersedes)
         /\ row.id \notin ToCome(row.id)
<1> DEFINE x == row.supersedes
           y == row.id
           T == ToCome(y)
<1>1. y \in Requests
  BY DEF IInv, TypeOK, Row
<1>2. ASSUME NEW part \in SUBSET Requests, Leads(part, x) PROVE Leads(part, y) /\ y \in part
  BY <1>2 DEF Leads
<1>3. T \in SUBSET Requests /\ Leads(T, y)
  BY ToComeLeads DEF IInv
<1>4. ASSUME y \in T PROVE FALSE
  <2> DEFINE part == {e \in rows : e.id \in T}
             Node(e) == [hash |-> e.id, prev_hash |-> e.supersedes]
  <2>0. \A e \in rows : /\ Node(e) \in AsDag(rows)
                        /\ Node(e).hash = e.id /\ Node(e).prev_hash = e.supersedes
    BY DEF AsDag
  <2>1. PICK f \in part : f.supersedes \notin Ids(part)
    <3>1. AsDag(part) \in SUBSET AsDag(rows) /\ AsDag(part) # {}
      BY <1>4 DEF AsDag
    <3>2. PICK e \in AsDag(part) : e.prev_hash \notin Lineage!Hashes(AsDag(part))
      BY <3>1 DEF IInv, LineagesAreChains, Lineage!ValidDag, Lineage!Acyclic
    <3>3. PICK f \in part : e = [hash |-> f.id, prev_hash |-> f.supersedes]
      BY DEF AsDag
    <3>4. Lineage!Hashes(AsDag(part)) = Ids(part)
      BY LineageHashes
    <3> QED
      BY <3>2, <3>3, <3>4
  <2>2. f \in rows /\ f.id \in T /\ f.supersedes \notin T
    <3>1. Node(f).prev_hash \in Ids(rows) \cup {NoRow}
      BY <2>0, LineageHashes
      DEF IInv, LineagesAreChains, Lineage!ValidDag, Lineage!Resolves
    <3>2. f.supersedes \in T => f.supersedes \in Ids(rows)
      BY <1>3, <2>0, <3>1, NoRowAssumption
    <3>3. f.supersedes \in T => f.supersedes \in Ids(part)
      BY <3>2 DEF Ids
    <3> QED
      BY <2>1, <3>3
  <2>3. ASSUME NEW e \in rows, e.id = f.id PROVE e.supersedes = f.supersedes
    <3>1. Node(e) \in AsDag(rows) /\ Node(f) \in AsDag(rows) /\ Node(e).hash = Node(f).hash
      BY <2>0, <2>2, <2>3
    <3>2. Node(e) = Node(f)
      BY <3>1 DEF IInv, LineagesAreChains, Lineage!ValidDag, Lineage!UniqueHashes
    <3> QED
      BY <2>0, <3>2
  <2>4. Leads(T \ {f.id}, y)
    <3>1. f.id \in Ids(rows)
      BY <2>2 DEF Ids
    <3>2. ASSUME NEW e \in rows, e.supersedes \in (T \ {f.id}) \cup {y} PROVE e.id \in T \ {f.id}
      <4>1. e.supersedes \in T
        BY <1>4, <3>2
      <4>2. e.id \in T
        BY <1>3, <3>2, <4>1 DEF Leads
      <4> QED
        BY <2>2, <2>3, <4>1, <4>2
    <3> QED
      BY <1>3, <3>1, <3>2 DEF Leads
  <2>5. T \ {f.id} \in SUBSET Requests
    BY <1>3
  <2> QED
    BY <2>2, <2>4, <2>5 DEF ToCome
<1> QED
  BY <1>1, <1>2, <1>4 DEF ToCome

\* What is committed meanwhile was to come.
LEMMA CommitIsToCome ==
  ASSUME IInv, NEW q \in Requests, Commit(q), NEW x
  PROVE  ToCome(x)' \subseteq ToCome(x)
<1>1. rows' = rows \cup {NewRow(q)} /\ NewRow(q).id = q
  BY CommitMovesOneRow DEF NewRow
<1>2. q \notin Ids(rows)
  BY CommittedRowIsNew
<1>3. ASSUME NEW part \in SUBSET Requests, Leads(part, x) PROVE Leads(part, x)'
  <2>1. Requests \ Ids(rows') \subseteq part /\ q \in part
    BY <1>1, <1>2, <1>3 DEF Leads, Ids
  <2> QED
    BY <1>1, <1>3, <2>1 DEF Leads
<1> QED
  BY <1>3 DEF ToCome

\* Of finitely many requests finitely many are to come, so that StepsLeft is a number.
LEMMA StepsLeftType ==
  ASSUME IsFiniteSet(Requests)
  PROVE  /\ \A r \in Requests : StepsLeft(r) \in 0..6 + Cardinality(Requests)
         /\ Cardinality(Requests) \in Nat
         /\ \A part \in SUBSET Requests : Cardinality(part) \in 0..Cardinality(Requests)
         /\ \A part \in SUBSET Requests : \A less \in SUBSET part :
                /\ Cardinality(less) <= Cardinality(part)
                /\ less # part => Cardinality(less) < Cardinality(part)
<1>1. Cardinality(Requests) \in Nat
  BY FS_CardinalityType
<1>2. \A part \in SUBSET Requests :
          IsFiniteSet(part) /\ Cardinality(part) \in 0..Cardinality(Requests)
  <2> SUFFICES ASSUME NEW part \in SUBSET Requests
               PROVE  IsFiniteSet(part) /\ Cardinality(part) \in 0..Cardinality(Requests)
    OBVIOUS
  <2>1. IsFiniteSet(part) /\ Cardinality(part) <= Cardinality(Requests)
    BY FS_Subset
  <2> QED
    BY <1>1, <2>1, FS_CardinalityType
<1>3. ASSUME NEW part \in SUBSET Requests, NEW less \in SUBSET part
      PROVE  /\ Cardinality(less) <= Cardinality(part)
             /\ less # part => Cardinality(less) < Cardinality(part)
  <2>1. /\ Cardinality(less) <= Cardinality(part)
        /\ Cardinality(part) = Cardinality(less) => part = less
    BY <1>2, FS_Subset
  <2>2. less \in SUBSET Requests
    OBVIOUS
  <2> QED
    BY <1>1, <1>2, <2>1, <2>2
<1>4. ASSUME NEW r \in Requests PROVE StepsLeft(r) \in 0..6 + Cardinality(Requests)
  <2>1. Cardinality(ToCome(cursor[r])) \in 0..Cardinality(Requests)
    BY <1>2, ToComeLeads
  <2> QED
    BY <1>1, <2>1 DEF StepsLeft
<1> QED
  BY <1>1, <1>2, <1>3, <1>4

\* The steps of r are ordered by where it is; a hop shrinks what is to come.
LEMMA OwnStepCounts ==
  ASSUME IInv, IsFiniteSet(Requests), NEW r \in Requests, Step(r) \/ Fail(r)
  PROVE  StepsLeft(r)' \in Nat /\ StepsLeft(r)' < StepsLeft(r)
<1> DEFINE n(x) == Cardinality(ToCome(x))
<1>t. pc \in [Requests -> PCs] /\ cursor \in [Requests -> Requests \cup {NoRow}]
  BY DEF IInv, TypeOK
<1>n. Cardinality(Requests) \in Nat /\ \A x : n(x) \in 0..Cardinality(Requests)
  BY StepsLeftType, ToComeLeads
<1>1. CASE BeginCorrect(r)
  <2>1. pc[r] = "idle" /\ pc'[r] = "walking" /\ rows' = rows
    BY <1>t, <1>1 DEF BeginCorrect, Goto
  <2>2. ToCome(cursor[r])' = ToCome(cursor'[r])
    BY <2>1 DEF ToCome, Leads
  <2> HIDE DEF n
  <2>3. n(cursor'[r]) \in 0..Cardinality(Requests)
    BY <1>n
  <2> QED
    BY <1>n, <2>1, <2>2, <2>3 DEF StepsLeft, n
<1>2. CASE Hop(r)
  <2>1. PICK row \in rows : row.supersedes = cursor[r] /\ cursor' = [cursor EXCEPT ![r] = row.id]
    BY <1>2 DEF Hop
  <2>2. pc[r] = "walking" /\ pc' = pc /\ rows' = rows /\ cursor'[r] = row.id
    BY <1>t, <1>2, <2>1 DEF Hop
  <2>3. ToCome(cursor[r])' = ToCome(row.id)
    BY <2>2 DEF ToCome, Leads
  <2>4. n(row.id) < n(cursor[r])
    BY <2>1, HopLeavesBehind, StepsLeftType, ToComeLeads
  <2> HIDE DEF n
  <2>5. StepsLeft(r)' = 5 + n(row.id) /\ StepsLeft(r) = 5 + n(cursor[r])
    BY <2>2, <2>3 DEF StepsLeft, n
  <2> QED
    BY <1>n, <2>4, <2>5
<1>3. CASE ~ BeginCorrect(r) /\ ~ Hop(r)
  <2>1. \/ pc[r] = "idle" /\ pc'[r] \in {"resolved", "refused"}
        \/ pc[r] = "walking" /\ pc'[r] \in {"resolved", "failed"}
        \/ pc[r] = "resolved" /\ pc'[r] \in {"admitted", "refused", "failed"}
        \/ pc[r] = "admitted" /\ pc'[r] \in {"inserted", "conflict", "failed"}
        \/ pc[r] = "inserted" /\ pc'[r] \in {"audited", "failed"}
        \/ pc[r] = "audited" /\ pc'[r] \in {"committed", "failed"}
    BY <1>t, <1>3 DEF Step, BeginRecord, Resolve, Refuse, Admit, Insert, Collide, StageAudit,
                      Commit, Fail, Goto, Open
  <2> HIDE DEF n
  <2>2. StepsLeft(r)' \in 0..4 /\ (pc'[r] = "admitted" => StepsLeft(r)' = 3)
        /\ (pc'[r] = "inserted" => StepsLeft(r)' = 2) /\ (pc'[r] = "audited" => StepsLeft(r)' = 1)
        /\ (pc'[r] \in {"refused", "conflict", "failed", "committed"} => StepsLeft(r)' = 0)
    BY <2>1 DEF StepsLeft
  <2>3. /\ pc[r] = "idle" => StepsLeft(r) >= 6
        /\ pc[r] = "walking" => StepsLeft(r) >= 5
        /\ pc[r] = "resolved" => StepsLeft(r) = 4
        /\ pc[r] = "admitted" => StepsLeft(r) = 3
        /\ pc[r] = "inserted" => StepsLeft(r) = 2
        /\ pc[r] = "audited" => StepsLeft(r) = 1
    BY <1>n DEF StepsLeft, n
  <2> QED
    BY <2>1, <2>2, <2>3, StepsLeftType
<1> QED
  BY <1>1, <1>2, <1>3

\* A step of q moves no other request, and what it may commit was to come.
LEMMA OtherStepsDoNot ==
  ASSUME IInv, IsFiniteSet(Requests), NEW r \in Requests, NEW q \in Requests \ {r},
         Step(q) \/ Fail(q)
  PROVE  StepsLeft(r)' <= StepsLeft(r)
<1>1. pc'[r] = pc[r] /\ cursor'[r] = cursor[r]
  BY DEF IInv, TypeOK, Step, BeginRecord, BeginCorrect, Hop, Resolve, Refuse, Admit, Insert,
         Collide, StageAudit, Commit, Fail, Goto
<1>2. rows' = rows \/ Commit(q)
  BY DEF Step, BeginRecord, BeginCorrect, Hop, Resolve, Refuse, Admit, Insert, Collide,
         StageAudit, Fail
<1> PICK x : x = cursor[r]
  OBVIOUS
<1>3. ToCome(x)' \in SUBSET ToCome(x)
  <2>1. CASE rows' = rows
    BY <2>1 DEF ToCome, Leads
  <2>2. CASE Commit(q)
    BY <2>2, CommitIsToCome
  <2> QED
    BY <1>2, <2>1, <2>2
<1>4. Cardinality(ToCome(x)') <= Cardinality(ToCome(x))
  BY <1>3, StepsLeftType, ToComeLeads
<1>5. StepsLeft(r) \in Nat
  BY StepsLeftType
<1>6. CASE pc[r] = "walking"
  <2>1. Cardinality(ToCome(cursor[r]))' = Cardinality(ToCome(x)')
    BY <1>1 DEF ToCome, Leads
  <2>2. /\ StepsLeft(r)' = 5 + Cardinality(ToCome(x)')
        /\ StepsLeft(r) = 5 + Cardinality(ToCome(x))
    BY <1>1, <1>6, <2>1 DEF StepsLeft
  <2>3. Cardinality(ToCome(x)') \in Nat /\ Cardinality(ToCome(x)) \in Nat
    BY <1>3, StepsLeftType, ToComeLeads
  <2> QED
    BY <1>4, <2>2, <2>3
<1>7. CASE pc[r] # "walking"
  <2>1. StepsLeft(r)' = StepsLeft(r)
    BY <1>1, <1>7 DEF StepsLeft
  <2> QED
    BY <1>5, <2>1
<1> QED
  BY <1>6, <1>7

\* A request takes at most as many steps as there are requests, and six: the walk of
\* correct_attribution() comes to an end although others commit meanwhile.
THEOREM RequestsAreBounded ==
  IsFiniteSet(Requests) =>
    (Spec => /\ [](\A r \in Requests : StepsLeft(r) \in 0..6 + Cardinality(Requests))
             /\ [][StepsCount]_vars)
<1> SUFFICES ASSUME IsFiniteSet(Requests)
             PROVE  Spec =>
                      /\ [](\A r \in Requests : StepsLeft(r) \in 0..6 + Cardinality(Requests))
                      /\ [][StepsCount]_vars
  OBVIOUS
<1>1. \A r \in Requests : StepsLeft(r) \in 0..6 + Cardinality(Requests)
  BY StepsLeftType
<1>2. IInv /\ [Next]_vars => [StepsCount]_vars
  <2> SUFFICES ASSUME IInv, Next PROVE StepsCount
    OBVIOUS
  <2>1. PICK q \in Requests : Step(q) \/ Fail(q)
    BY DEF Next
  <2> SUFFICES ASSUME NEW r \in Requests
               PROVE  /\ StepsLeft(r)' <= StepsLeft(r)
                      /\ Step(r) \/ Fail(r) => StepsLeft(r)' < StepsLeft(r)
    BY DEF StepsCount
  <2>2. Step(r) \/ Fail(r) => StepsLeft(r)' < StepsLeft(r)
    BY OwnStepCounts
  <2>3. CASE q = r
    <3>1. StepsLeft(r) \in Nat /\ StepsLeft(r)' \in Nat
      BY <1>1, <2>1, <2>3, OwnStepCounts
    <3> QED
      BY <2>1, <2>2, <2>3, <3>1
  <2>4. CASE q # r
    BY <2>1, <2>2, <2>4, OtherStepsDoNot
  <2> QED
    BY <2>3, <2>4
<1> QED
  BY <1>1, <1>2, Invariance, PTL DEF Spec

=============================================================================
