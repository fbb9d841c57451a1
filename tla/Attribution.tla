----------------------------- MODULE Attribution -----------------------------
(***************************************************************************)
(* The two attribution endpoints, record and correct, for concurrent       *)
(* requests on one table.                                                  *)
(*                                                                         *)
(* A correction walks from the row its client names to the active head,    *)
(* one SELECT a hop, each seeing what is committed at that moment.  The     *)
(* head may be superseded before the correction is inserted; the unique    *)
(* constraint on supersedes_id then decides.  An INSERT whose key another  *)
(* open transaction has inserted waits for that transaction to end.        *)
(* Row and audit row are flushed into one transaction, which commits        *)
(* before the answer leaves.                                               *)
(***************************************************************************)
CONSTANTS
    Requests,   \* requests; a request inserts at most one row, named after it
    NoRow       \* NULL: supersedes nothing

ASSUME NoRowAssumption == NoRow \notin Requests

VARIABLES
    rows,       \* committed rows of evidence_actor_attributions
    log,        \* committed audit rows: the attributions they name
    staged,     \* rows flushed by transactions still open
    stagedLog,  \* audit rows flushed by transactions still open
    pc,         \* where a request is
    cursor      \* the row the walk has reached; then the head to supersede

vars == <<rows, log, staged, stagedLog, pc, cursor>>

Row == [id : Requests, supersedes : Requests \cup {NoRow}]

Open == {"walking", "resolved", "admitted", "inserted", "audited"}
Refusals == {"refused", "conflict", "failed"}
PCs == {"idle", "committed"} \cup Open \cup Refusals

TypeOK ==
    /\ rows \in SUBSET Row
    /\ log \in SUBSET Requests
    /\ staged \in SUBSET Row
    /\ stagedLog \in SUBSET Requests
    /\ pc \in [Requests -> PCs]
    /\ cursor \in [Requests -> Requests \cup {NoRow}]

Ids(table) == {row.id : row \in table}

\* The unique constraint: key is superseded in table.  NULLs never collide.
Taken(key, table) == key # NoRow /\ \E row \in table : row.supersedes = key

Init ==
    /\ rows = {}
    /\ log = {}
    /\ staged = {}
    /\ stagedLog = {}
    /\ pc = [r \in Requests |-> "idle"]
    /\ cursor = [r \in Requests |-> NoRow]

Goto(r, label) == pc' = [pc EXCEPT ![r] = label]

-----------------------------------------------------------------------------
\* record_attribution(): a root of a new lineage, nothing to resolve.
BeginRecord(r) ==
    /\ pc[r] = "idle"
    /\ Goto(r, "resolved")
    /\ UNCHANGED <<rows, log, staged, stagedLog, cursor>>

\* correct_attribution(): the client names any row of a lineage.
BeginCorrect(r) ==
    /\ pc[r] = "idle"
    /\ \E named \in Ids(rows) : cursor' = [cursor EXCEPT ![r] = named]
    /\ Goto(r, "walking")
    /\ UNCHANGED <<rows, log, staged, stagedLog>>

\* get_successor() finds a row: the walk moves on.
Hop(r) ==
    /\ pc[r] = "walking"
    /\ \E row \in rows : /\ row.supersedes = cursor[r]
                         /\ cursor' = [cursor EXCEPT ![r] = row.id]
    /\ UNCHANGED <<rows, log, staged, stagedLog, pc>>

\* get_successor() finds none: this is the head, for now.
Resolve(r) ==
    /\ pc[r] = "walking"
    /\ ~Taken(cursor[r], rows)
    /\ Goto(r, "resolved")
    /\ UNCHANGED <<rows, log, staged, stagedLog, cursor>>

\* 400, 403 and 404: no tenant, no such row or evidence, no authority, a bad
\* actor.  The session commits, with nothing in it, and nothing is audited.
Refuse(r) ==
    /\ pc[r] \in {"idle", "resolved"}
    /\ Goto(r, "refused")
    /\ UNCHANGED <<rows, log, staged, stagedLog, cursor>>

\* Evidence found, caller authorized, actor and fields valid.
Admit(r) ==
    /\ pc[r] = "resolved"
    /\ Goto(r, "admitted")
    /\ UNCHANGED <<rows, log, staged, stagedLog, cursor>>

NewRow(r) == [id |-> r, supersedes |-> cursor[r]]

\* Mutant: no unique constraint; only committed rows are looked at.
InsertUnwaited(r) ==
    /\ pc[r] = "admitted"
    /\ ~Taken(cursor[r], rows)
    /\ staged' = staged \cup {NewRow(r)}
    /\ Goto(r, "inserted")
    /\ UNCHANGED <<rows, log, stagedLog, cursor>>

\* Mutant: the constraint dropped altogether.
InsertUnchecked(r) ==
    /\ pc[r] = "admitted"
    /\ staged' = staged \cup {NewRow(r)}
    /\ Goto(r, "inserted")
    /\ UNCHANGED <<rows, log, stagedLog, cursor>>

\* attributions.record() and its flush.
Insert(r) ==
    /\ pc[r] = "admitted"
    /\ ~Taken(cursor[r], staged)
    /\ ~Taken(cursor[r], rows)
    /\ staged' = staged \cup {NewRow(r)}
    /\ Goto(r, "inserted")
    /\ UNCHANGED <<rows, log, stagedLog, cursor>>

\* The flush raises the one IntegrityError the router translates: explicit
\* rollback, then 409, then the commit of a transaction with nothing in it.
Collide(r) ==
    /\ pc[r] = "admitted"
    /\ ~Taken(cursor[r], staged)
    /\ Taken(cursor[r], rows)
    /\ Goto(r, "conflict")
    /\ UNCHANGED <<rows, log, staged, stagedLog, cursor>>

\* Mutant: audit() in place of audit_staged(): durable at once.
StageAuditEager(r) ==
    /\ pc[r] = "inserted"
    /\ log' = log \cup {r}
    /\ Goto(r, "audited")
    /\ UNCHANGED <<rows, staged, stagedLog, cursor>>

\* audit_staged(): the audit row joins the request's own transaction.
StageAudit(r) ==
    /\ pc[r] = "inserted"
    /\ stagedLog' = stagedLog \cup {r}
    /\ Goto(r, "audited")
    /\ UNCHANGED <<rows, log, staged, cursor>>

Mine(r, table) == {row \in table : row.id = r}

\* Mutant: a transaction left open by a session that is never closed.
DiscardNothing(r) == UNCHANGED <<staged, stagedLog>>

\* What the end of a transaction leaves of the open ones.
Discard(r) ==
    /\ staged' = staged \ Mine(r, staged)
    /\ stagedLog' = stagedLog \ {r}

\* The function-scoped session commits; 201 follows.
Commit(r) ==
    /\ pc[r] = "audited"
    /\ rows' = rows \cup Mine(r, staged)
    /\ log' = log \cup (stagedLog \cap {r})
    /\ Discard(r)
    /\ Goto(r, "committed")
    /\ UNCHANGED cursor

\* Any other exception, a failed commit, the death of the process, or a walk
\* that exceeds _MAX_LINEAGE_WALK (in the service or in the trigger).
Fail(r) ==
    /\ pc[r] \in Open
    /\ Discard(r)
    /\ Goto(r, "failed")
    /\ UNCHANGED <<rows, log, cursor>>

Step(r) ==
    \/ BeginRecord(r)
    \/ BeginCorrect(r)
    \/ Hop(r)
    \/ Resolve(r)
    \/ Refuse(r)
    \/ Admit(r)
    \/ Insert(r)
    \/ Collide(r)
    \/ StageAudit(r)
    \/ Commit(r)

Next == \E r \in Requests : Step(r) \/ Fail(r)

Spec == Init /\ [][Next]_vars

\* The event loop resumes every coroutine whose database call has returned, and
\* PostgreSQL wakes an INSERT when the transaction it waits for has ended.
FairSpec == Spec /\ \A r \in Requests : WF_vars(Step(r))

-----------------------------------------------------------------------------
(***************************************************************************)
(* Why the lineages are chains: of the transactions that want to supersede *)
(* one row, at most one has a row in the table or on its way there, and it  *)
(* is there only while nobody has superseded that row before.              *)
(***************************************************************************)
AttributionInv ==
    /\ \A row \in rows : pc[row.id] = "committed"
    /\ log = Ids(rows)
    /\ \A row \in staged : /\ pc[row.id] \in {"inserted", "audited"}
                           /\ row = NewRow(row.id)
                           /\ ~Taken(row.supersedes, rows)
    /\ \A r \in Requests : pc[r] \in {"inserted", "audited"} => NewRow(r) \in staged
    /\ \A r \in Requests : r \in stagedLog <=> pc[r] = "audited"
    /\ \A r \in Requests : cursor[r] \in Ids(rows) \cup {NoRow}
    /\ \A e, f \in staged : e.supersedes = f.supersedes
                               => e = f \/ e.supersedes = NoRow

Lineage == INSTANCE HashDag WITH GENESIS_HASH <- NoRow
AsDag(table) == {[hash |-> row.id, prev_hash |-> row.supersedes] : row \in table}

\* "one linear correction history per attribution, never a fork": every row
\* leads back to a root, and no row is superseded twice.
LineagesAreChains ==
    /\ Lineage!ValidDag(AsDag(rows))
    /\ \A e, f \in rows : e.supersedes = f.supersedes
                             => e = f \/ e.supersedes = NoRow

\* A request that was refused, lost the race or failed leaves neither a row nor
\* an audit row, committed or pending, and 409 is answered only for a row that
\* another, durable correction has superseded.
RefusalsLeaveNothing ==
    \A r \in Requests : pc[r] \in Refusals =>
        /\ r \notin Ids(rows) \cup Ids(staged)
        /\ r \notin log \cup stagedLog
        /\ pc[r] = "conflict" => Taken(cursor[r], rows)

\* Walk, race, constraint and staged audit together implement the table in
\* which a correction finds and supersedes the active row in one step.
Ledger == INSTANCE AttributionLedger WITH table <- rows, audited <- log
ImplementsLedger == Ledger!Spec

\* No correction waits for ever on a rival's key or walks for ever.
EveryRequestEnds ==
    \A r \in Requests : <>(pc[r] \in {"committed"} \cup Refusals)
=============================================================================
