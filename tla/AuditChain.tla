----------------------------- MODULE AuditChain -----------------------------
(***************************************************************************)
(* The audit log of the backend and the Unit of Work around it.            *)
(*                                                                         *)
(* Every HTTP request owns one database session, hence one transaction     *)
(* (kernel/uow.py).  It writes its mutation into that transaction and then *)
(* records audit rows, in one of two ways:                                 *)
(*                                                                         *)
(*   eager   audit(): last_hash() and append() each run in a session of    *)
(*           their own, and append() commits at once.  The row is durable  *)
(*           whatever the request does next.                               *)
(*   staged  audit_staged(): last_hash() and the INSERT run in the         *)
(*           request's own session, and the row commits or rolls back with *)
(*           the mutation.                                                 *)
(*                                                                         *)
(* The two database calls of one audit call are two steps here: any other  *)
(* request may append between them, which is how the log forks.            *)
(*                                                                         *)
(* A staged request (the two attribution endpoints) has a function-scoped  *)
(* session, committed before the response is sent.  Every other request    *)
(* has FastAPI's default scope and commits after its success response.     *)
(***************************************************************************)
EXTENDS Naturals, HashDag

CONSTANTS
    Requests,    \* the requests of the run
    Times,       \* readings of the application's clock
    MaxAudits    \* bound: audit calls one request makes

ASSUME TimesAssumption == Times \subseteq Nat
ASSUME MaxAuditsAssumption == MaxAudits \in Nat
\* SHA-256 never yields 64 zeros here: the genesis hash is no row's hash.
ASSUME GenesisAssumption == GENESIS_HASH \notin Requests \X Nat

VARIABLES
    auditLog,    \* committed rows of the audit_log table
    staged,      \* rows a request has flushed and not yet committed
    pc,          \* where a request is
    mode,        \* how a request audits its success: "eager" or "staged"
    wrote,       \* the request has flushed its mutation
    audited,     \* the success audit of that mutation has been recorded
    prev,        \* predecessor read by the audit call in progress
    count,       \* audit rows the request has written: names the next one
    mutations,   \* requests whose mutation is committed
    acked        \* requests whose client has received a success response

vars == <<auditLog, staged, pc, mode, wrote, audited, prev, count, mutations,
          acked>>

-----------------------------------------------------------------------------
(***************************************************************************)
(* A row's hash covers its uuid4 entry_id and all its content, so distinct *)
(* rows have distinct hashes: the n-th row a request builds has the hash   *)
(* <<request, n>>.                                                         *)
(***************************************************************************)
Hash == Requests \X Nat

Row == [hash : Hash, prev_hash : Hash \cup {GENESIS_HASH}, created_at : Times,
        decision : {"PERMIT", "DENY"}]

PCs == {"idle", "open", "building", "responded", "committed", "rejected",
        "failed"}

\* Mutant: the sessions read what others have not committed.
DirtyVisible(r) == auditLog \cup UNION {staged[s] : s \in Requests}

\* What a SELECT of the request's own session returns under READ COMMITTED:
\* the committed rows and the session's own flushed ones.
Visible(r) == auditLog \cup staged[r]

\* What last_hash() may return: ORDER BY created_at DESC LIMIT 1, or the
\* genesis hash when the table is empty.  Rows with one timestamp tie, and the
\* database picks any of them.
LastHash(rows) ==
    IF rows = {}
    THEN {GENESIS_HASH}
    ELSE {e.hash : e \in {f \in rows :
                            \A g \in rows : g.created_at <= f.created_at}}

\* The store an audit call reads: the eager store opens a session of its own,
\* the staged call reads through the request's.
Store(r) == IF mode[r] = "staged" THEN Visible(r) ELSE auditLog

TypeOK ==
    /\ auditLog \in SUBSET Row
    /\ staged \in [Requests -> SUBSET Row]
    /\ pc \in [Requests -> PCs]
    /\ mode \in [Requests -> {"eager", "staged"}]
    /\ wrote \in [Requests -> BOOLEAN]
    /\ audited \in [Requests -> BOOLEAN]
    /\ prev \in [Requests -> Hash \cup {GENESIS_HASH}]
    /\ count \in [Requests -> Nat]
    /\ mutations \in SUBSET Requests
    /\ acked \in SUBSET Requests

Init ==
    /\ auditLog = {}
    /\ staged = [r \in Requests |-> {}]
    /\ pc = [r \in Requests |-> "idle"]
    /\ mode \in [Requests -> {"eager", "staged"}]
    /\ wrote = [r \in Requests |-> FALSE]
    /\ audited = [r \in Requests |-> FALSE]
    /\ prev = [r \in Requests |-> GENESIS_HASH]
    /\ count = [r \in Requests |-> 0]
    /\ mutations = {}
    /\ acked = {}

-----------------------------------------------------------------------------
\* get_db_session() opens the session; set_config() begins its transaction.
Begin(r) ==
    /\ pc[r] = "idle"
    /\ pc' = [pc EXCEPT ![r] = "open"]
    /\ UNCHANGED <<auditLog, staged, mode, wrote, audited, prev, count,
                   mutations, acked>>

\* A repository flushes the request's mutation into its transaction.
Mutate(r) ==
    /\ pc[r] = "open"
    /\ ~wrote[r]
    /\ wrote' = [wrote EXCEPT ![r] = TRUE]
    /\ UNCHANGED <<auditLog, staged, pc, mode, audited, prev, count, mutations,
                   acked>>

\* _build_entry(): last_hash() is read, and only later is the row written.
\* A denial is audited without a mutation, always eagerly.
ReadLastHash(r) ==
    /\ pc[r] = "open"
    /\ mode[r] = "staged" => wrote[r]
    /\ count[r] < MaxAudits
    /\ \E h \in LastHash(Store(r)) : prev' = [prev EXCEPT ![r] = h]
    /\ pc' = [pc EXCEPT ![r] = "building"]
    /\ UNCHANGED <<auditLog, staged, mode, wrote, audited, count, mutations,
                   acked>>

\* The row built from the predecessor read before; created_at is the
\* application's clock after that read, which is not the database's and need
\* not be monotonic across processes.  "PERMIT" stands for a row that records
\* the request's mutation (the revocation that answers a replayed refresh token
\* is one, whatever its label), "DENY" for one that does not.
NewRow(r, t) == [hash |-> <<r, count[r] + 1>>, prev_hash |-> prev[r],
                 created_at |-> t,
                 decision |-> IF wrote[r] THEN "PERMIT" ELSE "DENY"]

\* EagerPostgresAuditStore.append(): INSERT and COMMIT in its own session.
AppendEager(r) ==
    /\ pc[r] = "building"
    /\ mode[r] = "eager"
    /\ \E t \in Times : auditLog' = auditLog \cup {NewRow(r, t)}
    /\ audited' = [audited EXCEPT ![r] = wrote[r]]
    /\ count' = [count EXCEPT ![r] = @ + 1]
    /\ pc' = [pc EXCEPT ![r] = "open"]
    /\ UNCHANGED <<staged, mode, wrote, prev, mutations, acked>>

\* Mutant: append() in place of append_staged().
AppendStagedAtOnce(r) ==
    /\ pc[r] = "building"
    /\ mode[r] = "staged"
    /\ \E t \in Times : auditLog' = auditLog \cup {NewRow(r, t)}
    /\ audited' = [audited EXCEPT ![r] = wrote[r]]
    /\ count' = [count EXCEPT ![r] = @ + 1]
    /\ pc' = [pc EXCEPT ![r] = "open"]
    /\ UNCHANGED <<staged, mode, wrote, prev, mutations, acked>>

\* PostgresAuditStore.append_staged(): add() and flush(), never commit().
AppendStaged(r) ==
    /\ pc[r] = "building"
    /\ mode[r] = "staged"
    /\ \E t \in Times :
          staged' = [staged EXCEPT ![r] = @ \cup {NewRow(r, t)}]
    /\ audited' = [audited EXCEPT ![r] = wrote[r]]
    /\ count' = [count EXCEPT ![r] = @ + 1]
    /\ pc' = [pc EXCEPT ![r] = "open"]
    /\ UNCHANGED <<auditLog, mode, wrote, prev, mutations, acked>>

\* Mutant: a handler that returns without auditing what it wrote.
RespondUnaudited(r) ==
    /\ pc[r] = "open"
    /\ mode[r] = "eager"
    /\ pc' = [pc EXCEPT ![r] = "responded"]
    /\ acked' = acked \cup {r}
    /\ UNCHANGED <<auditLog, staged, mode, wrote, audited, prev, count,
                   mutations>>

\* The handler of a request-scoped session returns: the response goes out
\* first, the dependency's commit follows.
RespondEager(r) ==
    /\ pc[r] = "open"
    /\ mode[r] = "eager"
    /\ wrote[r] => audited[r]
    /\ pc' = [pc EXCEPT ![r] = "responded"]
    /\ acked' = acked \cup {r}
    /\ UNCHANGED <<auditLog, staged, mode, wrote, audited, prev, count,
                   mutations>>

\* session.commit(): what the transaction holds becomes visible at once.
CommitTxn(r) ==
    /\ auditLog' = auditLog \cup staged[r]
    /\ staged' = [staged EXCEPT ![r] = {}]
    /\ mutations' = IF wrote[r] THEN mutations \cup {r} ELSE mutations

\* get_db_session() after a plain return: a request-scoped session commits
\* after the response, a function-scoped one before it.
CommitEager(r) ==
    /\ pc[r] = "responded"
    /\ CommitTxn(r)
    /\ pc' = [pc EXCEPT ![r] = "committed"]
    /\ UNCHANGED <<mode, wrote, audited, prev, count, acked>>

CommitStaged(r) ==
    /\ pc[r] = "open"
    /\ mode[r] = "staged"
    /\ wrote[r] => audited[r]
    /\ CommitTxn(r)
    /\ pc' = [pc EXCEPT ![r] = "committed"]
    /\ UNCHANGED <<mode, wrote, audited, prev, count, acked>>

\* Mutant: the attribution endpoint on a request-scoped session.
RespondBeforeCommit(r) ==
    /\ pc[r] \in {"open", "committed"}
    /\ mode[r] = "staged"
    /\ r \notin acked
    /\ acked' = acked \cup {r}
    /\ UNCHANGED <<auditLog, staged, pc, mode, wrote, audited, prev, count,
                   mutations>>

\* A function-scoped session is committed by the time the response is sent.
RespondStaged(r) ==
    /\ pc[r] = "committed"
    /\ mode[r] = "staged"
    /\ r \notin acked
    /\ acked' = acked \cup {r}
    /\ UNCHANGED <<auditLog, staged, pc, mode, wrote, audited, prev, count,
                   mutations>>

\* The handler raises HTTPException: the transaction is committed, then the
\* error is answered.  The services raise one before they write, or after they
\* have written and audited (the revocation of a replayed refresh token); the
\* requests that do otherwise are those of RevokeAndReject.
Reject(r) ==
    /\ pc[r] = "open"
    /\ wrote[r] => audited[r]
    /\ CommitTxn(r)
    /\ pc' = [pc EXCEPT ![r] = "rejected"]
    /\ UNCHANGED <<mode, wrote, audited, prev, count, acked>>

\* Any other exception, a failed COMMIT, a lost connection or the death of the
\* process, before the transaction is committed: it is rolled back.  So is the
\* correction that meets an integrity error, by its router.
Fail(r) ==
    /\ pc[r] \in {"open", "building", "responded"}
    /\ staged' = [staged EXCEPT ![r] = {}]
    /\ pc' = [pc EXCEPT ![r] = "failed"]
    /\ UNCHANGED <<auditLog, mode, wrote, audited, prev, count, mutations,
                   acked>>

Next ==
    \E r \in Requests :
        \/ Begin(r)
        \/ Mutate(r)
        \/ ReadLastHash(r)
        \/ AppendEager(r)
        \/ AppendStaged(r)
        \/ RespondEager(r)
        \/ CommitEager(r)
        \/ CommitStaged(r)
        \/ RespondStaged(r)
        \/ Reject(r)
        \/ Fail(r)

Spec == Init /\ [][Next]_vars

\* AuthService.refresh() on a session that has expired, whose user may no longer
\* authenticate, or which the identity provider refuses: the session is revoked
\* and HTTPException raised, and no audit call stands between the two.
RevokeAndReject(r) ==
    /\ pc[r] = "open"
    /\ mode[r] = "eager"
    /\ wrote[r]
    /\ ~audited[r]
    /\ CommitTxn(r)
    /\ pc' = [pc EXCEPT ![r] = "rejected"]
    /\ UNCHANGED <<mode, wrote, audited, prev, count, acked>>

\* The requests of Spec together with those refreshes.
RefreshNext == Next \/ \E r \in Requests : RevokeAndReject(r)

RefreshSpec == Init /\ [][RefreshNext]_vars

-----------------------------------------------------------------------------
(***************************************************************************)
(* Why the log stays a DAG.  A row is named after its request and numbered *)
(* within it, so nothing else can carry its hash; the predecessor an audit *)
(* call holds is never taken from a transaction that may still roll back,  *)
(* unless it is the call's own; and the log is valid not only as committed *)
(* but as every open transaction sees it.                                  *)
(***************************************************************************)
Named(r, rows) ==
    \A e \in rows : e.hash[1] = r => e.hash[2] <= count[r]

ChainInv ==
    /\ \A r, s \in Requests : Named(s, Visible(r))
    /\ \A r \in Requests : \A e \in staged[r] : e.hash[1] = r
    /\ \A r \in Requests :
          pc[r] = "building" =>
             prev[r] \in Hashes(Store(r)) \cup {GENESIS_HASH}
    /\ ValidDag(auditLog)
    /\ \A r \in Requests : ValidDag(Visible(r))

\* The durable audit rows of the request's successful mutation.
PermitsOf(r) == {e \in auditLog : e.hash[1] = r /\ e.decision = "PERMIT"}

(***************************************************************************)
(* Why the log and the data agree.  The success row exists before the      *)
(* transaction may commit: in the log already if it was eager, in the      *)
(* transaction itself if it was staged, and then only together with the    *)
(* mutation.                                                               *)
(***************************************************************************)
DurableFor(r) ==
    /\ pc[r] = "idle" => ~audited[r]
    /\ r \in mutations => PermitsOf(r) # {}
    /\ audited[r] /\ mode[r] = "eager" => PermitsOf(r) # {}
    /\ audited[r] /\ mode[r] = "staged" /\ pc[r] \in {"open", "building"}
          => \E e \in staged[r] : e.hash[1] = r /\ e.decision = "PERMIT"
    /\ mode[r] = "staged" /\ r \notin mutations => PermitsOf(r) = {}
    /\ staged[r] # {} => mode[r] = "staged" /\ wrote[r]
    /\ mode[r] = "staged" /\ pc[r] = "building" => wrote[r]
    /\ pc[r] = "responded" => mode[r] = "eager" /\ (wrote[r] => audited[r])
    /\ pc[r] = "committed" /\ wrote[r] => r \in mutations
    /\ mode[r] = "staged" /\ r \in acked => pc[r] = "committed"

DurabilityInv == \A r \in Requests : DurableFor(r)

\* verify_chain() answers True at every instant: whatever requests interleave,
\* roll back or crash between reading last_hash() and appending, and however
\* the clock orders the rows, the committed log is a DAG rooted at genesis.
ChainValid == ValidDag(auditLog)

\* audit() and audit_staged() run before the request's commit, and a failing
\* audit fails the request: no mutation is ever durable without a durable row
\* of the same request.  The refreshes of RefreshSpec break it.
EveryMutationAudited ==
    \A r \in mutations : PermitsOf(r) # {}

\* The promise of audit_staged(): the mutation and its audit row are durable
\* together or not at all, so a staged row in the log is never a phantom.
StagedIsAtomic ==
    \A r \in Requests :
        mode[r] = "staged" =>
            (r \in mutations <=> PermitsOf(r) # {})

\* The promise of the function-scoped session (GD-013): a client told that its
\* attribution was recorded is never told so of a mutation that is not durable.
AckedStagedIsDurable ==
    \A r \in acked : mode[r] = "staged" /\ wrote[r] => r \in mutations

\* An eager row outlives its request: a rollback, which is what an unexpected
\* exception causes, takes no row out of the log, and no row changes.
EntriesSurviveRollback == [][auditLog \subseteq auditLog']_vars
=============================================================================
