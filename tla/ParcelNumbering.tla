--------------------------- MODULE ParcelNumbering ---------------------------
(***************************************************************************)
(* create_parcel() of the Registry, up to the commit of its transaction,   *)
(* for concurrent requests.                                                *)
(*                                                                         *)
(* The number comes from INSERT ... ON CONFLICT DO UPDATE ... RETURNING on  *)
(* the country's counter row.  That statement locks the row until the      *)
(* request's transaction ends, whichever tenant the request belongs to;    *)
(* a second statement on the same row waits and then sees the value left   *)
(* by the first transaction: incremented if it committed, untouched if it  *)
(* rolled back.  Audit rows are eager: durable before the commit.          *)
(*                                                                         *)
(* A request holds one connection of the engine's pool from its first      *)
(* statement to its end, while it waits for the counter row too, and its   *)
(* audit row needs a second one: with as many requests as connections,     *)
(* everybody waits for everybody, until the pool's time-out.               *)
(***************************************************************************)
EXTENDS Naturals, FiniteSets

CONSTANTS
    Countries,   \* country codes: one counter row each
    Creations,   \* create_parcel requests, each creating at most one parcel
    PoolSize,    \* connections the engine's pool may open
    NoRequest    \* "nobody holds the lock"

ASSUME NoRequestAssumption == NoRequest \notin Creations

VARIABLES
    phase,       \* where a request is
    country,     \* its resolved country code
    drawn,       \* the number its transaction has drawn (0: none)
    counter,     \* last_allocated, as committed (0: no counter row yet)
    lock,        \* the request whose transaction locks the counter row
    parcels,     \* committed rows of the parcels table
    announced    \* the parcel and number each "parcel.created" audit row names

numberingVars == <<phase, country, drawn, counter, lock, parcels, announced>>

Phases == {"idle", "begun", "allocated", "inserted", "auditing", "audited",
        "responded", "committed", "failed"}

NumberedParcel == [request : Creations, country : Countries, number : Nat]

NumberingTypeOK ==
    /\ phase \in [Creations -> Phases]
    /\ country \in [Creations -> Countries]
    /\ drawn \in [Creations -> Nat]
    /\ counter \in [Countries -> Nat]
    /\ lock \in [Countries -> Creations \cup {NoRequest}]
    /\ parcels \in SUBSET NumberedParcel
    /\ announced \in SUBSET NumberedParcel

NumberingInit ==
    /\ phase = [r \in Creations |-> "idle"]
    /\ country \in [Creations -> Countries]
    /\ drawn = [r \in Creations |-> 0]
    /\ counter = [c \in Countries |-> 0]
    /\ lock = [c \in Countries |-> NoRequest]
    /\ parcels = {}
    /\ announced = {}

-----------------------------------------------------------------------------
\* The sessions of the requests, and those of their audit calls.
InUse ==
    Cardinality({r \in Creations : phase[r] \notin {"idle", "committed", "failed"}})
       + Cardinality({r \in Creations : phase[r] = "auditing"})

FreeConnection == InUse < PoolSize

\* get_db_session(): the first statement takes a connection.
BeginCreation(r) ==
    /\ phase[r] = "idle"
    /\ FreeConnection
    /\ phase' = [phase EXCEPT ![r] = "begun"]
    /\ UNCHANGED <<country, drawn, counter, lock, parcels, announced>>

\* Mutant: SELECT and a later UPDATE in place of one locking statement.
AllocateUnlocked(r) ==
    /\ phase[r] = "begun"
    /\ lock' = [lock EXCEPT ![country[r]] = r]
    /\ drawn' = [drawn EXCEPT ![r] = counter[country[r]] + 1]
    /\ phase' = [phase EXCEPT ![r] = "allocated"]
    /\ UNCHANGED <<country, counter, parcels, announced>>

\* Mutant: nextval() of a SEQUENCE, which no rollback takes back.
AllocateSequence(r) ==
    /\ phase[r] = "begun"
    /\ counter' = [counter EXCEPT ![country[r]] = @ + 1]
    /\ drawn' = [drawn EXCEPT ![r] = counter[country[r]] + 1]
    /\ phase' = [phase EXCEPT ![r] = "allocated"]
    /\ UNCHANGED <<country, lock, parcels, announced>>

\* allocate(): enabled once the counter row is free.
Allocate(r) ==
    /\ phase[r] = "begun"
    /\ lock[country[r]] = NoRequest
    /\ lock' = [lock EXCEPT ![country[r]] = r]
    /\ drawn' = [drawn EXCEPT ![r] = counter[country[r]] + 1]
    /\ phase' = [phase EXCEPT ![r] = "allocated"]
    /\ UNCHANGED <<country, counter, parcels, announced>>

\* parcels.add() and the history rows: flushed into the same transaction.
Insert(r) ==
    /\ phase[r] = "allocated"
    /\ phase' = [phase EXCEPT ![r] = "inserted"]
    /\ UNCHANGED <<country, drawn, counter, lock, parcels, announced>>

\* The row request r is about to make durable.
NewParcel(r) == [request |-> r, country |-> country[r], number |-> drawn[r]]

\* The session of the eager store, on a second connection.
OpenAudit(r) ==
    /\ phase[r] = "inserted"
    /\ FreeConnection
    /\ phase' = [phase EXCEPT ![r] = "auditing"]
    /\ UNCHANGED <<country, drawn, counter, lock, parcels, announced>>

\* The eager audit row is durable at once, with the number in its payload, and
\* its connection goes back to the pool.
Audit(r) ==
    /\ phase[r] = "auditing"
    /\ announced' = announced \cup {NewParcel(r)}
    /\ phase' = [phase EXCEPT ![r] = "audited"]
    /\ UNCHANGED <<country, drawn, counter, lock, parcels>>

\* Mutant: the audit call is left out.
RespondUnannounced(r) ==
    /\ phase[r] \in {"inserted", "audited"}
    /\ phase' = [phase EXCEPT ![r] = "responded"]
    /\ UNCHANGED <<country, drawn, counter, lock, parcels, announced>>

\* The handler returns: 201 with the number leaves before the commit.
RespondCreation(r) ==
    /\ phase[r] = "audited"
    /\ phase' = [phase EXCEPT ![r] = "responded"]
    /\ UNCHANGED <<country, drawn, counter, lock, parcels, announced>>

\* The end of a transaction releases the counter row to whoever waits for it.
ReleaseCounter(r) ==
    lock' = IF lock[country[r]] = r
            THEN [lock EXCEPT ![country[r]] = NoRequest] ELSE lock

\* session.commit(): counter and parcel become durable together.
CommitCreation(r) ==
    /\ phase[r] = "responded"
    /\ counter' = [counter EXCEPT ![country[r]] = drawn[r]]
    /\ parcels' = parcels \cup {NewParcel(r)}
    /\ ReleaseCounter(r)
    /\ phase' = [phase EXCEPT ![r] = "committed"]
    /\ UNCHANGED <<country, drawn, announced>>

\* The end of a transaction that is not committed: the increment is undone with
\* everything else.
Undo(r) ==
    /\ ReleaseCounter(r)
    /\ drawn' = [drawn EXCEPT ![r] = 0]
    /\ phase' = [phase EXCEPT ![r] = "failed"]
    /\ UNCHANGED <<country, counter, parcels, announced>>

\* A refusal of the input, an exception, a failed commit or the death of the
\* process, wherever the request is.
Rollback(r) == phase[r] \notin {"idle", "committed", "failed"} /\ Undo(r)

\* Mutant: an engine whose pool waits for ever.
NoTimeout(r) == FALSE /\ Undo(r)

\* The pool gives up on a request that finds no connection for its own session
\* or for that of its audit call, and its exception ends the request.
PoolTimeout(r) ==
    /\ phase[r] \in {"idle", "inserted"}
    /\ ~FreeConnection
    /\ Undo(r)

Step(r) ==
    \/ BeginCreation(r) \/ Allocate(r) \/ Insert(r) \/ OpenAudit(r) \/ Audit(r)
    \/ RespondCreation(r) \/ CommitCreation(r)

NumberingNext == \E r \in Creations : Step(r) \/ Rollback(r) \/ PoolTimeout(r)

NumberingSpec == NumberingInit /\ [][NumberingNext]_numberingVars

\* The event loop runs every request that can proceed, and PostgreSQL grants a
\* free row lock to a waiter.  The pool's timer runs out.  Other failures are
\* possible, never promised.
NumberingFairSpec ==
    /\ NumberingSpec
    /\ \A r \in Creations :
          WF_numberingVars(Step(r)) /\ WF_numberingVars(PoolTimeout(r))

-----------------------------------------------------------------------------
(***************************************************************************)
(* Why the numbers are right: the holder of a counter row is the only      *)
(* transaction with a number drawn from it, and that number is the next.   *)
(* What it goes on to commit is what its audit row has announced.          *)
(***************************************************************************)
InTransaction(r) ==
    phase[r] \in {"allocated", "inserted", "auditing", "audited", "responded"}

NumbersOf(c) == {row.number : row \in {p \in parcels : p.country = c}}

NumberingInv ==
    /\ \A c \in Countries : NumbersOf(c) = 1..counter[c]
    /\ \A r \in Creations :
          InTransaction(r) =>
             /\ lock[country[r]] = r
             /\ drawn[r] = counter[country[r]] + 1
    /\ \A r \in Creations :
          phase[r] \in {"audited", "responded"} => NewParcel(r) \in announced
    /\ parcels \subseteq announced

\* A number identifies one parcel of its country (the index
\* ix_parcels_number_unique never fires), whatever rolls back in between.
NumbersUnique ==
    \A p, q \in parcels :
        p.country = q.country /\ p.number = q.number => p = q

\* No parcel is ever in the registry without an audit row that names it with
\* the number it has.
ParcelsAnnounced == parcels \subseteq announced

\* "no duplicate, no gap, no wasted number": the locked counter, with every
\* rollback and every interleaving of transactions, implements the ledger that
\* issues 1, 2, 3, ... in one step each.
Ledger == INSTANCE NumberLedger WITH register <- parcels
ImplementsLedger == Ledger!Spec

\* No request waits for ever on a counter row or on the pool, not even when the
\* one that holds the row waits for a connection and those that hold the
\* connections wait for the row.
EveryRequestEnds ==
    \A r \in Creations : <>(phase[r] \in {"committed", "failed"})
=============================================================================
