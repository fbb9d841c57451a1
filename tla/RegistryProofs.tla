---------------------------- MODULE RegistryProofs ----------------------------
(***************************************************************************)
(* Proofs about the Registry: ParcelNumbering and ParcelLifecycle.          *)
(*                                                                         *)
(* For any number of countries and creations and any pool: the numbering    *)
(* invariant, the uniqueness of numbers, the refinement of the atomic       *)
(* ledger, and that no creations wait for each other for ever.              *)
(*                                                                         *)
(* However many mutations of a parcel overlap: a mutation and its history   *)
(* row stand or fall together, every audit_ref resolves, an archived parcel *)
(* is recorded as such, and the history rows form trees with one root.      *)
(* When they follow each other: an archived parcel is frozen, an update     *)
(* changes what it was sent, no history row is superseded twice and the     *)
(* latest one asserts the holder.                                           *)
(***************************************************************************)
EXTENDS ParcelNumbering, ParcelLifecycle, TLAPS

(***************************************************************************)
(* Numbering.                                                              *)
(***************************************************************************)
\* What is shown inductive.
NumberingIInv == NumberingTypeOK /\ NumberingInv /\ NumbersUnique

\* No number is drawn and no request has begun.
LEMMA InitNumbering == NumberingInit => NumberingIInv
<1>1. NumberingInit => NumberingTypeOK
  BY DEF NumberingInit, NumberingTypeOK, Phases
<1>2. NumberingInit => NumberingInv
  <2> SUFFICES ASSUME NumberingInit PROVE NumberingInv
    OBVIOUS
  <2>1. \A c \in Countries : NumbersOf(c) = {} /\ counter[c] = 0
    BY DEF NumberingInit, NumbersOf
  <2>2. 1..0 = {}
    OBVIOUS
  <2>3. \A r \in Creations : phase[r] = "idle"
    BY DEF NumberingInit
  <2> QED
    BY <2>1, <2>2, <2>3 DEF NumberingInit, NumberingInv, InTransaction
<1>3. NumberingInit => NumbersUnique
  BY DEF NumberingInit, NumbersUnique
<1> QED
  BY <1>1, <1>2, <1>3 DEF NumberingIInv

\* Every step keeps the types.
LEMMA NumberingTypeStep ==
  NumberingTypeOK /\ [NumberingNext]_numberingVars => NumberingTypeOK'
<1> SUFFICES ASSUME NumberingTypeOK, [NumberingNext]_numberingVars
             PROVE  NumberingTypeOK'
  OBVIOUS
<1> USE DEF NumberingTypeOK, Phases
<1>1. ASSUME NEW r \in Creations, Allocate(r) PROVE NumberingTypeOK'
  <2>1. counter[country[r]] + 1 \in Nat
    OBVIOUS
  <2> QED
    BY <1>1, <2>1 DEF Allocate
<1>2. ASSUME NEW r \in Creations, Insert(r) PROVE NumberingTypeOK'
  BY <1>2 DEF Insert
<1>3. ASSUME NEW r \in Creations, Audit(r) PROVE NumberingTypeOK'
  BY <1>3 DEF Audit, NewParcel, NumberedParcel
<1>4. ASSUME NEW r \in Creations, RespondCreation(r) PROVE NumberingTypeOK'
  BY <1>4 DEF RespondCreation
<1>5. ASSUME NEW r \in Creations, CommitCreation(r) PROVE NumberingTypeOK'
  BY <1>5 DEF CommitCreation, ReleaseCounter, NewParcel, NumberedParcel
<1>6. ASSUME NEW r \in Creations, Undo(r) PROVE NumberingTypeOK'
  BY <1>6 DEF Undo, ReleaseCounter
<1>7. ASSUME NEW r \in Creations, BeginCreation(r) \/ OpenAudit(r) PROVE NumberingTypeOK'
  BY <1>7 DEF BeginCreation, OpenAudit
<1>8. CASE UNCHANGED numberingVars
  BY <1>8 DEF numberingVars
<1> QED
  BY <1>1, <1>2, <1>3, <1>4, <1>5, <1>6, <1>7, <1>8
     DEF NumberingNext, Step, Rollback, PoolTimeout

\* Only the transaction that holds a counter row has a number drawn from it.
LEMMA OneHolder ==
  ASSUME NumberingTypeOK, NumberingInv, NEW r \in Creations, NEW s \in Creations,
         InTransaction(r), InTransaction(s), country[r] = country[s]
  PROVE  r = s
BY DEF NumberingInv

\* The numbers of a set of rows, with one row more.
LEMMA NumbersOfOneMore ==
  ASSUME NEW rows, NEW p
  PROVE  {row.number : row \in rows \cup {p}}
            = {row.number : row \in rows} \cup {p.number}
OBVIOUS

\* What a commit does to the numbers of a country: its own gains the next one.
LEMMA CommitExtends ==
  ASSUME NumberingIInv, NEW r \in Creations, CommitCreation(r), NEW c \in Countries
  PROVE  /\ c = country[r] => /\ NumbersOf(c)' = 1..counter'[c]
                              /\ counter'[c] = counter[c] + 1
         /\ c # country[r] => /\ NumbersOf(c)' = NumbersOf(c)
                              /\ counter'[c] = counter[c]
<1> USE DEF NumberingIInv, NumberingTypeOK
<1>1. /\ InTransaction(r)
      /\ drawn[r] = counter[country[r]] + 1
  BY DEF CommitCreation, InTransaction, NumberingInv
<1>2. parcels' = parcels \cup {NewParcel(r)}
  BY DEF CommitCreation
<1>3. CASE c = country[r]
  <2>1. counter'[c] = counter[c] + 1
    BY <1>1, <1>3 DEF CommitCreation
  <2>2. NumbersOf(c)' = NumbersOf(c) \cup {drawn[r]}
    <3> DEFINE old == {p \in parcels : p.country = c}
    <3>1. /\ NewParcel(r).country = c
          /\ NewParcel(r).number = drawn[r]
      BY <1>3 DEF NewParcel
    <3>2. /\ NumbersOf(c) = {row.number : row \in old}
          /\ NumbersOf(c)' = {row.number : row \in
                {p \in parcels \cup {NewParcel(r)} : p.country = c}}
      BY <1>2 DEF NumbersOf
    <3>3. {p \in parcels \cup {NewParcel(r)} : p.country = c}
             = old \cup {NewParcel(r)}
      BY <3>1, Zenon
    <3>4. {row.number : row \in old \cup {NewParcel(r)}}
             = {row.number : row \in old} \cup {NewParcel(r).number}
      <4> HIDE DEF old
      <4> QED
        BY NumbersOfOneMore
    <3> HIDE DEF old
    <3> QED
      BY <3>1, <3>2, <3>3, <3>4, Zenon
  <2>3. NumbersOf(c) = 1..counter[c]
    BY DEF NumberingInv
  <2>4. counter[c] \in Nat
    OBVIOUS
  <2>5. NumbersOf(c)' = 1..counter'[c]
    BY <1>1, <1>3, <2>1, <2>2, <2>3, <2>4
  <2> QED
    BY <1>3, <2>1, <2>5
<1>4. CASE c # country[r]
  <2>1. counter'[c] = counter[c]
    BY <1>4 DEF CommitCreation
  <2>2. NumbersOf(c)' = NumbersOf(c)
    BY <1>2, <1>4 DEF NumbersOf, NewParcel
  <2> QED
    BY <1>4, <2>1, <2>2
<1> QED
  BY <1>3, <1>4

\* The number a commit gives is on no parcel of the country yet.
LEMMA CommittedNumberIsNew ==
  ASSUME NumberingIInv, NEW r \in Creations, CommitCreation(r), NEW p \in parcels,
         p.country = country[r]
  PROVE  p.number # drawn[r]
<1> USE DEF NumberingIInv, NumberingTypeOK
<1>1. drawn[r] = counter[country[r]] + 1
  BY DEF CommitCreation, InTransaction, NumberingInv
<1>2. p.number \in NumbersOf(country[r])
  BY DEF NumbersOf
<1>3. p.number \in 1..counter[country[r]]
  BY <1>2 DEF NumberingInv
<1>4. counter[country[r]] \in Nat
  OBVIOUS
<1> QED
  BY <1>1, <1>3, <1>4

\* Every step keeps what ties numbers, counter and transactions together.
LEMMA NumberingStep == NumberingIInv /\ [NumberingNext]_numberingVars => NumberingInv'
<1> SUFFICES ASSUME NumberingIInv, [NumberingNext]_numberingVars PROVE NumberingInv'
  OBVIOUS
<1> USE DEF NumberingIInv, NumberingTypeOK, Phases
<1>0. ASSUME UNCHANGED <<parcels, counter>>
      PROVE  \A c \in Countries : NumbersOf(c)' = 1..counter'[c]
  BY <1>0 DEF NumbersOf, NumberingInv
<1>1. ASSUME NEW r \in Creations, Allocate(r) PROVE NumberingInv'
  <2>1. UNCHANGED <<parcels, counter, country, announced>>
    BY <1>1 DEF Allocate
  <2>2. ASSUME NEW s \in Creations, InTransaction(s)'
        PROVE  lock'[country[s]] = s /\ drawn'[s] = counter[country[s]] + 1
    <3>1. CASE s = r
      BY <1>1, <3>1 DEF Allocate
    <3>2. CASE s # r
      <4>1. InTransaction(s)
        BY <1>1, <2>2, <3>2 DEF Allocate, InTransaction
      <4>2. lock[country[s]] = s
        BY <4>1 DEF NumberingInv
      <4>3. country[s] # country[r]
        BY <1>1, <4>2, NoRequestAssumption DEF Allocate
      <4> QED
        BY <1>1, <3>2, <4>1, <4>2, <4>3 DEF Allocate, NumberingInv
    <3> QED
      BY <3>1, <3>2
  <2>3. ASSUME NEW s \in Creations, phase'[s] \in {"audited", "responded"}
        PROVE  NewParcel(s)' \in announced'
    <3>1. s # r
      BY <1>1, <2>3 DEF Allocate
    <3> QED
      BY <1>1, <2>1, <2>3, <3>1 DEF Allocate, NumberingInv, NewParcel
  <2> QED
    BY <1>0, <2>1, <2>2, <2>3 DEF NumberingInv
<1>2. ASSUME NEW r \in Creations, BeginCreation(r) \/ Insert(r) \/ OpenAudit(r)
      PROVE  NumberingInv'
  <2>1. UNCHANGED <<parcels, counter, country, drawn, lock, announced>>
    BY <1>2 DEF BeginCreation, Insert, OpenAudit
  <2>2. \A s \in Creations : InTransaction(s)' => InTransaction(s)
    BY <1>2 DEF BeginCreation, Insert, OpenAudit, InTransaction
  <2>3. \A s \in Creations : phase'[s] \in {"audited", "responded"}
                               => phase'[s] = phase[s]
    BY <1>2 DEF BeginCreation, Insert, OpenAudit
  <2> QED
    BY <1>0, <2>1, <2>2, <2>3 DEF NumberingInv, NewParcel
<1>3. ASSUME NEW r \in Creations, Audit(r) PROVE NumberingInv'
  <2>1. /\ UNCHANGED <<parcels, counter, country, drawn, lock>>
        /\ announced' = announced \cup {NewParcel(r)}
    BY <1>3 DEF Audit
  <2>2. \A s \in Creations : InTransaction(s)' => InTransaction(s)
    BY <1>3 DEF Audit, InTransaction
  <2>3. \A s \in Creations : phase'[s] \in {"audited", "responded"}
                               => s = r \/ phase'[s] = phase[s]
    BY <1>3 DEF Audit
  <2> QED
    BY <1>0, <2>1, <2>2, <2>3 DEF NumberingInv, NewParcel
<1>4. ASSUME NEW r \in Creations, RespondCreation(r) PROVE NumberingInv'
  <2>1. UNCHANGED <<parcels, counter, country, drawn, lock, announced>>
    BY <1>4 DEF RespondCreation
  <2>2. \A s \in Creations : InTransaction(s)' => InTransaction(s)
    BY <1>4 DEF RespondCreation, InTransaction
  <2>3. \A s \in Creations : phase'[s] \in {"audited", "responded"}
                               => phase[s] \in {"audited", "responded"}
    BY <1>4 DEF RespondCreation
  <2> QED
    BY <1>0, <2>1, <2>2, <2>3 DEF NumberingInv, NewParcel
<1>5. ASSUME NEW r \in Creations, CommitCreation(r) PROVE NumberingInv'
  <2>1. \A c \in Countries : NumbersOf(c)' = 1..counter'[c]
    BY <1>5, CommitExtends DEF NumberingInv
  <2>2. InTransaction(r)
    BY <1>5 DEF CommitCreation, InTransaction
  <2>3. ASSUME NEW s \in Creations, InTransaction(s)'
        PROVE  lock'[country'[s]] = s /\ drawn'[s] = counter'[country'[s]] + 1
    <3>1. s # r /\ InTransaction(s)
      BY <1>5, <2>3 DEF CommitCreation, InTransaction
    <3>2. country[s] # country[r]
      BY <2>2, <3>1, OneHolder
    <3> QED
      BY <1>5, <3>1, <3>2 DEF CommitCreation, ReleaseCounter, NumberingInv
  <2>4. /\ NewParcel(r) \in announced
        /\ UNCHANGED <<country, drawn, announced>>
        /\ parcels' = parcels \cup {NewParcel(r)}
        /\ \A s \in Creations : phase'[s] \in {"audited", "responded"}
                                  => phase'[s] = phase[s]
    BY <1>5 DEF CommitCreation, NumberingInv
  <2> QED
    BY <2>1, <2>3, <2>4 DEF NumberingInv, NewParcel
<1>6. ASSUME NEW r \in Creations, Undo(r) PROVE NumberingInv'
  <2>1. UNCHANGED <<parcels, counter, country, announced>>
    BY <1>6 DEF Undo
  <2>2. ASSUME NEW s \in Creations, InTransaction(s)'
        PROVE  lock'[country[s]] = s /\ drawn'[s] = counter[country[s]] + 1
    <3>1. s # r /\ InTransaction(s)
      BY <1>6, <2>2 DEF Undo, InTransaction
    <3>2. lock[country[s]] = s
      BY <3>1 DEF NumberingInv
    <3>3. lock'[country[s]] = s
      BY <1>6, <3>1, <3>2 DEF Undo, ReleaseCounter
    <3> QED
      BY <1>6, <3>1, <3>3 DEF Undo, NumberingInv
  <2>3. ASSUME NEW s \in Creations, phase'[s] \in {"audited", "responded"}
        PROVE  NewParcel(s)' \in announced'
    <3>1. s # r
      BY <1>6, <2>3 DEF Undo
    <3> QED
      BY <1>6, <2>1, <2>3, <3>1 DEF Undo, NumberingInv, NewParcel
  <2> QED
    BY <1>0, <2>1, <2>2, <2>3 DEF NumberingInv
<1>7. CASE UNCHANGED numberingVars
  BY <1>0, <1>7 DEF numberingVars, NumberingInv, InTransaction, NewParcel
<1> QED
  BY <1>1, <1>2, <1>3, <1>4, <1>5, <1>6, <1>7
     DEF NumberingNext, Step, Rollback, PoolTimeout

\* A commit adds the number after the last one of its country.
LEMMA UniqueStep == NumberingIInv /\ [NumberingNext]_numberingVars => NumbersUnique'
<1> SUFFICES ASSUME NumberingIInv, [NumberingNext]_numberingVars PROVE NumbersUnique'
  OBVIOUS
<1>1. CASE parcels' = parcels
  BY <1>1 DEF NumberingIInv, NumbersUnique
<1>2. ASSUME NEW r \in Creations, CommitCreation(r) PROVE NumbersUnique'
  <2>1. parcels' = parcels \cup {NewParcel(r)}
    BY <1>2 DEF CommitCreation
  <2>2. \A p \in parcels : p.country = country[r] => p.number # drawn[r]
    BY <1>2, CommittedNumberIsNew
  <2>3. NewParcel(r).country = country[r] /\ NewParcel(r).number = drawn[r]
    BY DEF NewParcel
  <2> QED
    BY <2>1, <2>2, <2>3 DEF NumberingIInv, NumbersUnique
<1>3. parcels' = parcels \/ \E r \in Creations : CommitCreation(r)
  BY DEF NumberingNext, Step, BeginCreation, Allocate, Insert, OpenAudit, Audit, RespondCreation,
         Rollback, PoolTimeout, Undo, numberingVars
<1> QED
  BY <1>1, <1>2, <1>3

\* The invariant holds throughout, for any requests and countries.
LEMMA NumberingInvariance == NumberingSpec => []NumberingIInv
<1>1. NumberingIInv /\ [NumberingNext]_numberingVars => NumberingIInv'
  BY NumberingTypeStep, NumberingStep, UniqueStep DEF NumberingIInv
<1> QED
  BY InitNumbering, <1>1, PTL DEF NumberingSpec

\* Type correctness of the model of create_parcel().
THEOREM NumberingTypeCorrect == NumberingSpec => []NumberingTypeOK
BY NumberingInvariance, PTL DEF NumberingIInv

\* The committed parcels of a country are numbered 1..last_allocated at every
\* instant, and a number drawn from a counter row by allocate() is protected by
\* the lock on that row until its transaction ends.
THEOREM NumberingInvariant == NumberingSpec => []NumberingInv
BY NumberingInvariance, PTL DEF NumberingIInv

\* No two parcels of a country carry one number, whatever interleaves with
\* allocate() and whatever rolls back.
THEOREM NumbersAlwaysUnique == NumberingSpec => []NumbersUnique
BY NumberingInvariance, PTL DEF NumberingIInv

\* A parcel in the registry has been announced in the audit log with its number.
THEOREM ParcelsAlwaysAnnounced == NumberingSpec => []ParcelsAnnounced
<1>1. NumberingIInv => ParcelsAnnounced
  BY DEF NumberingIInv, NumberingInv, ParcelsAnnounced
<1> QED
  BY NumberingInvariance, <1>1, PTL

\* A commit is one Issue of the ledger, and no other step moves it.
LEMMA NumberingRefines ==
  NumberingIInv /\ [NumberingNext]_numberingVars => [Ledger!Next]_parcels
<1> SUFFICES ASSUME NumberingIInv, [NumberingNext]_numberingVars
             PROVE  Ledger!Next \/ parcels' = parcels
  OBVIOUS
<1>1. ASSUME NEW r \in Creations, CommitCreation(r) PROVE Ledger!Next
  <2> DEFINE c == country[r]
             n == counter[c]
  <2>1. c \in Countries /\ n \in Nat
    BY DEF NumberingIInv, NumberingTypeOK
  <2>2. Ledger!Numbers(c) = 1..n
    BY <2>1 DEF NumberingIInv, NumberingInv, NumbersOf, Ledger!Numbers
  <2>3. n \in Ledger!Numbers(c) \cup {0}
    BY <2>1, <2>2
  <2>4. drawn[r] = n + 1
    BY <1>1 DEF NumberingIInv, CommitCreation, InTransaction, NumberingInv
  <2>5. parcels' = parcels \cup
                     {[request |-> r, country |-> c, number |-> n + 1]}
    BY <1>1, <2>4 DEF CommitCreation, NewParcel
  <2>6. Ledger!Issue(r, c)
    BY <2>2, <2>3, <2>5 DEF Ledger!Issue
  <2> QED
    BY <2>1, <2>6 DEF Ledger!Next
<1>2. parcels' = parcels \/ \E r \in Creations : CommitCreation(r)
  BY DEF NumberingNext, Step, BeginCreation, Allocate, Insert, OpenAudit, Audit, RespondCreation,
         Rollback, PoolTimeout, Undo, numberingVars
<1> QED
  BY <1>1, <1>2

\* ADR-014's promise: the locked counter row, inside transactions that may roll
\* back at any point, implements the ledger that issues 1, 2, 3, ... atomically.
THEOREM NumberingImplementsLedger == NumberingSpec => ImplementsLedger
<1>1. NumberingInit => Ledger!Init
  BY DEF NumberingInit, Ledger!Init
<1> QED
  BY <1>1, NumberingRefines, NumberingInvariance, PTL
     DEF NumberingSpec, ImplementsLedger, Ledger!Spec

(***************************************************************************)
(* Why every creation ends.                                                *)
(***************************************************************************)
HasEnded(r) == phase[r] \in {"committed", "failed"}

\* What a request needs for its next step, and when the pool's timer runs for it.
CanStep(r) ==
  /\ ~ HasEnded(r)
  /\ phase[r] = "begun" => lock[country[r]] = NoRequest
  /\ phase[r] \in {"idle", "inserted"} => FreeConnection

TimerRuns(r) == phase[r] \in {"idle", "inserted"} /\ ~FreeConnection

CanMove(r) == CanStep(r) \/ TimerRuns(r)

\* A counter row is locked by an open transaction of that country.
HoldersAreOpen ==
  \A c \in Countries :
    lock[c] # NoRequest => InTransaction(lock[c]) /\ country[lock[c]] = c

\* A request that cannot move waits for a counter row, and the one that holds the row
\* can: it waits for the pool at most, and not longer than the pool's time-out.
NobodyIsStuck ==
  \A r \in Creations :
    \/ HasEnded(r) \/ CanMove(r)
    \/ /\ phase[r] = "begun"
       /\ \E q \in Creations : lock[country[r]] = q /\ CanMove(q)

\* How many steps a request has left at most.
StepsToGo(r) ==
  CASE phase[r] = "idle" -> 7
    [] phase[r] = "begun" -> 6
    [] phase[r] = "allocated" -> 5
    [] phase[r] = "inserted" -> 4
    [] phase[r] = "auditing" -> 3
    [] phase[r] = "audited" -> 2
    [] phase[r] = "responded" -> 1
    [] OTHER -> 0

\* A step is one of a request that could move, less for it and for no other.
StepIsOneLess ==
  \E r \in Creations :
    /\ StepsToGo(r)' < StepsToGo(r)
    /\ \A q \in Creations \ {r} : StepsToGo(q)' = StepsToGo(q)

\* The lock of a counter row goes with the transaction that has it.
LEMMA HoldersStep ==
  ASSUME NumberingTypeOK, HoldersAreOpen, [NumberingNext]_numberingVars
  PROVE  HoldersAreOpen'
<1> USE DEF NumberingTypeOK, HoldersAreOpen, InTransaction
<1>1. ASSUME NEW r \in Creations, BeginCreation(r) \/ OpenAudit(r) PROVE HoldersAreOpen'
  BY <1>1 DEF BeginCreation, OpenAudit
<1>2. ASSUME NEW r \in Creations, Allocate(r) PROVE HoldersAreOpen'
  BY <1>2, NoRequestAssumption DEF Allocate
<1>3. ASSUME NEW r \in Creations, Insert(r) \/ Audit(r) \/ RespondCreation(r)
      PROVE  HoldersAreOpen'
  BY <1>3 DEF Insert, Audit, RespondCreation
<1>4. ASSUME NEW r \in Creations, CommitCreation(r) PROVE HoldersAreOpen'
  BY <1>4, NoRequestAssumption DEF CommitCreation, ReleaseCounter
<1>5. ASSUME NEW r \in Creations, Undo(r) PROVE HoldersAreOpen'
  BY <1>5, NoRequestAssumption DEF Undo, ReleaseCounter
<1>6. CASE UNCHANGED numberingVars
  BY <1>6 DEF numberingVars
<1> QED
  BY <1>1, <1>2, <1>3, <1>4, <1>5, <1>6 DEF NumberingNext, Step, Rollback, PoolTimeout

\* However few connections there are, no creations wait in a circle for the counter
\* row and for the pool, and each takes at most seven steps.
THEOREM CreationsNeverStuck ==
  NumberingSpec => []NobodyIsStuck /\ [][StepIsOneLess]_numberingVars
<1>1. NumberingInit => HoldersAreOpen
  BY DEF NumberingInit, HoldersAreOpen
<1>2. NumberingTypeOK /\ HoldersAreOpen /\ [NumberingNext]_numberingVars => HoldersAreOpen'
  BY HoldersStep
<1>3. NumberingTypeOK /\ HoldersAreOpen => NobodyIsStuck
  <2> SUFFICES ASSUME NumberingTypeOK, HoldersAreOpen, NEW r \in Creations,
                      ~ HasEnded(r), ~ CanMove(r)
               PROVE  /\ phase[r] = "begun"
                      /\ \E q \in Creations : lock[country[r]] = q /\ CanMove(q)
    BY DEF NobodyIsStuck
  <2>1. phase[r] = "begun" /\ lock[country[r]] # NoRequest
    BY DEF CanMove, CanStep, TimerRuns
  <2>2. PICK q \in Creations : lock[country[r]] = q /\ InTransaction(q)
    BY <2>1 DEF NumberingTypeOK, HoldersAreOpen
  <2>3. CanMove(q)
    BY <2>2 DEF InTransaction, CanMove, CanStep, TimerRuns, HasEnded
  <2> QED
    BY <2>1, <2>2, <2>3
<1>4. NumberingTypeOK /\ [NumberingNext]_numberingVars => [StepIsOneLess]_numberingVars
  <2> SUFFICES ASSUME NumberingTypeOK, NEW r \in Creations,
                      Step(r) \/ Rollback(r) \/ PoolTimeout(r)
               PROVE  StepIsOneLess
    BY DEF NumberingNext
  <2>1. StepsToGo(r)' < StepsToGo(r)
    BY DEF NumberingTypeOK, Phases, StepsToGo, Step, BeginCreation, Allocate, Insert, OpenAudit,
           Audit, RespondCreation, CommitCreation, Rollback, PoolTimeout, Undo
  <2>2. \A q \in Creations \ {r} : phase'[q] = phase[q]
    BY DEF NumberingTypeOK, Step, BeginCreation, Allocate, Insert, OpenAudit,
           Audit, RespondCreation, CommitCreation, Rollback, PoolTimeout, Undo
  <2> QED
    BY <2>1, <2>2 DEF StepIsOneLess, StepsToGo
<1> QED
  BY <1>1, <1>2, <1>3, <1>4, NumberingTypeCorrect, PTL DEF NumberingSpec

-----------------------------------------------------------------------------
(***************************************************************************)
(* The lifecycle of a parcel and its history.                              *)
(***************************************************************************)
\* A fresh row below a row of the table, or below none, keeps the tree of a history.
LEMMA AddToLineage ==
    ASSUME NEW dag, NEW e, Lineage!ValidDag(dag),
           e.hash \notin Lineage!Hashes(dag) \cup {None},
           e.prev_hash \in Lineage!Hashes(dag) \cup {None}
    PROVE  Lineage!ValidDag(dag \cup {e})
<1> DEFINE all == dag \cup {e}
<1>1. Lineage!UniqueHashes(all)
  BY DEF Lineage!ValidDag, Lineage!UniqueHashes, Lineage!Hashes
<1>2. Lineage!Resolves(all)
  BY DEF Lineage!ValidDag, Lineage!Resolves, Lineage!Hashes
<1>3. ASSUME NEW part \in SUBSET all, part # {}
      PROVE  \E f \in part : f.prev_hash \notin Lineage!Hashes(part)
  <2>1. CASE part \subseteq {e}
    BY <1>3, <2>1 DEF Lineage!Hashes
  <2>2. CASE part \ {e} # {}
    <3>1. PICK f \in part \ {e} : f.prev_hash \notin Lineage!Hashes(part \ {e})
      BY <2>2 DEF Lineage!ValidDag, Lineage!Acyclic
    <3>2. f.prev_hash # e.hash
      BY DEF Lineage!ValidDag, Lineage!Resolves
    <3>3. QED
      BY <3>1, <3>2 DEF Lineage!Hashes
  <2>3. QED
    BY <2>1, <2>2
<1>4. QED
  BY <1>1, <1>2, <1>3 DEF Lineage!ValidDag, Lineage!Acyclic

-----------------------------------------------------------------------------
(***************************************************************************)
(* The inductive invariant.                                                *)
(***************************************************************************)
\* Where a request has flushed its UPDATE and not ended its transaction.
InFlight == {"written", "asserted", "audited", "responded"}

\* The row lock is held from the flush of the UPDATE to the end.
LockInv == \A r \in Requests : pc[r] \in InFlight <=> rowLock = r

\* A request that writes has loaded an active parcel.
CopyInv ==
    \A r \in Requests :
        pc[r] \in InFlight \cup {"reread"} => loaded[r].status = "ACTIVE"

\* What a transaction has flushed is still what it would flush: nobody commits
\* to the history tables while it holds the row lock.
StagedInv ==
    \A r \in Requests :
        staged[r] = IF pc[r] \in InFlight THEN NewHistory(r) ELSE {}

\* The audit row of a staged history row is durable before the commit.
AssertionInv ==
    \A r \in Requests :
        pc[r] \in InFlight \ {"written"} /\ staged[r] # {} =>
           AssertionAudit(r) \in auditLog

\* The query for the latest row of a table finds one unless it is empty.
HasLatest(rows) == rows = {} \/ Latest(rows) # {}

LatestInv == HasLatest(ownership) /\ HasLatest(statuses)

HistoryInv ==
    /\ TypeOK /\ LockInv /\ CopyInv /\ StagedInv /\ AssertionInv /\ LatestInv
    /\ HistoryIsAtomic /\ AuditRefsResolve /\ ArchivedIsRecorded
    /\ LineageIsTree

-----------------------------------------------------------------------------
(***************************************************************************)
(* The operators.                                                          *)
(***************************************************************************)
\* A request changes its copy of the parcel within the columns' types.
LEMMA CopyType ==
    ASSUME NEW r \in Requests, TypeOK PROVE Copy(r) \in Parcel
<1> DEFINE c == change[r]
<1> DEFINE p == loaded[r]
<1>1. c \in Changes /\ p \in Parcel
  BY DEF TypeOK
<1>2. IsArchive(c) \/ IsGeometry(c) \/ IsUpdate(c)
  BY <1>1, ChangesAssumption
<1>3. \A f \in Fields : Copy(r)[f] = IF f \in DOMAIN c THEN c[f] ELSE p[f]
  BY DEF Copy
<1>4. Copy(r) = [status |-> Copy(r).status, name |-> Copy(r).name,
                 contact |-> Copy(r).contact, title |-> Copy(r).title,
                 geometry |-> Copy(r).geometry]
  BY DEF Copy, Fields
<1>5. /\ Copy(r).status \in {"ACTIVE", "ARCHIVED"}
      /\ Copy(r).name \in Refs \cup {None}
      /\ Copy(r).contact \in Refs \cup {None}
      /\ Copy(r).title \in Refs \cup {None}
      /\ Copy(r).geometry \in Refs \cup {None}
  BY <1>1, <1>2, <1>3
     DEF IsArchive, IsGeometry, IsUpdate, Details, Fields, Parcel
<1> QED
  BY <1>4, <1>5 DEF Parcel

\* The row an UPDATE leaves takes each column from the copy or the row before.
LEMMA UpdatedRowType ==
    ASSUME NEW r \in Requests, TypeOK PROVE UpdatedRow(r) \in Parcel
<1>1. Copy(r) \in Parcel /\ parcel \in Parcel
  BY CopyType DEF TypeOK
<1>2. \A f \in Fields : UpdatedRow(r)[f] \in {Copy(r)[f], parcel[f]}
  BY DEF UpdatedRow
<1>3. UpdatedRow(r) =
        [status |-> UpdatedRow(r).status, name |-> UpdatedRow(r).name,
         contact |-> UpdatedRow(r).contact, title |-> UpdatedRow(r).title,
         geometry |-> UpdatedRow(r).geometry]
  BY DEF UpdatedRow, Fields
<1> QED
  BY <1>1, <1>2, <1>3 DEF Parcel, Fields

\* The holder a parcel asserts is a reference of one or two parts, or none.
LEMMA HolderRefType ==
    ASSUME NEW p \in Parcel PROVE HolderRef(p) \in HolderRefs
BY DEF Parcel, HolderRef, HolderRefs

\* The id that a new row supersedes is that of a row of the table; only the
\* first row supersedes nothing.
LEMMA PriorIdIsThere ==
    ASSUME NEW rows, HasLatest(rows)
    PROVE  IF rows = {} THEN PriorId(rows) = None
           ELSE \E row \in rows : PriorId(rows) = row.id
BY DEF HasLatest, PriorId, Latest

\* An archive flushes one status row, an update at most one ownership row, and
\* whatever is flushed asserts the copy.
LEMMA NewHistoryShape ==
    ASSUME NEW r \in Requests, TypeOK
    PROVE  /\ Asserts(r) <=> NewHistory(r) # {}
           /\ IsArchive(change[r]) =>
                 /\ ~IsUpdate(change[r]) /\ ~IsGeometry(change[r])
                 /\ NewHistory(r) = {Assertion(r, statuses, "ARCHIVED")}
           /\ IsUpdate(change[r]) =>
                 NewHistory(r) \in
                    {{}, {Assertion(r, ownership, HolderRef(Copy(r)))}}
           /\ IsGeometry(change[r]) =>
                 ~IsUpdate(change[r]) /\ NewHistory(r) = {}
           /\ ~IsArchive(change[r]) => Copy(r).status = loaded[r].status
<1>1. IsArchive(change[r]) \/ IsGeometry(change[r]) \/ IsUpdate(change[r])
  BY ChangesAssumption DEF TypeOK
<1>2. ~IsArchive(change[r]) => Copy(r).status = loaded[r].status
  BY <1>1 DEF IsArchive, IsGeometry, IsUpdate, Details, Copy, Fields
<1>3. IsArchive(change[r]) =>
         /\ ~IsUpdate(change[r]) /\ ~IsGeometry(change[r])
         /\ Copy(r).status = "ARCHIVED"
  BY DEF IsArchive, IsGeometry, IsUpdate, Details, Copy, Fields
<1>4. IsGeometry(change[r]) => ~IsUpdate(change[r]) /\ ~IsArchive(change[r])
  BY DEF IsArchive, IsGeometry, IsUpdate, Details
<1> QED
  BY <1>2, <1>3, <1>4 DEF NewHistory, Asserts

\* A flushed row is a row of its table.
LEMMA NewHistoryType ==
    ASSUME NEW r \in Requests, TypeOK, LatestInv
    PROVE  NewHistory(r) \subseteq IF IsArchive(change[r]) THEN StatusRow
                                   ELSE OwnershipRow
<1>1. HolderRef(Copy(r)) \in HolderRefs
  BY CopyType, HolderRefType
<1>2. startedAt[r] \in Nat
  BY DEF TypeOK
<1>3. PriorId(statuses) \in Requests \cup {Creation, None}
  BY PriorIdIsThere DEF TypeOK, StatusRow, HistoryRow, LatestInv
<1>4. PriorId(ownership) \in Requests \cup {Creation, None}
  BY PriorIdIsThere DEF TypeOK, OwnershipRow, HistoryRow, LatestInv
<1>5. Assertion(r, statuses, "ARCHIVED") \in StatusRow
  BY <1>2, <1>3 DEF Assertion, AssertionAudit, StatusRow, HistoryRow
<1>6. Assertion(r, ownership, HolderRef(Copy(r))) \in OwnershipRow
  BY <1>1, <1>2, <1>4 DEF Assertion, AssertionAudit, OwnershipRow, HistoryRow
<1> QED
  BY <1>5, <1>6, NewHistoryShape, ChangesAssumption DEF TypeOK

\* A table with a latest row has one after a row is added.
LEMMA AddKeepsLatest ==
    ASSUME NEW rows, NEW new, HasLatest(rows), new.recorded_at \in Nat,
           \A row \in rows : row.recorded_at \in Nat
    PROVE  HasLatest(rows \cup {new})
<1>1. CASE rows = {}
  <2>1. new \in Latest(rows \cup {new})
    BY <1>1 DEF Latest
  <2> QED
    BY <2>1 DEF HasLatest
<1>2. CASE rows # {}
  <2>1. PICK latest \in rows :
           \A other \in rows : other.recorded_at <= latest.recorded_at
    BY <1>2 DEF HasLatest, Latest
  <2>2. CASE new.recorded_at <= latest.recorded_at
    <3>1. latest \in Latest(rows \cup {new})
      BY <2>1, <2>2 DEF Latest
    <3> QED
      BY <3>1 DEF HasLatest
  <2>3. CASE ~(new.recorded_at <= latest.recorded_at)
    <3>1. new \in Latest(rows \cup {new})
      BY <2>1, <2>3 DEF Latest
    <3> QED
      BY <3>1 DEF HasLatest
  <2> QED
    BY <2>2, <2>3
<1> QED
  BY <1>1, <1>2

\* A row of a new request that supersedes what the query finds keeps a tree.
LEMMA AddKeepsTree ==
    ASSUME NEW rows, NEW new, HasLatest(rows), IsTree(rows),
           new.supersedes = PriorId(rows),
           new.id # None, \A row \in rows : row.id \notin {None, new.id}
    PROVE  IsTree(rows \cup {new})
<1> DEFINE e == [hash |-> new.id, prev_hash |-> new.supersedes]
<1>1. Linked(rows \cup {new}) = Linked(rows) \cup {e}
  BY DEF Linked
<1>2. e.hash \notin Lineage!Hashes(Linked(rows)) \cup {None}
  BY DEF Lineage!Hashes, Linked
<1>3. \A row \in rows : row.id \in Lineage!Hashes(Linked(rows))
  <2> TAKE row \in rows
  <2> DEFINE d == [hash |-> row.id, prev_hash |-> row.supersedes]
  <2>1. d \in Linked(rows)
    BY DEF Linked
  <2>2. d.hash = row.id
    OBVIOUS
  <2> HIDE DEF d
  <2> QED
    BY <2>1, <2>2 DEF Lineage!Hashes
<1>4. e.prev_hash \in Lineage!Hashes(Linked(rows)) \cup {None}
  BY <1>3, PriorIdIsThere
<1>5. Lineage!ValidDag(Linked(rows \cup {new}))
  <2> HIDE DEF e
  <2> QED
    BY <1>1, <1>2, <1>4, AddToLineage DEF IsTree
<1>6. OneRoot(rows \cup {new})
  BY PriorIdIsThere DEF IsTree, OneRoot
<1> QED
  BY <1>5, <1>6 DEF IsTree

-----------------------------------------------------------------------------
(***************************************************************************)
(* The steps.                                                              *)
(***************************************************************************)
\* create_parcel() has written the parcel and its first history rows.
LEMMA InitHistoryInv == Init => HistoryInv
<1> SUFFICES ASSUME Init PROVE HistoryInv
  OBVIOUS
<1>1. TypeOK
  <2>1. parcel \in Parcel
    BY DEF Init
  <2>2. CreationRow("ACTIVE") \in StatusRow
    BY DEF CreationRow, AssertionAudit, StatusRow, HistoryRow
  <2>3. CreationRow(HolderRef(parcel)) \in OwnershipRow
    BY <2>1, HolderRefType
       DEF CreationRow, AssertionAudit, OwnershipRow, HistoryRow
  <2>4. ownership \in SUBSET OwnershipRow /\ statuses \in SUBSET StatusRow
    BY <2>2, <2>3 DEF Init
  <2>5. auditLog \subseteq (Requests \cup {Creation}) \X
                              {"assertion", "mutation", "denied"}
    BY DEF Init, AssertionAudit
  <2>6. /\ pc \in [Requests -> PCs]
        /\ startedAt \in [Requests -> Nat]
        /\ loaded \in [Requests -> Parcel] /\ base \in [Requests -> Parcel]
    BY <2>1 DEF Init, PCs
  <2>7. DOMAIN staged = Requests /\ \A r \in Requests : staged[r] = {}
    BY DEF Init
  <2> QED
    BY <2>1, <2>4, <2>5, <2>6, <2>7 DEF Init, TypeOK
<1>2. LockInv /\ CopyInv /\ StagedInv /\ AssertionInv
  BY NoneAssumption
     DEF Init, LockInv, CopyInv, StagedInv, AssertionInv, InFlight
<1>3. LatestInv
  BY DEF Init, LatestInv, HasLatest, Latest, CreationRow
<1>4. HistoryIsAtomic
  <2>1. /\ \A row \in statuses : row.id \notin Requests
        /\ \A row \in ownership : row.id \notin Requests
    BY CreationAssumption DEF Init, CreationRow
  <2>2. \A r \in Requests : pc[r] # "committed"
    BY DEF Init
  <2> QED
    BY <2>1, <2>2 DEF HistoryIsAtomic
<1>5. AuditRefsResolve /\ ArchivedIsRecorded
  BY DEF Init, AuditRefsResolve, ArchivedIsRecorded, CreationRow
<1>6. IsTree({})
  <2>1. Linked({}) = {}
    BY DEF Linked
  <2> QED
    BY <2>1 DEF IsTree, OneRoot, Lineage!ValidDag, Lineage!UniqueHashes,
                Lineage!Resolves, Lineage!Acyclic
<1>7. ASSUME NEW value PROVE IsTree({CreationRow(value)})
  <2>1. HasLatest({})
    BY DEF HasLatest
  <2>2. CreationRow(value).supersedes = PriorId({})
    BY DEF CreationRow, PriorId
  <2>3. CreationRow(value).id # None
    BY CreationAssumption DEF CreationRow
  <2>4. IsTree({} \cup {CreationRow(value)})
    BY <1>6, <2>1, <2>2, <2>3, AddKeepsTree
  <2> QED
    BY <2>4
<1>8. LineageIsTree
  BY <1>6, <1>7 DEF Init, LineageIsTree
<1> QED
  BY <1>1, <1>2, <1>3, <1>4, <1>5, <1>8 DEF HistoryInv

\* A step that commits nothing to the parcel and its history leaves what is
\* said of them.
LEMMA TablesUntouched ==
    ASSUME HistoryInv, UNCHANGED <<parcel, ownership, statuses>>,
           auditLog \subseteq auditLog'
    PROVE  /\ LatestInv' /\ AuditRefsResolve' /\ ArchivedIsRecorded'
           /\ LineageIsTree'
BY DEF HistoryInv, LatestInv, HasLatest, Latest, AuditRefsResolve,
       ArchivedIsRecorded, LineageIsTree, IsTree, OneRoot, Linked,
       Lineage!ValidDag, Lineage!UniqueHashes, Lineage!Resolves,
       Lineage!Acyclic, Lineage!Hashes

\* What a request would flush depends on its own copy and on the two tables.
LEMMA SameHistory ==
    ASSUME NEW s \in Requests, UNCHANGED <<ownership, statuses, change>>,
           loaded'[s] = loaded[s], startedAt'[s] = startedAt[s]
    PROVE  NewHistory(s)' = NewHistory(s) /\ (Asserts(s)' <=> Asserts(s))
BY DEF NewHistory, Asserts, Assertion, PriorId, Latest, Copy, HolderRef,
       AssertionAudit, IsArchive, IsUpdate

\* A step that commits nothing keeps the invariant, if it keeps the parts that
\* are about the request that takes it.
LEMMA UncommittedStepKeeps ==
    ASSUME NEW r \in Requests, HistoryInv, TypeOK', LockInv', CopyInv',
           UNCHANGED <<parcel, ownership, statuses, change>>,
           auditLog \subseteq auditLog',
           \A s \in Requests \ {r} :
              /\ pc'[s] = pc[s] /\ staged'[s] = staged[s]
              /\ loaded'[s] = loaded[s] /\ startedAt'[s] = startedAt[s],
           pc[r] # "committed", pc'[r] # "committed",
           staged'[r] = IF pc'[r] \in InFlight THEN NewHistory(r)' ELSE {},
           pc'[r] \in InFlight \ {"written"} /\ staged'[r] # {} =>
              AssertionAudit(r) \in auditLog'
    PROVE  HistoryInv'
<1>1. \A s \in Requests \ {r} :
         NewHistory(s)' = NewHistory(s) /\ (Asserts(s)' <=> Asserts(s))
  BY SameHistory
<1>2. StagedInv'
  BY <1>1 DEF HistoryInv, StagedInv
<1>3. AssertionInv'
  BY DEF HistoryInv, AssertionInv, AssertionAudit
<1>4. HistoryIsAtomic'
  BY <1>1 DEF HistoryInv, HistoryIsAtomic
<1>5. LatestInv' /\ AuditRefsResolve' /\ ArchivedIsRecorded' /\ LineageIsTree'
  BY TablesUntouched
<1> QED
  BY <1>2, <1>3, <1>4, <1>5 DEF HistoryInv

\* Begin, load, denial, refusal: nothing is flushed.
LEMMA EarlyStepKeeps ==
    ASSUME NEW r \in Requests, HistoryInv,
           Begin(r) \/ Load(r) \/ Deny(r) \/ Refuse(r) \/ Reread(r)
    PROVE  HistoryInv'
<1> USE DEF HistoryInv
<1>1. TypeOK'
  BY DEF Begin, Load, Deny, Refuse, Reread, TypeOK, PCs
<1>2. LockInv'
  BY DEF Begin, Load, Deny, Refuse, Reread, TypeOK, LockInv, InFlight
<1>3. CopyInv'
  BY DEF Begin, Load, Deny, Refuse, Reread, TypeOK, CopyInv, InFlight
<1>4. /\ pc[r] \notin InFlight \cup {"committed"}
      /\ pc'[r] \notin InFlight \cup {"committed"}
      /\ staged'[r] = staged[r]
      /\ auditLog \subseteq auditLog'
      /\ UNCHANGED <<parcel, ownership, statuses, change>>
      /\ \A s \in Requests \ {r} :
              /\ pc'[s] = pc[s] /\ staged'[s] = staged[s]
              /\ loaded'[s] = loaded[s] /\ startedAt'[s] = startedAt[s]
  BY DEF Begin, Load, Deny, Refuse, Reread, TypeOK, InFlight
<1>5. staged'[r] = {}
  BY <1>4 DEF StagedInv
<1> QED
  BY <1>1, <1>2, <1>3, <1>4, <1>5, UncommittedStepKeeps

\* The flush takes the row lock, and what it stages is NewHistory(r).
LEMMA WriteKeeps ==
    ASSUME NEW r \in Requests, HistoryInv, Write(r) PROVE HistoryInv'
<1> USE DEF HistoryInv
<1>1. NewHistory(r)' = NewHistory(r)
  BY SameHistory DEF Write
<1>2. TypeOK'
  BY NewHistoryType DEF Write, TypeOK, PCs
<1>3. LockInv' /\ CopyInv'
  BY NoneAssumption DEF Write, TypeOK, LockInv, CopyInv, InFlight
<1>4. /\ pc[r] # "committed" /\ pc'[r] = "written"
      /\ staged'[r] = NewHistory(r)
      /\ UNCHANGED <<parcel, ownership, statuses, change, auditLog>>
      /\ \A s \in Requests \ {r} :
              /\ pc'[s] = pc[s] /\ staged'[s] = staged[s]
              /\ loaded'[s] = loaded[s] /\ startedAt'[s] = startedAt[s]
  BY DEF Write, TypeOK
<1> QED
  BY <1>1, <1>2, <1>3, <1>4, UncommittedStepKeeps DEF InFlight

\* The eager audit rows and the response, between the flush and the commit.
LEMMA LateStepKeeps ==
    ASSUME NEW r \in Requests, HistoryInv,
           AuditAssertion(r) \/ AuditMutation(r) \/ Respond(r)
    PROVE  HistoryInv'
<1> USE DEF HistoryInv
<1>1. NewHistory(r)' = NewHistory(r)
  BY SameHistory DEF AuditAssertion, AuditMutation, Respond
<1>2. TypeOK'
  BY DEF AuditAssertion, AuditMutation, Respond, TypeOK, PCs, AssertionAudit
<1>3. LockInv' /\ CopyInv'
  BY DEF AuditAssertion, AuditMutation, Respond, TypeOK, LockInv, CopyInv,
         InFlight
<1>4. /\ pc[r] \in InFlight /\ pc'[r] \in InFlight \ {"written"}
      /\ staged' = staged
      /\ auditLog \subseteq auditLog'
      /\ UNCHANGED <<parcel, ownership, statuses, change>>
      /\ \A s \in Requests \ {r} :
              /\ pc'[s] = pc[s]
              /\ loaded'[s] = loaded[s] /\ startedAt'[s] = startedAt[s]
  BY DEF AuditAssertion, AuditMutation, Respond, TypeOK, InFlight
<1>5. staged[r] # {} => AssertionAudit(r) \in auditLog'
  BY DEF AuditAssertion, AuditMutation, Respond, AssertionInv, InFlight
<1> QED
  BY <1>1, <1>2, <1>3, <1>4, <1>5, UncommittedStepKeeps
     DEF StagedInv, InFlight

\* A rollback drops what was flushed and releases the lock.
LEMMA FailKeeps ==
    ASSUME NEW r \in Requests, HistoryInv, Fail(r) PROVE HistoryInv'
<1> USE DEF HistoryInv
<1>1. TypeOK'
  BY DEF Fail, TypeOK, PCs
<1>2. LockInv' /\ CopyInv'
  BY NoneAssumption DEF Fail, TypeOK, LockInv, CopyInv, InFlight
<1>3. /\ pc[r] # "committed" /\ pc'[r] = "failed" /\ staged'[r] = {}
      /\ UNCHANGED <<parcel, ownership, statuses, change, auditLog>>
      /\ \A s \in Requests \ {r} :
              /\ pc'[s] = pc[s] /\ staged'[s] = staged[s]
              /\ loaded'[s] = loaded[s] /\ startedAt'[s] = startedAt[s]
  BY DEF Fail, TypeOK
<1> QED
  BY <1>1, <1>2, <1>3, UncommittedStepKeeps DEF InFlight

\* A commit makes the new row of each table durable, if there is one.
LEMMA CommittedRows ==
    ASSUME NEW r \in Requests, HistoryInv, Commit(r)
    PROVE  \/ /\ IsArchive(change[r]) /\ Asserts(r)
              /\ ownership' = ownership
              /\ statuses' = statuses \cup {Assertion(r, statuses, "ARCHIVED")}
           \/ /\ IsUpdate(change[r]) /\ Asserts(r) /\ ~IsArchive(change[r])
              /\ statuses' = statuses
              /\ ownership' = ownership \cup
                    {Assertion(r, ownership, HolderRef(Copy(r)))}
           \/ /\ ~Asserts(r) /\ ~IsArchive(change[r])
              /\ statuses' = statuses /\ ownership' = ownership
<1>1. staged[r] = NewHistory(r)
  BY DEF HistoryInv, StagedInv, Commit, InFlight
<1>2. TypeOK
  BY DEF HistoryInv
<1>3. /\ statuses' = statuses \cup
                         (IF IsArchive(change[r]) THEN staged[r] ELSE {})
      /\ ownership' = ownership \cup
                          (IF IsUpdate(change[r]) THEN staged[r] ELSE {})
  BY DEF Commit
<1>4. CASE IsArchive(change[r])
  BY <1>1, <1>2, <1>3, <1>4, NewHistoryShape DEF Assertion
<1>5. CASE IsGeometry(change[r])
  BY <1>1, <1>2, <1>3, <1>5, NewHistoryShape
<1>6. CASE IsUpdate(change[r])
  <2>1. ~IsArchive(change[r])
    BY <1>2, <1>6, NewHistoryShape
  <2> QED
    BY <1>1, <1>2, <1>3, <1>6, <2>1, NewHistoryShape
<1> QED
  BY <1>2, <1>4, <1>5, <1>6, ChangesAssumption DEF TypeOK

\* The commit.
LEMMA CommitKeeps ==
    ASSUME NEW r \in Requests, HistoryInv, Commit(r) PROVE HistoryInv'
<1> USE DEF HistoryInv
<1> DEFINE status == Assertion(r, statuses, "ARCHIVED")
<1> DEFINE owner == Assertion(r, ownership, HolderRef(Copy(r)))
<1>1. /\ pc[r] = "responded" /\ pc'[r] = "committed" /\ staged'[r] = {}
      /\ UNCHANGED <<auditLog, change, loaded, startedAt>>
      /\ \A s \in Requests \ {r} :
              pc'[s] = pc[s] /\ staged'[s] = staged[s]
  BY DEF Commit, TypeOK
<1>2. \A s \in Requests \ {r} : pc[s] \notin InFlight
  BY <1>1, NoneAssumption DEF LockInv, InFlight
<1>3. TypeOK'
  <2>1. parcel' \in Parcel
    BY UpdatedRowType DEF Commit
  <2>2. ownership' \in SUBSET OwnershipRow /\ statuses' \in SUBSET StatusRow
    BY CommittedRows, NewHistoryType, <1>1, ChangesAssumption
       DEF Commit, TypeOK, IsArchive, IsUpdate, Details
  <2> QED
    BY <2>1, <2>2 DEF Commit, TypeOK, PCs
<1>4. LockInv' /\ CopyInv'
  BY <1>2, NoneAssumption DEF Commit, TypeOK, LockInv, CopyInv, InFlight
<1>5. StagedInv' /\ AssertionInv'
  BY <1>1, <1>2 DEF StagedInv, AssertionInv, InFlight
<1>6. /\ status.id = r /\ status.supersedes = PriorId(statuses)
      /\ status.value = "ARCHIVED"
      /\ status.recorded_at \in Nat /\ status.audit_ref = AssertionAudit(r)
      /\ owner.id = r /\ owner.supersedes = PriorId(ownership)
      /\ owner.recorded_at \in Nat /\ owner.audit_ref = AssertionAudit(r)
  BY DEF Assertion, TypeOK
<1>7. /\ \A row \in ownership : row.recorded_at \in Nat /\ row.id \notin {None, r}
      /\ \A row \in statuses : row.recorded_at \in Nat /\ row.id \notin {None, r}
  BY <1>1, NoneAssumption, CreationAssumption
     DEF TypeOK, OwnershipRow, StatusRow, HistoryRow, HistoryIsAtomic
<1> HIDE DEF status, owner
<1>8. LatestInv'
  BY CommittedRows, <1>6, <1>7, AddKeepsLatest DEF LatestInv, status, owner
<1>9. HistoryIsAtomic'
  <2>1. \A s \in Requests : Asserts(s)' <=> Asserts(s)
    BY <1>1 DEF Asserts, Copy, HolderRef, IsArchive, IsUpdate
  <2>2. \A s \in Requests :
           (\E row \in statuses' : row.id = s) \/ (\E row \in ownership' : row.id = s)
              <=> \/ (\E row \in statuses : row.id = s) \/ (\E row \in ownership : row.id = s)
                  \/ s = r /\ Asserts(r)
    BY CommittedRows, <1>6 DEF status, owner
  <2> QED
    BY <1>1, <2>1, <2>2 DEF HistoryIsAtomic
<1>10. AuditRefsResolve'
  <2>1. Asserts(r) => AssertionAudit(r) \in auditLog
    BY <1>1, NewHistoryShape DEF AssertionInv, StagedInv, InFlight
  <2> QED
    BY <1>1, <1>6, <2>1, CommittedRows DEF AuditRefsResolve, status, owner
<1>11. ArchivedIsRecorded'
  <2>1. ~IsArchive(change[r]) /\ parcel'.status = "ARCHIVED" =>
           parcel.status = "ARCHIVED"
    BY <1>1, NewHistoryShape
       DEF Commit, UpdatedRow, CopyInv, InFlight, Fields
  <2> QED
    BY <1>6, <2>1, CommittedRows DEF ArchivedIsRecorded, status, owner
<1>12. LineageIsTree'
  <2>1. r # None
    BY NoneAssumption
  <2>2. IsTree(ownership) /\ IsTree(statuses)
    BY DEF LineageIsTree
  <2>3. IsTree(ownership \cup {owner})
    BY <1>6, <1>7, <2>1, <2>2, AddKeepsTree DEF LatestInv
  <2>4. IsTree(statuses \cup {status})
    BY <1>6, <1>7, <2>1, <2>2, AddKeepsTree DEF LatestInv
  <2>5. IsTree(ownership') /\ IsTree(statuses')
    BY <2>2, <2>3, <2>4, CommittedRows DEF owner, status
  <2>6. LineageIsTree' <=> IsTree(ownership') /\ IsTree(statuses')
    BY DEF LineageIsTree, IsTree, OneRoot, Linked, Lineage!ValidDag,
           Lineage!UniqueHashes, Lineage!Resolves, Lineage!Acyclic,
           Lineage!Hashes
  <2> QED
    BY <2>5, <2>6
<1> QED
  BY <1>3, <1>4, <1>5, <1>8, <1>9, <1>10, <1>11, <1>12

\* Nothing happens.
LEMMA StutterKeeps ==
    ASSUME HistoryInv, UNCHANGED vars PROVE HistoryInv'
<1> USE DEF HistoryInv, vars
<1>1. TypeOK' /\ LockInv' /\ CopyInv' /\ AssertionInv'
  BY DEF TypeOK, LockInv, CopyInv, AssertionInv
<1>2. StagedInv' /\ HistoryIsAtomic'
  BY SameHistory DEF StagedInv, HistoryIsAtomic
<1> QED
  BY <1>1, <1>2, TablesUntouched

\* Every step keeps the invariant.
LEMMA NextKeepsHistoryInv == HistoryInv /\ [Next]_vars => HistoryInv'
<1> SUFFICES ASSUME HistoryInv, [Next]_vars PROVE HistoryInv'
  OBVIOUS
<1>1. CASE UNCHANGED vars
  BY <1>1, StutterKeeps
<1>2. ASSUME NEW r \in Requests,
             \/ Begin(r) \/ Load(r) \/ Deny(r) \/ Refuse(r) \/ Reread(r)
             \/ Write(r) \/ AuditAssertion(r) \/ AuditMutation(r) \/ Respond(r)
             \/ Commit(r) \/ Fail(r)
      PROVE  HistoryInv'
  BY <1>2, EarlyStepKeeps, WriteKeeps, LateStepKeeps, CommitKeeps, FailKeeps
<1> QED
  BY <1>1, <1>2 DEF Next

-----------------------------------------------------------------------------
(***************************************************************************)
(* However many requests overlap.                                          *)
(***************************************************************************)
\* Whatever overlaps in update_parcel(), archive_parcel() and
\* set_geometry_reference(), the inductive invariant holds.
THEOREM HistoryInvariant == Spec => []HistoryInv
BY InitHistoryInv, NextKeepsHistoryInv, PTL DEF Spec

\* Columns, history rows and locks keep their types through every handler.
THEOREM TypeCorrect == Spec => []TypeOK
BY HistoryInvariant, PTL DEF HistoryInv

\* update_parcel() and archive_parcel() persist the parcel and its history row
\* in one transaction: neither is ever durable without the other.
THEOREM HistoryAlwaysAtomic == Spec => []HistoryIsAtomic
BY HistoryInvariant, PTL DEF HistoryInv

\* The audit_ref of a durable history row names a durable audit row.
THEOREM AuditRefsAlwaysResolve == Spec => []AuditRefsResolve
BY HistoryInvariant, PTL DEF HistoryInv

\* archive_parcel(): an archived parcel has the status row that says so, even
\* when another request writes its copy back over it.
THEOREM ArchivedAlwaysRecorded == Spec => []ArchivedIsRecorded
BY HistoryInvariant, PTL DEF HistoryInv

\* latest_ownership() and latest_status() are read under the row lock of the
\* flush, so that no two rows become roots and every supersedes_id resolves.
THEOREM LineagesAlwaysTrees == Spec => []LineageIsTree
BY HistoryInvariant, PTL DEF HistoryInv

-----------------------------------------------------------------------------
(***************************************************************************)
(* When no request begins while another is in flight.                      *)
(***************************************************************************)
Active(r) == pc[r] \notin Ended \cup {"idle"}

\* At most one request is between its first statement and its end.
OneActive == \A r, s \in Requests : Active(r) /\ Active(s) => r = s

\* The copies of the request in flight are the parcel.
CurrentInv ==
    \A r \in Requests :
        /\ pc[r] \in InFlight \cup {"loaded", "reread"} => loaded[r] = parcel
        /\ pc[r] \in InFlight \cup {"reread"} => base[r] = parcel

\* The request in flight is the last to have begun, after every durable row.
TimeInv ==
    /\ \A row \in ownership \cup statuses : row.recorded_at <= clock
    /\ \A r \in Requests : Active(r) =>
          /\ startedAt[r] = clock
          /\ \A row \in ownership \cup statuses : row.recorded_at < clock

\* Rows have different times, and supersede older ones.
Ordered(rows) ==
    /\ \A a, b \in rows : a.recorded_at = b.recorded_at => a = b
    /\ \A a, b \in rows : a.supersedes = b.id => b.recorded_at < a.recorded_at

SerialInv ==
    /\ OneActive /\ CurrentInv /\ TimeInv
    /\ Ordered(ownership) /\ Ordered(statuses)
    /\ SupersededOnce /\ HolderMatchesHistory

\* The row of the request in flight becomes the one latest row of its table,
\* and is the first to supersede the one before.
LEMMA AddKeepsOrder ==
    ASSUME NEW rows, NEW new, HasLatest(rows), IsTree(rows), Ordered(rows),
           Unforked(rows), new.supersedes = PriorId(rows),
           new.recorded_at \in Nat, new.id # None,
           \A row \in rows : /\ row.recorded_at \in Nat
                             /\ row.recorded_at < new.recorded_at
                             /\ row.id \notin {None, new.id}
    PROVE  /\ Ordered(rows \cup {new}) /\ Unforked(rows \cup {new})
           /\ Latest(rows \cup {new}) = {new}
<1>1. Latest(rows \cup {new}) = {new}
  BY DEF Latest
<1>2. CASE rows = {}
  <2>1. new.supersedes = None
    BY <1>2 DEF PriorId
  <2> QED
    BY <1>1, <1>2, <2>1 DEF Ordered, Unforked
<1>3. CASE rows # {}
  <2>1. PICK latest \in rows :
           /\ \A other \in rows : other.recorded_at <= latest.recorded_at
           /\ new.supersedes = latest.id
    BY <1>3 DEF HasLatest, PriorId, Latest
  <2>2. \A row \in rows : row.supersedes # latest.id
    BY <2>1 DEF Ordered
  <2>3. \A row \in rows : row.supersedes # new.id
    <3>1. ASSUME NEW row \in rows, row.supersedes = new.id PROVE FALSE
      <4> DEFINE d == [hash |-> row.id, prev_hash |-> row.supersedes]
      <4>1. d \in Linked(rows) /\ d.prev_hash = new.id
        BY <3>1 DEF Linked
      <4>2. new.id \in Lineage!Hashes(Linked(rows)) \cup {None}
        BY <4>1 DEF IsTree, Lineage!ValidDag, Lineage!Resolves
      <4> QED
        BY <4>2 DEF Lineage!Hashes, Linked
    <3> QED
      BY <3>1
  <2>4. \A b \in rows : b.id = latest.id => b.recorded_at < new.recorded_at
    OBVIOUS
  <2>5. Ordered(rows \cup {new})
    BY <2>1, <2>3, <2>4 DEF Ordered
  <2>6. Unforked(rows \cup {new})
    BY <2>1, <2>2 DEF Unforked
  <2> QED
    BY <1>1, <2>5, <2>6
<1> QED
  BY <1>2, <1>3

\* The history starts with the rows of create_parcel(), at time 0.
LEMMA InitSerialInv == Init => SerialInv
<1> SUFFICES ASSUME Init PROVE SerialInv
  OBVIOUS
<1>1. OneActive /\ CurrentInv
  BY DEF Init, OneActive, CurrentInv, Active, InFlight
<1>2. TimeInv
  BY DEF Init, TimeInv, Active, CreationRow
<1>3. \A value : /\ Ordered({CreationRow(value)}) /\ Unforked({CreationRow(value)})
                 /\ Latest({CreationRow(value)}) = {CreationRow(value)}
  BY CreationAssumption DEF Ordered, Unforked, CreationRow, Latest
<1>4. Ordered({}) /\ Unforked({})
  BY DEF Ordered, Unforked
<1>5. Ordered(ownership) /\ Ordered(statuses) /\ SupersededOnce
  BY <1>3, <1>4 DEF Init, SupersededOnce
<1>6. HolderMatchesHistory
  <2>1. CASE ownership = {}
    BY <2>1 DEF Init, HolderMatchesHistory
  <2>2. CASE ownership # {}
    <3>1. ownership = {CreationRow(HolderRef(parcel))}
      BY <2>2 DEF Init
    <3>2. Latest(ownership) = {CreationRow(HolderRef(parcel))}
      BY <1>3, <3>1
    <3>3. CreationRow(HolderRef(parcel)).value = HolderRef(parcel)
      BY DEF CreationRow
    <3> QED
      BY <2>2, <3>2, <3>3 DEF HolderMatchesHistory
  <2> QED
    BY <2>1, <2>2
<1> QED
  BY <1>1, <1>2, <1>5, <1>6 DEF SerialInv

\* A step of the request in flight that commits nothing.
LEMMA SerialStepKeeps ==
    ASSUME NEW r \in Requests, HistoryInv, SerialInv, HistoryInv', SerialNext,
           \/ Begin(r) \/ Load(r) \/ Deny(r) \/ Refuse(r) \/ Reread(r)
           \/ Write(r) \/ AuditAssertion(r) \/ AuditMutation(r) \/ Respond(r)
           \/ Fail(r)
    PROVE  SerialInv'
<1>1. UNCHANGED <<parcel, ownership, statuses, change>>
  BY DEF Begin, Load, Deny, Refuse, Reread, Write, AuditAssertion,
         AuditMutation, Respond, Fail
<1>2. /\ Ordered(ownership)' /\ Ordered(statuses)'
      /\ SupersededOnce' /\ HolderMatchesHistory'
  BY <1>1 DEF SerialInv, Ordered, SupersededOnce, Unforked,
              HolderMatchesHistory, HolderRef, Latest
<1>3. /\ \A s \in Requests \ {r} :
            /\ pc'[s] = pc[s] /\ loaded'[s] = loaded[s] /\ base'[s] = base[s]
            /\ startedAt'[s] = startedAt[s]
      /\ Active(r) \/ Begin(r)
      /\ Begin(r) => pc[r] = "idle" /\ pc'[r] = "begun"
  BY DEF Begin, Load, Deny, Refuse, Reread, Write, AuditAssertion,
         AuditMutation, Respond, Fail, HistoryInv, TypeOK, Active, Ended
<1>4. \A s \in Requests \ {r} : ~Active(s) /\ ~Active(s)'
  BY <1>3 DEF SerialInv, OneActive, SerialNext, Active
<1>5. OneActive'
  BY <1>4 DEF OneActive
<1>6. CurrentInv'
  <2>1. /\ pc'[r] \in InFlight \cup {"loaded", "reread"} => loaded'[r] = parcel
        /\ pc'[r] \in InFlight \cup {"reread"} => base'[r] = parcel
    BY DEF SerialInv, CurrentInv, HistoryInv, TypeOK, InFlight, Begin, Load,
           Deny, Refuse, Reread, Write, AuditAssertion, AuditMutation, Respond,
           Fail
  <2>2. \A s \in Requests \ {r} : pc'[s] \notin InFlight \cup {"loaded", "reread"}
    BY <1>4 DEF Active, Ended, InFlight
  <2> QED
    BY <1>1, <2>1, <2>2 DEF CurrentInv
<1>7. TimeInv'
  <2>1. clock \in Nat /\ \A row \in ownership \cup statuses : row.recorded_at \in Nat
    BY DEF HistoryInv, TypeOK, OwnershipRow, StatusRow, HistoryRow
  <2>2. CASE Begin(r)
    <3>1. clock' = clock + 1 /\ startedAt'[r] = clock'
      BY <2>2 DEF Begin, HistoryInv, TypeOK
    <3> QED
      BY <1>1, <1>4, <2>1, <3>1 DEF TimeInv, SerialInv
  <2>3. CASE ~Begin(r)
    <3>1. clock' = clock /\ startedAt'[r] = startedAt[r]
      BY <2>3 DEF Load, Deny, Refuse, Reread, Write, AuditAssertion,
                  AuditMutation, Respond, Fail
    <3> QED
      BY <1>1, <1>3, <1>4, <2>3, <3>1 DEF TimeInv, SerialInv
  <2> QED
    BY <2>2, <2>3
<1> QED
  BY <1>2, <1>5, <1>6, <1>7 DEF SerialInv

\* The commit writes the copy over the parcel it was made from.
LEMMA SerialCommit ==
    ASSUME NEW r \in Requests, HistoryInv, SerialInv, Commit(r)
    PROVE  parcel' = Copy(r) /\ parcel = loaded[r] /\ parcel.status = "ACTIVE"
<1>1. loaded[r] = parcel /\ base[r] = parcel /\ parcel.status = "ACTIVE"
  BY DEF SerialInv, CurrentInv, HistoryInv, CopyInv, Commit, InFlight
<1>2. UpdatedRow(r) = Copy(r)
  BY <1>1 DEF UpdatedRow, Copy
<1> QED
  BY <1>1, <1>2 DEF Commit

\* The commit of the only request in flight.
LEMMA SerialCommitKeeps ==
    ASSUME NEW r \in Requests, HistoryInv, SerialInv, HistoryInv', Commit(r)
    PROVE  SerialInv'
<1> DEFINE status == Assertion(r, statuses, "ARCHIVED")
<1> DEFINE owner == Assertion(r, ownership, HolderRef(Copy(r)))
<1>1. /\ Active(r) /\ ~Active(r)' /\ clock' = clock
      /\ \A s \in Requests \ {r} : pc'[s] = pc[s]
  BY DEF Commit, HistoryInv, TypeOK, Active, Ended
<1>2. \A s \in Requests : ~Active(s)'
  BY <1>1 DEF SerialInv, OneActive, Active
<1>3. OneActive' /\ CurrentInv'
  BY <1>2 DEF OneActive, CurrentInv, Active, Ended, InFlight
<1>4. /\ \A row \in ownership \cup statuses :
            /\ row.recorded_at \in Nat /\ row.recorded_at < clock
            /\ row.id \notin {None, r}
      /\ clock \in Nat
  BY <1>1, NoneAssumption, CreationAssumption
     DEF SerialInv, TimeInv, HistoryInv, TypeOK, OwnershipRow, StatusRow,
         HistoryRow, HistoryIsAtomic, Commit
<1>5. /\ status.id = r /\ status.supersedes = PriorId(statuses)
      /\ status.recorded_at = clock
      /\ owner.id = r /\ owner.supersedes = PriorId(ownership)
      /\ owner.recorded_at = clock /\ owner.value = HolderRef(Copy(r))
  BY <1>1 DEF Assertion, SerialInv, TimeInv
<1> HIDE DEF status, owner
<1>6. TimeInv'
  BY <1>1, <1>2, <1>4, <1>5, CommittedRows DEF TimeInv, status, owner
<1>7. r # None
  BY NoneAssumption
<1>8. /\ Ordered(statuses \cup {status}) /\ Unforked(statuses \cup {status})
  <2>1. /\ HasLatest(statuses) /\ IsTree(statuses)
        /\ Ordered(statuses) /\ Unforked(statuses)
    BY DEF SerialInv, SupersededOnce, HistoryInv, LatestInv, LineageIsTree
  <2>2. /\ status.recorded_at \in Nat /\ status.id # None
        /\ status.supersedes = PriorId(statuses)
        /\ \A row \in statuses : /\ row.recorded_at \in Nat
                             /\ row.recorded_at < status.recorded_at
                             /\ row.id \notin {None, status.id}
    BY <1>4, <1>5, <1>7
  <2> QED
    BY <2>1, <2>2, AddKeepsOrder
<1>9. /\ Ordered(ownership \cup {owner}) /\ Unforked(ownership \cup {owner})
      /\ Latest(ownership \cup {owner}) = {owner}
  <2>1. /\ HasLatest(ownership) /\ IsTree(ownership)
        /\ Ordered(ownership) /\ Unforked(ownership)
    BY DEF SerialInv, SupersededOnce, HistoryInv, LatestInv, LineageIsTree
  <2>2. /\ owner.recorded_at \in Nat /\ owner.id # None
        /\ owner.supersedes = PriorId(ownership)
        /\ \A row \in ownership : /\ row.recorded_at \in Nat
                             /\ row.recorded_at < owner.recorded_at
                             /\ row.id \notin {None, owner.id}
    BY <1>4, <1>5, <1>7
  <2> QED
    BY <2>1, <2>2, AddKeepsOrder
<1>10. /\ Ordered(ownership') /\ Ordered(statuses')
       /\ Unforked(ownership') /\ Unforked(statuses')
  BY <1>8, <1>9, CommittedRows DEF SerialInv, SupersededOnce, status, owner
<1>11. HolderRef(parcel') =
          IF ownership' = {} THEN None
          ELSE (CHOOSE row \in Latest(ownership') : TRUE).value
  <2>1. CASE ownership' = ownership \cup {owner}
    BY <1>5, <1>9, <2>1, SerialCommit
  <2>2. CASE ownership' = ownership /\ ~(IsUpdate(change[r]) /\ Asserts(r))
    <3>1. HolderRef(Copy(r)) = HolderRef(loaded[r])
      <4>1. CASE IsUpdate(change[r])
        BY <2>2, <4>1 DEF Asserts
      <4>2. CASE IsArchive(change[r]) \/ IsGeometry(change[r])
        BY <4>2 DEF IsArchive, IsGeometry, HolderRef, Copy, Fields
      <4> QED
        BY <4>1, <4>2, ChangesAssumption DEF HistoryInv, TypeOK
    <3> QED
      BY <2>2, <3>1, SerialCommit DEF SerialInv, HolderMatchesHistory
  <2> QED
    BY <2>1, <2>2, CommittedRows, NewHistoryShape DEF owner, HistoryInv
<1>12. HolderMatchesHistory' /\ SupersededOnce'
  BY <1>10, <1>11
     DEF HolderMatchesHistory, SupersededOnce, Unforked, HolderRef, Latest
<1>13. Ordered(ownership)' /\ Ordered(statuses)'
  BY <1>10 DEF Ordered
<1> QED
  BY <1>3, <1>6, <1>12, <1>13 DEF SerialInv

\* Every step of requests that follow each other keeps both invariants.
LEMMA SerialKeeps ==
    ASSUME HistoryInv, SerialInv, [SerialNext]_vars
    PROVE  HistoryInv' /\ SerialInv'
<1>1. HistoryInv'
  BY NextKeepsHistoryInv DEF SerialNext
<1>2. CASE UNCHANGED vars
  <2>1. OneActive' /\ CurrentInv' /\ TimeInv'
    BY <1>2 DEF vars, SerialInv, OneActive, Active, CurrentInv, TimeInv
  <2>2. Ordered(ownership)' /\ Ordered(statuses)' /\ SupersededOnce'
    BY <1>2 DEF vars, SerialInv, Ordered, SupersededOnce, Unforked
  <2>3. HolderMatchesHistory'
    BY <1>2 DEF vars, SerialInv, HolderMatchesHistory, HolderRef, Latest
  <2> QED
    BY <1>1, <2>1, <2>2, <2>3 DEF SerialInv
<1>3. CASE SerialNext
  BY <1>1, <1>3, SerialStepKeeps, SerialCommitKeeps DEF SerialNext, Next
<1> QED
  BY <1>1, <1>2, <1>3

\* When the handlers run one after the other, the copies they hold are current.
THEOREM SerialInvariant == SerialSpec => [](HistoryInv /\ SerialInv)
<1>1. Init => HistoryInv /\ SerialInv
  BY InitHistoryInv, InitSerialInv
<1>2. HistoryInv /\ SerialInv /\ [SerialNext]_vars => (HistoryInv /\ SerialInv)'
  BY SerialKeeps
<1> QED
  BY <1>1, <1>2, PTL DEF SerialSpec

\* Requests that follow each other never supersede one history row twice.
THEOREM SerialSupersededOnce == SerialSpec => []SupersededOnce
BY SerialInvariant, PTL DEF SerialInv

\* The latest ownership row asserts the holder that update_parcel() stored.
THEOREM SerialHolderMatches == SerialSpec => []HolderMatchesHistory
BY SerialInvariant, PTL DEF SerialInv

\* Only Commit writes the parcel's row.
LEMMA OnlyCommitWrites ==
    ASSUME Next, parcel' # parcel PROVE \E r \in Requests : Commit(r)
BY DEF Next, Begin, Load, Deny, Refuse, Reread, Write, AuditAssertion,
       AuditMutation, Respond, Fail

\* _ensure_mutable(): an archived parcel is never written again.
THEOREM SerialArchivedFrozen == SerialSpec => ArchivedIsFrozen
<1>1. HistoryInv /\ SerialInv /\ [SerialNext]_vars =>
         [parcel.status = "ARCHIVED" => UNCHANGED parcel]_vars
  BY OnlyCommitWrites, SerialCommit DEF SerialNext
<1> QED
  BY <1>1, SerialInvariant, PTL DEF SerialSpec, ArchivedIsFrozen

\* exclude_unset: a field the client has not sent keeps its value.
THEOREM SerialUnsentUnchanged == SerialSpec => UnsentFieldsUnchanged
<1> DEFINE Kept == \A r \in Requests :
                      pc[r] = "responded" /\ pc'[r] = "committed" =>
                         \A f \in Fields \ DOMAIN change[r] : parcel'[f] = parcel[f]
<1>1. ASSUME HistoryInv, SerialInv, SerialNext, NEW r \in Requests,
             pc[r] = "responded", pc'[r] = "committed"
      PROVE  \A f \in Fields \ DOMAIN change[r] : parcel'[f] = parcel[f]
  <2>1. Commit(r)
    BY <1>1 DEF SerialNext, Next, Begin, Load, Deny, Refuse, Reread, Write,
                AuditAssertion, AuditMutation, Respond, Commit, Fail, HistoryInv, TypeOK
  <2>2. parcel' = Copy(r) /\ parcel = loaded[r]
    BY <1>1, <2>1, SerialCommit
  <2> QED
    BY <2>2 DEF Copy
<1>2. HistoryInv /\ SerialInv /\ [SerialNext]_vars => [Kept]_vars
  BY <1>1
<1> QED
  BY <1>2, SerialInvariant, PTL DEF SerialSpec, UnsentFieldsUnchanged
===============================================================================
