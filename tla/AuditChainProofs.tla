--------------------------- MODULE AuditChainProofs ---------------------------
(***************************************************************************)
(* Theorems about the log that AuditChain writes, for any number of        *)
(* requests, any clock and any number of audit calls; about the verifier   *)
(* of VerifyChain, for tables of any size; and about the two together.     *)
(***************************************************************************)
EXTENDS AuditChain, VerifyChain, FiniteSetTheorems, TLAPS

-----------------------------------------------------------------------------
(***************************************************************************)
(* The graph, whatever the rows are and however many: adding a row and     *)
(* merging two tables keep a valid DAG.                                    *)
(***************************************************************************)

\* An empty audit_log table verifies.
LEMMA EmptyIsValid == ValidDag({})
BY DEF ValidDag, UniqueHashes, Resolves, Acyclic, Hashes

\* Appending a row with a fresh hash, below a row of the table or below
\* genesis, keeps the table valid: what append() and append_staged() do.
LEMMA AddRowKeepsValid ==
    ASSUME NEW rows, NEW e,
           ValidDag(rows),
           e.hash \notin Hashes(rows) \cup {GENESIS_HASH},
           e.prev_hash \in Hashes(rows) \cup {GENESIS_HASH}
    PROVE  ValidDag(rows \cup {e})
<1> DEFINE all == rows \cup {e}
<1>1. UniqueHashes(all)
  BY DEF ValidDag, UniqueHashes, Hashes
<1>2. Resolves(all)
  BY DEF ValidDag, Resolves, Hashes
<1>3. Acyclic(all)
  <2>1. SUFFICES ASSUME NEW part \in SUBSET all, part # {}
                 PROVE  \E f \in part : f.prev_hash \notin Hashes(part)
    BY DEF Acyclic
  <2>2. CASE part \subseteq {e}
    BY <2>1, <2>2 DEF Hashes
  <2>3. CASE ~(part \subseteq {e})
    <3>1. PICK f \in part \ {e} : f.prev_hash \notin Hashes(part \ {e})
      <4>1. part \ {e} \in SUBSET rows /\ part \ {e} # {}
        BY <2>3
      <4>2. QED
        BY <4>1 DEF ValidDag, Acyclic
    <3>2. f.prev_hash # e.hash
      BY DEF ValidDag, Resolves
    <3>3. f.prev_hash \notin Hashes(part)
      BY <3>1, <3>2 DEF Hashes
    <3>4. QED
      BY <3>1, <3>3
  <2>4. QED
    BY <2>2, <2>3
<1>4. QED
  BY <1>1, <1>2, <1>3 DEF ValidDag

\* Two tables that extend one table with rows of different hashes merge into a
\* valid one: what the commit of a staged request does to the view of every
\* other request in flight.
LEMMA MergeKeepsValid ==
    ASSUME NEW base, NEW left, NEW right,
           ValidDag(base \cup left),
           ValidDag(base \cup right),
           Hashes(left) \cap Hashes(right) = {},
           GENESIS_HASH \notin Hashes(right)
    PROVE  ValidDag((base \cup left) \cup right)
<1> DEFINE all == (base \cup left) \cup right
<1>1. UniqueHashes(all)
  <2>1. SUFFICES ASSUME NEW e \in all, NEW f \in all, e.hash = f.hash
                 PROVE  e = f
    BY DEF UniqueHashes
  <2>2. ~(e \in left /\ f \in right) /\ ~(e \in right /\ f \in left)
    BY <2>1 DEF Hashes
  <2>3. QED
    BY <2>1, <2>2 DEF ValidDag, UniqueHashes
<1>2. Resolves(all)
  BY DEF ValidDag, Resolves, Hashes
<1>3. Acyclic(all)
  <2>1. SUFFICES ASSUME NEW part \in SUBSET all, part # {}
                 PROVE  \E e \in part : e.prev_hash \notin Hashes(part)
    BY DEF Acyclic
  <2> DEFINE older == part \cap (base \cup left)
  <2>2. CASE older = {}
    <3>1. part \in SUBSET (base \cup right)
      BY <2>2
    <3>2. QED
      BY <2>1, <3>1 DEF ValidDag, Acyclic
  <2>3. CASE older # {}
    <3>1. PICK e \in older : e.prev_hash \notin Hashes(older)
      BY <2>3 DEF ValidDag, Acyclic
    <3>2. e.prev_hash \in Hashes(base \cup left) \cup {GENESIS_HASH}
      BY <3>1 DEF ValidDag, Resolves
    <3>3. ASSUME NEW f \in part, f.hash = e.prev_hash PROVE FALSE
      <4>1. f \in right /\ f \notin base \cup left
        BY <3>1, <3>3 DEF Hashes
      <4>2. e.prev_hash # GENESIS_HASH
        BY <3>3, <4>1 DEF Hashes
      <4>3. PICK g \in base \cup left : g.hash = e.prev_hash
        BY <3>2, <4>2 DEF Hashes
      <4>4. g \notin left
        BY <3>3, <4>1, <4>3 DEF Hashes
      <4>5. f = g
        BY <3>3, <4>1, <4>3, <4>4 DEF ValidDag, UniqueHashes
      <4>6. QED
        BY <4>1, <4>5
    <3>4. QED
      BY <3>1, <3>3 DEF Hashes
  <2>4. QED
    BY <2>2, <2>3
<1>4. QED
  BY <1>1, <1>2, <1>3 DEF ValidDag
-----------------------------------------------------------------------------
\* The requests that audit what they write are among those of RefreshSpec: what
\* is proved of RefreshSpec holds for Spec.
THEOREM RefreshesIncluded == Spec => RefreshSpec
<1>1. [Next]_vars => [RefreshNext]_vars
  BY DEF RefreshNext
<1>2. QED
  BY <1>1, PTL DEF Spec, RefreshSpec

\* Every step leaves the variables of the backend well formed.
LEMMA StepKeepsTypes ==
    ASSUME TypeOK, [RefreshNext]_vars
    PROVE  TypeOK'
<1> USE DEF TypeOK, PCs
<1>1. ASSUME NEW r \in Requests, NEW t \in Times
      PROVE  NewRow(r, t) \in Row
  BY DEF NewRow, Row, Hash
<1>2. ASSUME NEW r \in Requests, Begin(r) PROVE TypeOK'
  BY <1>2 DEF Begin
<1>3. ASSUME NEW r \in Requests, Mutate(r) PROVE TypeOK'
  BY <1>3 DEF Mutate
<1>4. ASSUME NEW r \in Requests, ReadLastHash(r) PROVE TypeOK'
  <2>1. LastHash(Store(r)) \subseteq Hash \cup {GENESIS_HASH}
    BY DEF Store, Visible, LastHash, Row
  <2>2. QED
    BY <1>4, <2>1 DEF ReadLastHash
<1>5. ASSUME NEW r \in Requests, AppendEager(r) PROVE TypeOK'
  BY <1>1, <1>5 DEF AppendEager
<1>6. ASSUME NEW r \in Requests, AppendStaged(r) PROVE TypeOK'
  BY <1>1, <1>6 DEF AppendStaged
<1>7. ASSUME NEW r \in Requests, RespondEager(r) PROVE TypeOK'
  BY <1>7 DEF RespondEager
<1>8. ASSUME NEW r \in Requests, CommitEager(r) PROVE TypeOK'
  BY <1>8 DEF CommitEager, CommitTxn
<1>9. ASSUME NEW r \in Requests, CommitStaged(r) PROVE TypeOK'
  BY <1>9 DEF CommitStaged, CommitTxn
<1>10. ASSUME NEW r \in Requests, RespondStaged(r) PROVE TypeOK'
  BY <1>10 DEF RespondStaged
<1>11. ASSUME NEW r \in Requests, Reject(r) PROVE TypeOK'
  BY <1>11 DEF Reject, CommitTxn
<1>12. ASSUME NEW r \in Requests, Fail(r) PROVE TypeOK'
  BY <1>12 DEF Fail
<1>13. ASSUME NEW r \in Requests, RevokeAndReject(r) PROVE TypeOK'
  BY <1>13 DEF RevokeAndReject, CommitTxn
<1>14. CASE UNCHANGED vars
  BY <1>14 DEF vars
<1>15. QED
  BY <1>2, <1>3, <1>4, <1>5, <1>6, <1>7, <1>8, <1>9, <1>10, <1>11, <1>12,
     <1>13, <1>14
     DEF Next, RefreshNext

\* The variables of the backend are well formed, whichever requests run.
THEOREM TypeCorrect == RefreshSpec => []TypeOK
<1>1. Init => TypeOK
  BY DEF Init, TypeOK, PCs
<1>2. TypeOK /\ [RefreshNext]_vars => TypeOK'
  BY StepKeepsTypes
<1>3. QED
  BY <1>1, <1>2, PTL DEF RefreshSpec
-----------------------------------------------------------------------------
\* last_hash() returns the hash of a row it sees, or genesis.
LEMMA LastHashIsSeen ==
    ASSUME NEW rows PROVE LastHash(rows) \subseteq Hashes(rows) \cup {GENESIS_HASH}
BY DEF LastHash, Hashes

\* The next row of a request carries a hash no visible row carries.
LEMMA NewRowIsFresh ==
    ASSUME TypeOK, ChainInv, NEW r \in Requests, NEW s \in Requests,
           NEW t \in Times
    PROVE  NewRow(r, t).hash \notin Hashes(Visible(s)) \cup {GENESIS_HASH}
<1>1. NewRow(r, t).hash = <<r, count[r] + 1>> /\ count[r] \in Nat
  BY DEF NewRow, TypeOK
<1>2. ASSUME NEW e \in Visible(s), e.hash = <<r, count[r] + 1>> PROVE FALSE
  <2>1. e.hash[1] = r /\ e.hash[2] = count[r] + 1
    BY <1>2
  <2>2. e.hash[2] <= count[r]
    BY <1>2, <2>1 DEF ChainInv, Named
  <2>3. QED
    BY <1>1, <2>1, <2>2
<1>3. QED
  BY <1>1, <1>2, GenesisAssumption DEF Hashes

\* The rows two requests have staged have different hashes.
LEMMA StagedHashesDiffer ==
    ASSUME TypeOK, ChainInv, NEW r \in Requests, NEW s \in Requests, r # s
    PROVE  /\ Hashes(staged[r]) \cap Hashes(staged[s]) = {}
           /\ GENESIS_HASH \notin Hashes(staged[s])
<1>1. GENESIS_HASH \notin Hashes(staged[s])
  <2>1. \A e \in staged[s] : e.hash \in Requests \X Nat
    BY DEF TypeOK, Row, Hash
  <2>2. QED
    BY <2>1, GenesisAssumption DEF Hashes
<1>2. ASSUME NEW e \in staged[r], NEW f \in staged[s] PROVE e.hash # f.hash
  BY DEF ChainInv
<1>3. QED
  BY <1>1, <1>2 DEF Hashes

\* A commit keeps every view of the log valid.
LEMMA CommitKeepsChain ==
    ASSUME TypeOK, ChainInv, NEW r \in Requests, CommitTxn(r),
           count' = count
    PROVE  /\ \A s, u \in Requests : Named(u, Visible(s))'
           /\ \A s \in Requests : \A e \in staged'[s] : e.hash[1] = s
           /\ ValidDag(auditLog')
           /\ \A s \in Requests : ValidDag(Visible(s)')
<1>1. staged'[r] = {} /\ \A s \in Requests \ {r} : staged'[s] = staged[s]
  BY DEF CommitTxn, TypeOK
<1>2. auditLog' = Visible(r)
  BY DEF CommitTxn, Visible
<1>3. Visible(r)' = Visible(r)
  BY <1>1, <1>2 DEF Visible
<1>4. \A s \in Requests \ {r} :
         Visible(s)' = (auditLog \cup staged[r]) \cup staged[s]
  BY <1>1, <1>2 DEF Visible
<1>5. \A s, u \in Requests : Named(u, Visible(s))'
  <2>1. SUFFICES ASSUME NEW s \in Requests, NEW u \in Requests,
                        NEW e \in Visible(s)', e.hash[1] = u
                 PROVE  e.hash[2] <= count[u]
    BY DEF Named
  <2>2. e \in Visible(r) \/ e \in Visible(s)
    BY <1>3, <1>4 DEF Visible
  <2>3. QED
    BY <2>1, <2>2 DEF ChainInv, Named
<1>6. \A s \in Requests : \A e \in staged'[s] : e.hash[1] = s
  BY <1>1 DEF ChainInv
<1>7. ValidDag(auditLog')
  BY <1>2 DEF ChainInv
<1>8. ASSUME NEW s \in Requests PROVE ValidDag(Visible(s)')
  <2>1. CASE s = r
    BY <1>3, <2>1 DEF ChainInv
  <2>2. CASE s # r
    <3>1. ValidDag(auditLog \cup staged[r]) /\ ValidDag(auditLog \cup staged[s])
      BY DEF ChainInv, Visible
    <3>2. /\ Hashes(staged[r]) \cap Hashes(staged[s]) = {}
          /\ GENESIS_HASH \notin Hashes(staged[s])
      BY <2>2, StagedHashesDiffer
    <3>3. ValidDag((auditLog \cup staged[r]) \cup staged[s])
      BY <3>1, <3>2, MergeKeepsValid
    <3>4. QED
      BY <1>4, <2>2, <3>3
  <2>3. QED
    BY <2>1, <2>2
<1>9. QED
  BY <1>5, <1>6, <1>7, <1>8

\* After a commit the predecessors held by the audit calls in progress are
\* still rows they can see: nothing visible to them has gone.
LEMMA CommitKeepsPredecessors ==
    ASSUME TypeOK, ChainInv, NEW r \in Requests, CommitTxn(r),
           mode' = mode, prev' = prev,
           \A s \in Requests : pc'[s] = "building" => pc[s] = "building"
    PROVE  \A s \in Requests :
              pc'[s] = "building" =>
                 prev'[s] \in Hashes(Store(s)') \cup {GENESIS_HASH}
<1>1. \A s \in Requests : Store(s) \subseteq Store(s)'
  BY DEF Store, Visible, CommitTxn, TypeOK
<1>2. QED
  BY <1>1 DEF ChainInv, Hashes
\* A step that changes no row, no count and no predecessor, and starts no audit
\* call, keeps the invariant.
LEMMA QuietStepKeepsChain ==
    ASSUME ChainInv, UNCHANGED <<auditLog, staged, mode, prev, count>>,
           \A s \in Requests : pc'[s] = "building" => pc[s] = "building"
    PROVE  ChainInv'
BY DEF ChainInv, Named, Visible, Store

\* The inductive step of the DAG argument, one case per action.
LEMMA StepKeepsChain ==
    ASSUME TypeOK, ChainInv, [RefreshNext]_vars
    PROVE  ChainInv'
<1>1. ASSUME NEW r \in Requests, Begin(r) PROVE ChainInv'
  BY <1>1, QuietStepKeepsChain DEF Begin, TypeOK
<1>2. ASSUME NEW r \in Requests, Mutate(r) PROVE ChainInv'
  BY <1>2, QuietStepKeepsChain DEF Mutate
<1>3. ASSUME NEW r \in Requests, ReadLastHash(r) PROVE ChainInv'
  <2>1. /\ UNCHANGED <<auditLog, staged, mode, count>>
        /\ \A s \in Requests : Visible(s)' = Visible(s) /\ Store(s)' = Store(s)
    BY <1>3 DEF ReadLastHash, Visible, Store
  <2>2. ASSUME NEW s \in Requests, pc'[s] = "building"
        PROVE  prev'[s] \in Hashes(Store(s)') \cup {GENESIS_HASH}
    <3>1. CASE s = r
      <4>1. prev'[r] \in LastHash(Store(r))
        BY <1>3 DEF ReadLastHash, TypeOK
      <4>2. QED
        BY <2>1, <3>1, <4>1, LastHashIsSeen
    <3>2. CASE s # r
      <4>1. pc[s] = "building" /\ prev'[s] = prev[s]
        BY <1>3, <2>2, <3>2 DEF ReadLastHash, TypeOK
      <4>2. QED
        BY <2>1, <4>1 DEF ChainInv
    <3>3. QED
      BY <3>1, <3>2
  <2>3. QED
    BY <2>1, <2>2 DEF ChainInv, Named
<1>4. ASSUME NEW r \in Requests, AppendEager(r) PROVE ChainInv'
  <2>1. PICK t \in Times : auditLog' = auditLog \cup {NewRow(r, t)}
    BY <1>4 DEF AppendEager
  <2> DEFINE row == NewRow(r, t)
  <2>2. /\ row.hash = <<r, count[r] + 1>>
        /\ row.prev_hash \in Hashes(auditLog) \cup {GENESIS_HASH}
    BY <1>4 DEF AppendEager, NewRow, ChainInv, Store
  <2>3. \A s \in Requests : Visible(s)' = Visible(s) \cup {row}
    BY <1>4, <2>1 DEF AppendEager, Visible
  <2>4. /\ staged' = staged
        /\ mode' = mode
        /\ prev' = prev
        /\ count'[r] = count[r] + 1
        /\ \A s \in Requests \ {r} : count'[s] = count[s]
        /\ \A s \in Requests : pc'[s] = "building" => pc[s] = "building"
    BY <1>4 DEF AppendEager, TypeOK
  <2>5. \A s, u \in Requests : Named(u, Visible(s))'
    <3>1. SUFFICES ASSUME NEW s \in Requests, NEW u \in Requests,
                          NEW e \in Visible(s)', e.hash[1] = u
                   PROVE  e.hash[2] <= count'[u]
      BY DEF Named
    <3>2. count[u] \in Nat /\ count[r] \in Nat
      BY DEF TypeOK
    <3>3. CASE e = row
      BY <2>2, <2>4, <3>1, <3>2, <3>3
    <3>4. CASE e \in Visible(s)
      <4>1. e.hash[2] <= count[u] /\ e.hash[2] \in Nat
        BY <3>1, <3>4 DEF ChainInv, Named, TypeOK, Visible, Row, Hash
      <4>2. QED
        BY <2>4, <3>2, <4>1
    <3>5. QED
      BY <2>3, <3>3, <3>4
  <2>6. \A s \in Requests : \A e \in staged'[s] : e.hash[1] = s
    BY <2>4 DEF ChainInv
  <2>7. ASSUME NEW s \in Requests, pc'[s] = "building"
        PROVE  prev'[s] \in Hashes(Store(s)') \cup {GENESIS_HASH}
    <3>1. Store(s) \subseteq Store(s)'
      BY <2>1, <2>3, <2>4 DEF Store
    <3>2. QED
      BY <2>4, <2>7, <3>1 DEF ChainInv, Hashes
  <2>8. ASSUME NEW s \in Requests PROVE ValidDag(Visible(s)')
    <3>1. /\ ValidDag(Visible(s))
          /\ row.hash \notin Hashes(Visible(s)) \cup {GENESIS_HASH}
      BY NewRowIsFresh DEF ChainInv
    <3>2. row.prev_hash \in Hashes(Visible(s)) \cup {GENESIS_HASH}
      BY <2>2 DEF Visible, Hashes
    <3>3. ValidDag(Visible(s) \cup {row})
      BY <3>1, <3>2, AddRowKeepsValid
    <3>4. QED
      BY <2>3, <3>3
  <2>9. ValidDag(auditLog')
    <3>1. row.hash \notin Hashes(auditLog) \cup {GENESIS_HASH}
      BY NewRowIsFresh DEF Visible, Hashes
    <3>2. ValidDag(auditLog \cup {row})
      BY <2>2, <3>1, AddRowKeepsValid DEF ChainInv
    <3>3. QED
      BY <2>1, <3>2
  <2>10. QED
    BY <2>5, <2>6, <2>7, <2>8, <2>9 DEF ChainInv
<1>5. ASSUME NEW r \in Requests, AppendStaged(r) PROVE ChainInv'
  <2>1. PICK t \in Times :
           staged' = [staged EXCEPT ![r] = @ \cup {NewRow(r, t)}]
    BY <1>5 DEF AppendStaged
  <2> DEFINE row == NewRow(r, t)
  <2>2. /\ row.hash = <<r, count[r] + 1>>
        /\ row.prev_hash \in Hashes(Visible(r)) \cup {GENESIS_HASH}
    BY <1>5 DEF AppendStaged, NewRow, ChainInv, Store
  <2>3. /\ Visible(r)' = Visible(r) \cup {row}
        /\ \A s \in Requests \ {r} : Visible(s)' = Visible(s)
    BY <1>5, <2>1 DEF AppendStaged, Visible, TypeOK
  <2>4. /\ auditLog' = auditLog
        /\ mode' = mode
        /\ prev' = prev
        /\ count'[r] = count[r] + 1
        /\ \A s \in Requests \ {r} : count'[s] = count[s]
        /\ \A s \in Requests : pc'[s] = "building" => pc[s] = "building"
    BY <1>5 DEF AppendStaged, TypeOK
  <2>5. \A s, u \in Requests : Named(u, Visible(s))'
    <3>1. SUFFICES ASSUME NEW s \in Requests, NEW u \in Requests,
                          NEW e \in Visible(s)', e.hash[1] = u
                   PROVE  e.hash[2] <= count'[u]
      BY DEF Named
    <3>2. count[u] \in Nat /\ count[r] \in Nat
      BY DEF TypeOK
    <3>3. CASE e = row
      BY <2>2, <2>4, <3>1, <3>2, <3>3
    <3>4. CASE e \in Visible(s)
      <4>1. e.hash[2] <= count[u] /\ e.hash[2] \in Nat
        BY <3>1, <3>4 DEF ChainInv, Named, TypeOK, Visible, Row, Hash
      <4>2. QED
        BY <2>4, <3>2, <4>1
    <3>5. QED
      BY <2>3, <3>3, <3>4
  <2>6. \A s \in Requests : \A e \in staged'[s] : e.hash[1] = s
    BY <2>1, <2>2 DEF ChainInv, TypeOK
  <2>7. ASSUME NEW s \in Requests, pc'[s] = "building"
        PROVE  prev'[s] \in Hashes(Store(s)') \cup {GENESIS_HASH}
    <3>1. Store(s) \subseteq Store(s)'
      BY <2>3, <2>4 DEF Store
    <3>2. QED
      BY <2>4, <2>7, <3>1 DEF ChainInv, Hashes
  <2>8. ASSUME NEW s \in Requests PROVE ValidDag(Visible(s)')
    <3>1. CASE s = r
      <4>1. /\ ValidDag(Visible(r))
            /\ row.hash \notin Hashes(Visible(r)) \cup {GENESIS_HASH}
        BY NewRowIsFresh DEF ChainInv
      <4>2. ValidDag(Visible(r) \cup {row})
        BY <2>2, <4>1, AddRowKeepsValid
      <4>3. QED
        BY <2>3, <3>1, <4>2
    <3>2. CASE s # r
      BY <2>3, <3>2 DEF ChainInv
    <3>3. QED
      BY <3>1, <3>2
  <2>9. ValidDag(auditLog')
    BY <2>4 DEF ChainInv
  <2>10. QED
    BY <2>5, <2>6, <2>7, <2>8, <2>9 DEF ChainInv
<1>6. ASSUME NEW r \in Requests, RespondEager(r) PROVE ChainInv'
  BY <1>6, QuietStepKeepsChain DEF RespondEager, TypeOK
<1>7. ASSUME NEW r \in Requests, CommitEager(r) PROVE ChainInv'
  <2>1. CommitTxn(r) /\ UNCHANGED <<mode, prev, count>>
    BY <1>7 DEF CommitEager
  <2>2. \A s \in Requests : pc'[s] = "building" => pc[s] = "building"
    BY <1>7 DEF CommitEager, TypeOK
  <2>3. QED
    BY <2>1, <2>2, CommitKeepsChain, CommitKeepsPredecessors DEF ChainInv
<1>8. ASSUME NEW r \in Requests, CommitStaged(r) PROVE ChainInv'
  <2>1. CommitTxn(r) /\ UNCHANGED <<mode, prev, count>>
    BY <1>8 DEF CommitStaged
  <2>2. \A s \in Requests : pc'[s] = "building" => pc[s] = "building"
    BY <1>8 DEF CommitStaged, TypeOK
  <2>3. QED
    BY <2>1, <2>2, CommitKeepsChain, CommitKeepsPredecessors DEF ChainInv
<1>9. ASSUME NEW r \in Requests, RespondStaged(r) PROVE ChainInv'
  BY <1>9, QuietStepKeepsChain DEF RespondStaged
<1>10. ASSUME NEW r \in Requests, Reject(r) PROVE ChainInv'
  <2>1. CommitTxn(r) /\ UNCHANGED <<mode, prev, count>>
    BY <1>10 DEF Reject
  <2>2. \A s \in Requests : pc'[s] = "building" => pc[s] = "building"
    BY <1>10 DEF Reject, TypeOK
  <2>3. QED
    BY <2>1, <2>2, CommitKeepsChain, CommitKeepsPredecessors DEF ChainInv
<1>11. ASSUME NEW r \in Requests, Fail(r) PROVE ChainInv'
  <2>1. /\ UNCHANGED <<auditLog, mode, prev, count>>
        /\ pc'[r] # "building"
        /\ staged'[r] = {}
        /\ \A s \in Requests \ {r} : staged'[s] = staged[s] /\ pc'[s] = pc[s]
    BY <1>11 DEF Fail, TypeOK
  <2>2. /\ Visible(r)' = auditLog
        /\ \A s \in Requests \ {r} : Visible(s)' = Visible(s)
                                    /\ Store(s)' = Store(s)
    BY <2>1 DEF Visible, Store
  <2>3. \A s, u \in Requests : Named(u, Visible(s))'
    <3>1. \A s \in Requests : Visible(s)' \subseteq Visible(s)
      BY <2>2 DEF Visible
    <3>2. QED
      BY <2>1, <3>1 DEF ChainInv, Named
  <2>4. \A s \in Requests : \A e \in staged'[s] : e.hash[1] = s
    BY <2>1 DEF ChainInv
  <2>5. \A s \in Requests :
           pc'[s] = "building" =>
              prev'[s] \in Hashes(Store(s)') \cup {GENESIS_HASH}
    BY <2>1, <2>2 DEF ChainInv
  <2>6. ValidDag(auditLog') /\ \A s \in Requests : ValidDag(Visible(s)')
    BY <2>1, <2>2 DEF ChainInv
  <2>7. QED
    BY <2>3, <2>4, <2>5, <2>6 DEF ChainInv
<1>12. ASSUME NEW r \in Requests, RevokeAndReject(r) PROVE ChainInv'
  <2>1. CommitTxn(r) /\ UNCHANGED <<mode, prev, count>>
    BY <1>12 DEF RevokeAndReject
  <2>2. \A s \in Requests : pc'[s] = "building" => pc[s] = "building"
    BY <1>12 DEF RevokeAndReject, TypeOK
  <2>3. QED
    BY <2>1, <2>2, CommitKeepsChain, CommitKeepsPredecessors DEF ChainInv
<1>13. CASE UNCHANGED vars
  BY <1>13, QuietStepKeepsChain DEF vars
<1>14. QED
  BY <1>1, <1>2, <1>3, <1>4, <1>5, <1>6, <1>7, <1>8, <1>9, <1>10, <1>11, <1>12, <1>13
     DEF Next, RefreshNext

\* The strengthened invariant: valid as committed, and as every open
\* transaction sees it.
THEOREM ChainInvariant == RefreshSpec => []ChainInv
<1>1. Init => ChainInv
  <2>1. SUFFICES ASSUME Init PROVE ChainInv
    OBVIOUS
  <2>2. auditLog = {} /\ \A r \in Requests : Visible(r) = {} /\ staged[r] = {}
    BY <2>1 DEF Init, Visible
  <2>3. QED
    BY <2>1, <2>2, EmptyIsValid DEF Init, ChainInv, Named
<1>2. TypeOK /\ ChainInv /\ [RefreshNext]_vars => ChainInv'
  BY StepKeepsChain
<1>3. QED
  BY <1>1, <1>2, TypeCorrect, PTL DEF RefreshSpec

\* The log is a DAG rooted at genesis at every instant of every run, for any number
\* of concurrent requests, the refused refreshes among them, whatever the clocks
\* read and whoever crashes.
THEOREM ChainAlwaysValid == RefreshSpec => []ChainValid
<1>1. ChainInv => ChainValid
  BY DEF ChainInv, ChainValid
<1>2. QED
  BY <1>1, ChainInvariant, PTL

\* No rollback, rejection or crash takes a durable audit row away.
THEOREM LogOnlyGrows == RefreshSpec => EntriesSurviveRollback
<1>1. [RefreshNext]_vars => [auditLog \subseteq auditLog']_vars
  BY DEF RefreshNext, Next, vars, Begin, Mutate, ReadLastHash, AppendEager, AppendStaged,
         RespondEager, CommitEager, CommitStaged, RespondStaged, Reject,
         RevokeAndReject, Fail, CommitTxn
<1>2. QED
  BY <1>1, PTL DEF RefreshSpec, EntriesSurviveRollback
-----------------------------------------------------------------------------
(***************************************************************************)
(* The agreement of the log with the data.                                 *)
(***************************************************************************)

\* A step of one request that adds only rows of that request to the log leaves
\* what is said of every other request alone.
LEMMA OthersStayDurable ==
    ASSUME NEW r \in Requests, NEW s \in Requests, r # s, DurableFor(s),
           auditLog \subseteq auditLog',
           \A e \in auditLog' \ auditLog : e.hash[1] = r,
           mode' = mode,
           pc'[s] = pc[s], staged'[s] = staged[s], wrote'[s] = wrote[s],
           audited'[s] = audited[s],
           s \in mutations' <=> s \in mutations,
           s \in acked' <=> s \in acked
    PROVE  DurableFor(s)'
<1>1. PermitsOf(s)' = PermitsOf(s)
  BY DEF PermitsOf
<1>2. QED
  BY <1>1 DEF DurableFor

\* What a commit does to the request that commits: its staged rows and its
\* mutation become durable in one step, and if there is a mutation there is a
\* success row.
LEMMA CommitIsDurable ==
    ASSUME TypeOK, ChainInv, NEW r \in Requests, DurableFor(r), CommitTxn(r),
           wrote[r] => audited[r],
           pc[r] \in {"open", "responded"},
           mode[r] = "staged" => pc[r] = "open",
           pc'[r] \in {"committed", "rejected"},
           r \in acked /\ mode[r] = "staged" => pc'[r] = "committed",
           UNCHANGED <<mode, wrote, audited, acked>>
    PROVE  DurableFor(r)'
<1>1. /\ auditLog' = auditLog \cup staged[r]
      /\ staged'[r] = {}
      /\ mutations' = IF wrote[r] THEN mutations \cup {r} ELSE mutations
  BY DEF CommitTxn, TypeOK
<1>2. PermitsOf(r) \subseteq PermitsOf(r)'
  BY <1>1 DEF PermitsOf
<1>3. mode[r] \in {"eager", "staged"}
  BY DEF TypeOK
<1>4. audited[r] => PermitsOf(r)' # {}
  <2>1. CASE mode[r] = "eager"
    BY <1>2, <2>1 DEF DurableFor
  <2>2. CASE mode[r] = "staged"
    BY <1>1, <2>2 DEF DurableFor, PermitsOf
  <2>3. QED
    BY <1>3, <2>1, <2>2
<1>5. mode[r] = "staged" /\ r \notin mutations' => PermitsOf(r)' = {}
  BY <1>1 DEF DurableFor, PermitsOf
<1>6. r \in mutations' => PermitsOf(r)' # {}
  BY <1>1, <1>2, <1>4 DEF DurableFor
<1>7. QED
  BY <1>1, <1>4, <1>5, <1>6 DEF DurableFor

\* The inductive step for each request by itself, one case per action.
LEMMA StepKeepsDurability ==
    ASSUME TypeOK, ChainInv, NEW s \in Requests, DurableFor(s), [Next]_vars
    PROVE  DurableFor(s)'
<1>1. ASSUME NEW r \in Requests, Begin(r) PROVE DurableFor(s)'
  BY <1>1 DEF Begin, PermitsOf, TypeOK, DurableFor
<1>2. ASSUME NEW r \in Requests, Mutate(r) PROVE DurableFor(s)'
  BY <1>2 DEF Mutate, PermitsOf, TypeOK, DurableFor
<1>3. ASSUME NEW r \in Requests, ReadLastHash(r) PROVE DurableFor(s)'
  BY <1>3 DEF ReadLastHash, PermitsOf, TypeOK, DurableFor
<1>4. ASSUME NEW r \in Requests, AppendEager(r) PROVE DurableFor(s)'
  <2>1. PICK t \in Times : auditLog' = auditLog \cup {NewRow(r, t)}
    BY <1>4 DEF AppendEager
  <2>2. NewRow(r, t).hash[1] = r /\ (wrote[r] => NewRow(r, t).decision = "PERMIT")
    BY DEF NewRow
  <2>3. CASE s # r
    BY <1>4, <2>1, <2>2, <2>3, OthersStayDurable DEF AppendEager, TypeOK
  <2>4. CASE s = r
    <3>1. wrote[r] => NewRow(r, t) \in PermitsOf(r)'
      BY <2>1, <2>2 DEF PermitsOf
    <3>2. PermitsOf(r) \subseteq PermitsOf(r)'
      BY <2>1 DEF PermitsOf
    <3>3. QED
      BY <1>4, <2>4, <3>1, <3>2 DEF AppendEager, TypeOK, DurableFor
  <2>5. QED
    BY <2>3, <2>4
<1>5. ASSUME NEW r \in Requests, AppendStaged(r) PROVE DurableFor(s)'
  <2>1. PICK t \in Times :
           staged' = [staged EXCEPT ![r] = @ \cup {NewRow(r, t)}]
    BY <1>5 DEF AppendStaged
  <2>2. NewRow(r, t).hash[1] = r /\ (wrote[r] => NewRow(r, t).decision = "PERMIT")
    BY DEF NewRow
  <2>3. CASE s # r
    BY <1>5, <2>1, <2>3, OthersStayDurable DEF AppendStaged, TypeOK
  <2>4. CASE s = r
    BY <1>5, <2>1, <2>2, <2>4 DEF AppendStaged, TypeOK, PermitsOf, DurableFor
  <2>5. QED
    BY <2>3, <2>4
<1>6. ASSUME NEW r \in Requests, RespondEager(r) PROVE DurableFor(s)'
  BY <1>6 DEF RespondEager, PermitsOf, TypeOK, DurableFor
<1>7. ASSUME NEW r \in Requests, CommitTxn(r),
             UNCHANGED <<mode, wrote, audited, acked>>, s # r, pc'[s] = pc[s]
      PROVE  DurableFor(s)'
  <2>1. \A e \in auditLog' \ auditLog : e.hash[1] = r
    BY <1>7 DEF CommitTxn, ChainInv
  <2>2. QED
    BY <1>7, <2>1, OthersStayDurable DEF CommitTxn, TypeOK
<1>8. ASSUME NEW r \in Requests, CommitEager(r) PROVE DurableFor(s)'
  <2>1. /\ CommitTxn(r)
        /\ UNCHANGED <<mode, wrote, audited, acked>>
        /\ s # r => pc'[s] = pc[s]
        /\ pc[r] = "responded" /\ pc'[r] = "committed"
    BY <1>8 DEF CommitEager, TypeOK
  <2>2. CASE s = r
    <3>1. mode[r] = "eager" /\ (wrote[r] => audited[r])
      BY <2>1, <2>2 DEF DurableFor
    <3>2. QED
      BY <2>1, <2>2, <3>1, CommitIsDurable
  <2>3. CASE s # r
    BY <1>7, <2>1, <2>3
  <2>4. QED
    BY <2>2, <2>3
<1>9. ASSUME NEW r \in Requests, CommitStaged(r) PROVE DurableFor(s)'
  <2>1. /\ CommitTxn(r)
        /\ UNCHANGED <<mode, wrote, audited, acked>>
        /\ s # r => pc'[s] = pc[s]
        /\ pc[r] = "open" /\ pc'[r] = "committed"
        /\ wrote[r] => audited[r]
    BY <1>9 DEF CommitStaged, TypeOK
  <2>2. CASE s = r
    BY <2>1, <2>2, CommitIsDurable
  <2>3. CASE s # r
    BY <1>7, <2>1, <2>3
  <2>4. QED
    BY <2>2, <2>3
<1>10. ASSUME NEW r \in Requests, RespondStaged(r) PROVE DurableFor(s)'
  BY <1>10 DEF RespondStaged, PermitsOf, TypeOK, DurableFor
<1>11. ASSUME NEW r \in Requests, Reject(r) PROVE DurableFor(s)'
  <2>1. /\ CommitTxn(r)
        /\ UNCHANGED <<mode, wrote, audited, acked>>
        /\ s # r => pc'[s] = pc[s]
        /\ pc[r] = "open" /\ pc'[r] = "rejected"
        /\ wrote[r] => audited[r]
    BY <1>11 DEF Reject, TypeOK
  <2>2. CASE s = r
    <3>1. ~(r \in acked /\ mode[r] = "staged")
      BY <2>1, <2>2 DEF DurableFor
    <3>2. QED
      BY <2>1, <2>2, <3>1, CommitIsDurable
  <2>3. CASE s # r
    BY <1>7, <2>1, <2>3
  <2>4. QED
    BY <2>2, <2>3
<1>12. ASSUME NEW r \in Requests, Fail(r) PROVE DurableFor(s)'
  BY <1>12 DEF Fail, PermitsOf, TypeOK, DurableFor
<1>13. CASE UNCHANGED vars
  BY <1>13 DEF vars, PermitsOf, DurableFor
<1>14. QED
  BY <1>1, <1>2, <1>3, <1>4, <1>5, <1>6, <1>8, <1>9, <1>10, <1>11, <1>12,
     <1>13 DEF Next

\* A revocation that nobody audits commits in a request of its own, and leaves what
\* is said of every other request alone.
LEMMA RevocationKeepsOthers ==
    ASSUME TypeOK, ChainInv, NEW r \in Requests, NEW s \in Requests, r # s,
           DurableFor(s), RevokeAndReject(r)
    PROVE  DurableFor(s)'
<1>1. \A e \in auditLog' \ auditLog : e.hash[1] = r
  BY DEF RevokeAndReject, CommitTxn, ChainInv
<1>2. QED
  BY <1>1, OthersStayDurable DEF RevokeAndReject, CommitTxn, TypeOK

\* What is said of staged requests, whichever other requests there are.
StagedInv == \A r \in Requests : mode[r] = "staged" => DurableFor(r)

\* The log and the data agree about the requests with a function-scoped session,
\* although refused refreshes run next to them.
THEOREM StagedInvariant == RefreshSpec => []StagedInv
<1>1. Init => StagedInv
  BY DEF Init, StagedInv, DurableFor, PermitsOf
<1>2. TypeOK /\ ChainInv /\ StagedInv /\ [RefreshNext]_vars => StagedInv'
  <2> SUFFICES ASSUME TypeOK, ChainInv, StagedInv, [RefreshNext]_vars,
                      NEW s \in Requests, mode'[s] = "staged"
               PROVE  DurableFor(s)'
    BY DEF StagedInv
  <2>1. mode' = mode
    BY DEF RefreshNext, Next, vars, Begin, Mutate, ReadLastHash, AppendEager,
           AppendStaged, RespondEager, CommitEager, CommitStaged, RespondStaged,
           Reject, RevokeAndReject, Fail
  <2>2. DurableFor(s)
    BY <2>1 DEF StagedInv
  <2>3. CASE [Next]_vars
    BY <2>2, <2>3, StepKeepsDurability
  <2>4. ASSUME NEW r \in Requests, RevokeAndReject(r) PROVE DurableFor(s)'
    <3>1. r # s
      BY <2>1, <2>4 DEF RevokeAndReject
    <3>2. QED
      BY <2>2, <2>4, <3>1, RevocationKeepsOthers
  <2>5. QED
    BY <2>3, <2>4 DEF RefreshNext
<1>3. QED
  BY <1>1, <1>2, TypeCorrect, ChainInvariant, PTL DEF RefreshSpec

\* Whatever interleaves or crashes, the log and the data agree about every request
\* that audits what it writes.
THEOREM DurabilityInvariant == Spec => []DurabilityInv
<1>1. Init => DurabilityInv
  BY DEF Init, DurabilityInv, DurableFor, PermitsOf
<1>2. TypeOK /\ ChainInv /\ DurabilityInv /\ [Next]_vars => DurabilityInv'
  BY StepKeepsDurability DEF DurabilityInv
<1>3. QED
  BY <1>1, <1>2, RefreshesIncluded, TypeCorrect, ChainInvariant, PTL DEF Spec

\* No mutation is durable without a durable success row of its request.
THEOREM NoUnauditedMutation == Spec => []EveryMutationAudited
<1>1. TypeOK /\ DurabilityInv => EveryMutationAudited
  BY DEF TypeOK, DurabilityInv, DurableFor, EveryMutationAudited
<1>2. QED
  BY <1>1, RefreshesIncluded, TypeCorrect, DurabilityInvariant, PTL

\* A staged audit row and its mutation are durable together or not at all.
THEOREM StagingIsAtomic == RefreshSpec => []StagedIsAtomic
<1>1. StagedInv => StagedIsAtomic
  BY DEF StagedInv, DurableFor, StagedIsAtomic
<1>2. QED
  BY <1>1, StagedInvariant, PTL

\* A client of a function-scoped endpoint is told of success only once the
\* mutation is durable.
THEOREM StagedAcknowledgementIsDurable == RefreshSpec => []AckedStagedIsDurable
<1>1. TypeOK /\ StagedInv => AckedStagedIsDurable
  BY DEF TypeOK, StagedInv, DurableFor, AckedStagedIsDurable
<1>2. QED
  BY <1>1, TypeCorrect, StagedInvariant, PTL
-----------------------------------------------------------------------------
(***************************************************************************)
(* The verifier.                                                           *)
(***************************************************************************)
\* The rows of the table, which may or may not have hashes of their own.
Rows == Range(entries)
Distinct == \A i, j \in DOMAIN entries : entries[i].hash = entries[j].hash => i = j
\* The rows an earlier walk has judged, and those the walk in progress has met.
ResolvedRows == {e \in Rows : e.hash \in DOMAIN resolved}
PathRows == {e \in Rows : e.hash \in Range(path)}
Visited == DOMAIN resolved \cup Range(path)

\* Types.
TableOK ==
    /\ entries \in Seq(TableRow)
    /\ next \in 1..Len(entries) + 1
    /\ phase \in {"index", "recompute", "walk", "done"}
    /\ result \in BOOLEAN
    /\ path \in Seq(Hashes(Rows))
    /\ edges \in Nat

\* What the first two loops have found of the rows before "next".
LoopsDone ==
    /\ phase \in {"index", "recompute"} => DOMAIN resolved = {} /\ path = <<>> /\ edges = 0
    /\ phase = "index" =>
           /\ byHash = {entries[i].hash : i \in 1..next - 1}
           /\ \A i, j \in 1..next - 1 : entries[i].hash = entries[j].hash => i = j
    /\ phase \in {"recompute", "walk"} => Distinct /\ byHash = Hashes(Rows)
    /\ phase = "recompute" => \A i \in 1..next - 1 : entries[i].intact
    /\ phase = "walk" => \A i \in DOMAIN entries : entries[i].intact

\* What earlier walks have reached genesis from is a valid part of the table.
WalksSucceeded ==
    phase = "walk" =>
        /\ \A h \in DOMAIN resolved : resolved[h] = TRUE
        /\ DOMAIN resolved \subseteq Hashes(Rows)
        /\ ValidDag(ResolvedRows)
        /\ \A i \in 1..next - 1 : entries[i].hash \in DOMAIN resolved

\* The walk in progress: it began at the row at "next", met only rows no earlier walk
\* knows, and every way on from them leads to "current".
WalkGoesOn ==
    phase = "walk" =>
        /\ Range(path) \cap DOMAIN resolved = {}
        /\ IF path = <<>> THEN next <= Len(entries) => current = entries[next].hash
                          ELSE next <= Len(entries) /\ entries[next].hash \in Range(path)
        /\ \A e \in PathRows : e.prev_hash \in Range(path) \cup {current}
        /\ \A part \in SUBSET PathRows : part # {} =>
               \E e \in part : e.prev_hash \notin Hashes(part) \/ e.prev_hash = current
        /\ \A part \in SUBSET Rows : Resolves(part) /\ part \cap PathRows # {} =>
               \E e \in part \cap PathRows : e.prev_hash = current

\* Every edge followed leads from a hash of its own.
EdgesCounted ==
    /\ Visited \subseteq Hashes(Rows) /\ IsFiniteSet(Visited)
    /\ edges <= Cardinality(Visited)

\* The inductive invariant of the verifier.
VerifierInv ==
    /\ TableOK /\ LoopsDone /\ WalksSucceeded /\ WalkGoesOn /\ EdgesCounted
    /\ MemoIsExact /\ VerdictIsExact

-----------------------------------------------------------------------------
\* What path.append() adds to a path.
LEMMA RangeOfAppend ==
    ASSUME NEW S, NEW s \in Seq(S), NEW h \in S
    PROVE  Range(Append(s, h)) = Range(s) \cup {h}
<1> DEFINE t == Append(s, h)
<1>1. /\ Len(s) \in Nat /\ DOMAIN s = 1..Len(s) /\ DOMAIN t = 1..Len(s) + 1
      /\ t[Len(s) + 1] = h /\ \A i \in 1..Len(s) : t[i] = s[i]
  OBVIOUS
<1>2. 1..Len(s) + 1 = (1..Len(s)) \cup {Len(s) + 1}
  BY <1>1
<1> HIDE DEF t
<1>3. Range(t) = Range(s) \cup {h}
  BY <1>1, <1>2 DEF Range
<1>4. QED
  BY <1>3 DEF t

\* The rows of the table are those of its positions.
LEMMA RowsOfTable ==
    ASSUME entries \in Seq(TableRow)
    PROVE  /\ DOMAIN entries = 1..Len(entries)
           /\ \A i \in 1..Len(entries) : entries[i] \in Rows /\ entries[i] \in TableRow
           /\ \A e \in Rows : e \in TableRow /\ \E i \in 1..Len(entries) : e = entries[i]
           /\ GENESIS_HASH \notin Hashes(Rows)
           /\ \A h : h \in Hashes(Rows) <=> \E e \in Rows : e.hash = h
<1>1. DOMAIN entries = 1..Len(entries) /\ \A i \in 1..Len(entries) : entries[i] \in TableRow
  OBVIOUS
<1>2. Rows = {entries[i] : i \in 1..Len(entries)}
  BY <1>1 DEF Rows, Range
<1>3. \A e \in Rows : e \in TableRow /\ \E i \in 1..Len(entries) : e = entries[i]
  BY <1>1, <1>2
<1>4. \A e \in Rows : e.hash # GENESIS_HASH
  BY <1>3, GenesisIsNoRowHash DEF TableRow
<1>5. QED
  BY <1>1, <1>2, <1>3, <1>4 DEF Hashes

\* by_hash holds as many hashes as the table has rows, at most.
LEMMA HashesAreFew ==
    ASSUME entries \in Seq(TableRow)
    PROVE  IsFiniteSet(Hashes(Rows)) /\ Cardinality(Hashes(Rows)) <= Len(entries)
<1> DEFINE f == [i \in 1..Len(entries) |-> entries[i].hash]
<1>1. f \in Surjection(1..Len(entries), Hashes(Rows))
  <2>1. \A i \in 1..Len(entries) : entries[i].hash \in Hashes(Rows)
    BY RowsOfTable DEF Hashes
  <2>2. ASSUME NEW h \in Hashes(Rows)
        PROVE  \E i \in 1..Len(entries) : entries[i].hash = h
    <3>1. PICK e \in Rows : e.hash = h
      BY DEF Hashes
    <3>2. \E i \in 1..Len(entries) : e = entries[i]
      BY RowsOfTable
    <3>3. QED
      BY <3>1, <3>2
  <2>3. QED
    BY <2>1, <2>2 DEF Surjection
<1>2. Len(entries) \in Nat
  OBVIOUS
<1>3. IsFiniteSet(1..Len(entries)) /\ Cardinality(1..Len(entries)) = Len(entries)
  BY <1>2, FS_Interval, SMTT(20)
<1>4. QED
  BY <1>1, <1>3, FS_Surjection

\* by_hash finds the row of a hash: there is one.
LEMMA RowOfHash ==
    ASSUME entries \in Seq(TableRow), Distinct, NEW h \in Hashes(Rows)
    PROVE  ByHash(h) \in Rows /\ ByHash(h).hash = h /\ \A e \in Rows : e.hash = h => e = ByHash(h)
<1>1. \E i \in DOMAIN entries : entries[i].hash = h
  BY RowsOfTable
<1>2. PICK i \in DOMAIN entries : entries[i].hash = h /\ ByHash(h) = entries[i]
  BY <1>1 DEF ByHash
<1>3. QED
  BY <1>2, RowsOfTable DEF Distinct

\* The first loop finds a hash twice, or knows every hash of the table at its end.
LEMMA IndexKept ==
    ASSUME VerifierInv, IndexRow
    PROVE  TableOK' /\ LoopsDone' /\ VerdictIsExact'
<1> USE DEF VerifierInv, TableOK
<1>1. phase = "index" /\ next \in 1..Len(entries) /\ entries' = entries
  BY DEF IndexRow, Return
<1>2. Rows' = Rows
  BY <1>1 DEF Rows
<1>3. CASE entries[next].hash \in byHash
  <2>1. phase' = "done" /\ result' = FALSE /\ UNCHANGED <<entries, next, path, edges>>
    BY <1>1, <1>3 DEF IndexRow, Return
  <2>2. PICK i \in 1..next - 1 : entries[i].hash = entries[next].hash
    BY <1>1, <1>3 DEF LoopsDone
  <2>3. i \in DOMAIN entries /\ next \in DOMAIN entries /\ i # next
    BY <1>1, <2>2
  <2>4. ~ Sound'
    BY <1>1, <2>2, <2>3 DEF Sound
  <2>5. TableOK'
    BY <1>2, <2>1
  <2>6. LoopsDone' /\ VerdictIsExact'
    BY <2>1, <2>4 DEF LoopsDone, VerdictIsExact
  <2>7. QED
    BY <2>5, <2>6
<1>4. CASE entries[next].hash \notin byHash
  <2>1. /\ byHash' = byHash \cup {entries[next].hash} /\ next' = next + 1
        /\ UNCHANGED <<entries, phase, resolved, path, result, edges>>
    BY <1>1, <1>4 DEF IndexRow
  <2>2. byHash' = {entries[i].hash : i \in 1..next' - 1}
    <3>1. 1..next' - 1 = (1..next - 1) \cup {next}
      BY <1>1, <2>1
    <3>2. byHash = {entries[i].hash : i \in 1..next - 1}
      BY <1>1 DEF LoopsDone
    <3>3. QED
      BY <2>1, <3>1, <3>2
  <2>3. \A i, j \in 1..next' - 1 : entries[i].hash = entries[j].hash => i = j
    <3>1. \A i \in 1..next - 1 : entries[i].hash # entries[next].hash
      BY <1>1, <1>4 DEF LoopsDone
    <3>2. 1..next' - 1 = (1..next - 1) \cup {next}
      BY <1>1, <2>1
    <3>3. QED
      BY <1>1, <3>1, <3>2 DEF LoopsDone
  <2>4. QED
    BY <1>1, <1>2, <2>1, <2>2, <2>3 DEF LoopsDone, VerdictIsExact
<1>5. QED
  BY <1>3, <1>4

\* The second loop finds an altered row, or none.
LEMMA RecomputeKept ==
    ASSUME VerifierInv, RecomputeRow
    PROVE  TableOK' /\ LoopsDone' /\ VerdictIsExact'
<1> USE DEF VerifierInv, TableOK
<1>1. phase = "recompute" /\ next \in 1..Len(entries) /\ UNCHANGED <<entries, byHash>>
  BY DEF RecomputeRow, Return
<1>2. Rows' = Rows /\ (Distinct' <=> Distinct)
  BY <1>1 DEF Rows, Distinct
<1>3. CASE ~ entries[next].intact
  <2>1. phase' = "done" /\ result' = FALSE /\ UNCHANGED <<entries, next, path, edges>>
    BY <1>1, <1>3 DEF RecomputeRow, Return
  <2>2. ~ Sound'
    BY <1>1, <1>3, RowsOfTable DEF Sound
  <2>3. QED
    BY <1>2, <2>1, <2>2 DEF LoopsDone, VerdictIsExact
<1>4. CASE entries[next].intact
  <2>1. next' = next + 1 /\ UNCHANGED <<entries, phase, byHash, resolved, path, result, edges>>
    BY <1>1, <1>4 DEF RecomputeRow
  <2>2. \A i \in 1..next' - 1 : entries[i].intact
    BY <1>1, <1>4, <2>1 DEF LoopsDone
  <2>3. QED
    BY <1>1, <1>2, <2>1, <2>2 DEF LoopsDone, VerdictIsExact
<1>5. QED
  BY <1>3, <1>4

\* The walks begin when every hash is known and no row is altered.
LEMMA NextPhaseKept ==
    ASSUME VerifierInv, NextPhase
    PROVE  TableOK' /\ LoopsDone' /\ WalksSucceeded' /\ WalkGoesOn' /\ VerdictIsExact'
<1> USE DEF VerifierInv, TableOK
<1>1. /\ next = Len(entries) + 1 /\ next' = 1 /\ path = <<>> /\ DOMAIN resolved = {} /\ edges = 0
      /\ UNCHANGED <<entries, byHash, resolved, path, result, edges>>
  BY DEF NextPhase, LoopsDone
<1>2. Rows' = Rows /\ (Distinct' <=> Distinct)
  BY <1>1 DEF Rows, Distinct
<1>3. CASE phase = "index"
  <2>1. phase' = "recompute"
    BY <1>3 DEF NextPhase
  <2>2. Distinct /\ byHash = Hashes(Rows)
    <3>1. next - 1 = Len(entries) /\ 1..next - 1 = DOMAIN entries
      BY <1>1, RowsOfTable
    <3>2. Distinct
      BY <1>3, <3>1 DEF LoopsDone, Distinct
    <3>3. byHash = {entries[i].hash : i \in DOMAIN entries}
      BY <1>3, <3>1 DEF LoopsDone
    <3>4. \A h : h \in byHash <=> h \in Hashes(Rows)
      BY <3>3, RowsOfTable
    <3>5. QED
      BY <3>2, <3>4
  <2>3. QED
    BY <1>1, <1>2, <2>1, <2>2 DEF LoopsDone, WalksSucceeded, WalkGoesOn, VerdictIsExact
<1>4. CASE phase = "recompute"
  <2>1. phase' = "walk" /\ (entries # <<>> => current' = entries[1].hash)
    BY <1>4 DEF NextPhase
  <2>2. Distinct /\ byHash = Hashes(Rows) /\ \A i \in DOMAIN entries : entries[i].intact
    BY <1>1, <1>4, RowsOfTable DEF LoopsDone
  <2>3. ResolvedRows' = {} /\ PathRows' = {} /\ Range(path)' = {}
    BY <1>1 DEF ResolvedRows, PathRows, Range
  <2>4. ValidDag({})
    BY DEF ValidDag, UniqueHashes, Resolves, Acyclic
  <2>5. WalksSucceeded'
    BY <1>1, <2>3, <2>4 DEF WalksSucceeded
  <2>6. next' <= Len(entries)' => current' = entries'[next'].hash
    BY <1>1, <2>1
  <2>7. WalkGoesOn'
    BY <1>1, <2>3, <2>6 DEF WalkGoesOn
  <2>8. QED
    BY <1>1, <1>2, <2>1, <2>2, <2>5, <2>7 DEF LoopsDone, VerdictIsExact
<1>5. QED
  BY <1>3, <1>4 DEF NextPhase

\* What following an edge does to the walk: it has met one row more, by_hash knows the
\* row, and its predecessor is next.
LEMMA FollowKept ==
    ASSUME VerifierInv, Follow
    PROVE  TableOK' /\ LoopsDone' /\ WalksSucceeded' /\ WalkGoesOn' /\ EdgesCounted'
<1> USE DEF VerifierInv, TableOK
<1> DEFINE row == ByHash(current)
<1>1. /\ phase = "walk" /\ next \in 1..Len(entries)
      /\ path' = Append(path, current) /\ current' = row.prev_hash
      /\ edges' = (IF edges <= MaxRows THEN edges + 1 ELSE edges)
      /\ UNCHANGED <<entries, phase, next, byHash, resolved, result>>
  BY DEF Follow
<1>2. /\ current # GENESIS_HASH /\ current \notin DOMAIN resolved
      /\ current \notin Range(path) /\ current \in Hashes(Rows)
  BY <1>1 DEF Follow, Stops, Contains, Range, LoopsDone
<1>3. /\ row \in Rows /\ row.hash = current
      /\ \A e \in Rows : e.hash = current => e = row
  BY <1>1, <1>2, RowOfHash DEF LoopsDone
<1>4. Range(path)' = Range(path) \cup {current}
  BY <1>1, <1>2, RangeOfAppend
<1>5. Rows' = Rows /\ ResolvedRows' = ResolvedRows /\ (Distinct' <=> Distinct)
  BY <1>1 DEF Rows, ResolvedRows, Distinct
<1>6. PathRows' = PathRows \cup {row}
  BY <1>3, <1>4, <1>5 DEF PathRows
<1>7. TableOK'
  BY <1>1, <1>2, <1>5
<1>8. LoopsDone' /\ WalksSucceeded'
  BY <1>1, <1>5 DEF LoopsDone, WalksSucceeded
<1>9. WalkGoesOn'
  <2>1. Range(path)' \cap DOMAIN resolved' = {}
    BY <1>1, <1>2, <1>4 DEF WalkGoesOn
  <2>2. path' # <<>> /\ entries[next].hash \in Range(path)'
    BY <1>1, <1>4 DEF WalkGoesOn
  <2>3. \A e \in PathRows' : e.prev_hash \in Range(path)' \cup {current'}
    BY <1>1, <1>4, <1>6 DEF WalkGoesOn
  <2>4. ASSUME NEW part \in SUBSET PathRows', part # {}
        PROVE  \E e \in part : e.prev_hash \notin Hashes(part) \/ e.prev_hash = current'
    <3>1. CASE row \in part
      BY <1>1, <3>1
    <3>2. CASE row \notin part
      <4>1. part \in SUBSET PathRows /\ part \subseteq Rows
        BY <1>6, <2>4, <3>2 DEF PathRows
      <4>2. PICK e \in part : e.prev_hash \notin Hashes(part) \/ e.prev_hash = current
        BY <1>1, <2>4, <4>1 DEF WalkGoesOn
      <4>3. current \notin Hashes(part)
        BY <1>3, <3>2, <4>1 DEF Hashes
      <4>4. QED
        BY <4>2, <4>3
    <3>3. QED
      BY <3>1, <3>2
  <2>5. ASSUME NEW part \in SUBSET Rows, Resolves(part), part \cap PathRows' # {}
        PROVE  \E e \in part \cap PathRows' : e.prev_hash = current'
    <3>1. CASE row \in part
      BY <1>1, <1>6, <3>1
    <3>2. CASE row \notin part
      <4>1. PICK e \in part \cap PathRows : e.prev_hash = current
        BY <1>1, <1>6, <2>5, <3>2 DEF WalkGoesOn
      <4>2. current \in Hashes(part)
        BY <1>2, <2>5, <4>1 DEF Resolves
      <4>3. QED
        BY <1>3, <3>2, <4>2 DEF Hashes
    <3>3. QED
      BY <3>1, <3>2
  <2>6. QED
    BY <1>1, <1>5, <2>1, <2>2, <2>3, <2>4, <2>5, SMTT(20) DEF WalkGoesOn
<1>10. EdgesCounted'
  <2>1. Visited' = Visited \cup {current}
    BY <1>1, <1>4 DEF Visited
  <2>2. current \notin Visited
    BY <1>2 DEF Visited
  <2>3. IsFiniteSet(Visited') /\ Cardinality(Visited') = Cardinality(Visited) + 1
    BY <2>1, <2>2, FS_AddElement DEF EdgesCounted
  <2>4. Cardinality(Visited) \in Nat
    BY FS_CardinalityType DEF EdgesCounted
  <2>5. edges' <= Cardinality(Visited')
    BY <1>1, <2>3, <2>4 DEF EdgesCounted
  <2>6. Visited' \subseteq Hashes(Rows)'
    BY <1>2, <1>5, <2>1 DEF EdgesCounted
  <2>7. QED
    BY <2>3, <2>5, <2>6 DEF EdgesCounted
<1>11. QED
  BY <1>7, <1>8, <1>9, <1>10

\* A row of a valid part of the table reaches genesis, and its hash says which row.
LEMMA PartReaches ==
    ASSUME NEW part \in SUBSET Rows, ValidDag(part), NEW h \in Hashes(part)
    PROVE  ReachesGenesis(h)
BY DEF ReachesGenesis, Rows

\* A walk that arrives where an earlier one succeeded, or at genesis, has met rows that
\* belong to a valid part, with those of the earlier walks.
LEMMA WalkSucceeds ==
    ASSUME VerifierInv, phase = "walk", Stops(current), Outcome(current)
    PROVE  /\ current = GENESIS_HASH \/ current \in DOMAIN resolved
           /\ ValidDag(ResolvedRows \cup PathRows)
<1> USE DEF VerifierInv, TableOK
<1>1. current = GENESIS_HASH \/ current \in DOMAIN resolved
  BY DEF Outcome
<1> DEFINE all == ResolvedRows \cup PathRows
<1>2. current \notin Range(path) /\ GENESIS_HASH \notin Hashes(Rows)
  <2>1. GENESIS_HASH \notin Hashes(Rows)
    BY RowsOfTable
  <2>2. Range(path) \subseteq Hashes(Rows) /\ Range(path) \cap DOMAIN resolved = {}
    BY DEF EdgesCounted, Visited, WalkGoesOn
  <2>3. QED
    BY <1>1, <2>1, <2>2
<1>3. UniqueHashes(all)
  <2>1. SUFFICES ASSUME NEW e \in all, NEW f \in all, e.hash = f.hash PROVE e = f
    BY DEF UniqueHashes
  <2>2. e \in Rows /\ f \in Rows /\ e.hash \in Hashes(Rows)
    BY DEF ResolvedRows, PathRows, Hashes
  <2>3. QED
    BY <2>1, <2>2, RowOfHash DEF LoopsDone
<1>4. Resolves(all)
  <2>1. ASSUME NEW h \in DOMAIN resolved \cup Range(path) PROVE h \in Hashes(all)
    <3>1. h \in Hashes(Rows)
      BY DEF EdgesCounted, Visited
    <3>2. PICK e \in Rows : e.hash = h
      BY <3>1 DEF Hashes
    <3>3. e \in all
      BY <3>2 DEF ResolvedRows, PathRows
    <3>4. QED
      BY <3>2, <3>3 DEF Hashes
  <2>2. \A e \in ResolvedRows : e.prev_hash \in Hashes(ResolvedRows) \cup {GENESIS_HASH}
    BY DEF WalksSucceeded, ValidDag, Resolves
  <2>3. \A e \in PathRows : e.prev_hash \in Range(path) \cup {current}
    BY DEF WalkGoesOn
  <2>4. QED
    BY <1>1, <2>1, <2>2, <2>3 DEF Resolves, Hashes
<1>5. Acyclic(all)
  <2>1. SUFFICES ASSUME NEW part \in SUBSET all, part # {}
                 PROVE  \E e \in part : e.prev_hash \notin Hashes(part)
    BY DEF Acyclic
  <2> DEFINE older == part \cap ResolvedRows
  <2>2. CASE older = {}
    <3>1. part \in SUBSET PathRows
      BY <2>2
    <3>2. PICK e \in part : e.prev_hash \notin Hashes(part) \/ e.prev_hash = current
      BY <2>1, <3>1 DEF WalkGoesOn
    <3>3. current \notin Hashes(part)
      BY <1>2, <3>1 DEF PathRows, Hashes
    <3>4. QED
      BY <3>2, <3>3
  <2>3. CASE older # {}
    <3>1. PICK e \in older : e.prev_hash \notin Hashes(older)
      BY <2>3 DEF WalksSucceeded, ValidDag, Acyclic
    <3>2. e.prev_hash \in DOMAIN resolved \cup {GENESIS_HASH}
      BY DEF WalksSucceeded, ValidDag, Resolves, ResolvedRows, Hashes
    <3>3. ASSUME NEW f \in part, f.hash = e.prev_hash PROVE FALSE
      <4>1. f \in Rows
        BY DEF ResolvedRows, PathRows
      <4>2. f.hash \in DOMAIN resolved
        BY <1>2, <3>2, <3>3, <4>1 DEF Hashes
      <4>3. f \in older
        BY <4>1, <4>2 DEF ResolvedRows
      <4>4. QED
        BY <3>1, <3>3, <4>3 DEF Hashes
    <3>4. QED
      BY <3>1, <3>3 DEF Hashes
  <2>4. QED
    BY <2>2, <2>3
<1>6. QED
  BY <1>1, <1>3, <1>4, <1>5 DEF ValidDag

\* A walk that meets itself, or a hash no row has, has met no row of a valid part.
LEMMA WalkFails ==
    ASSUME VerifierInv, phase = "walk", Stops(current), ~ Outcome(current)
    PROVE  \A h \in Range(path) : ~ ReachesGenesis(h)
<1> USE DEF VerifierInv, TableOK
<1>1. SUFFICES ASSUME NEW part \in SUBSET Rows, ValidDag(part),
                      NEW h \in Range(path), h \in Hashes(part)
               PROVE  FALSE
  BY DEF ReachesGenesis, Rows
<1>2. current # GENESIS_HASH /\ (current \in Range(path) \/ current \notin Hashes(Rows))
  BY DEF Outcome, Stops, WalksSucceeded, LoopsDone, Contains, Range
<1> DEFINE met == part \cap PathRows
<1>3. met # {}
  BY <1>1 DEF PathRows, Hashes
<1>4. CASE current \notin Hashes(Rows)
  <2>1. PICK e \in met : e.prev_hash = current
    BY <1>1, <1>3 DEF WalkGoesOn, ValidDag
  <2>2. current \in Hashes(part)
    BY <1>1, <1>2, <2>1 DEF ValidDag, Resolves
  <2>3. QED
    BY <1>4, <2>2 DEF Hashes
<1>5. CASE current \in Range(path)
  <2>1. PICK e \in met : e.prev_hash \notin Hashes(met)
    BY <1>1, <1>3 DEF ValidDag, Acyclic
  <2>2. e.prev_hash \in Range(path)
    BY <1>5 DEF WalkGoesOn
  <2>3. e.prev_hash # GENESIS_HASH
    BY <2>2, RowsOfTable DEF EdgesCounted, Visited
  <2>4. PICK f \in part : f.hash = e.prev_hash
    BY <1>1, <2>3 DEF ValidDag, Resolves, Hashes
  <2>5. f \in met
    BY <2>2, <2>4 DEF PathRows
  <2>6. QED
    BY <2>1, <2>4, <2>5 DEF Hashes
<1>6. QED
  BY <1>2, <1>4, <1>5

\* The memo takes the outcome of a walk for every row it met: rightly.
LEMMA EndWalkKept ==
    ASSUME VerifierInv, EndWalk
    PROVE  VerifierInv'
<1> USE DEF VerifierInv, TableOK
<1>1. /\ phase = "walk" /\ next \in 1..Len(entries) /\ Stops(current) /\ path' = <<>>
      /\ UNCHANGED <<entries, byHash, edges>>
      /\ resolved' = Remember(Outcome(current))
  BY DEF EndWalk
<1>2. /\ DOMAIN resolved' = Visited
      /\ \A h \in Visited :
           resolved'[h] = IF h \in Range(path) THEN Outcome(current) ELSE resolved[h]
  BY <1>1 DEF Remember, Visited
<1>3. Rows' = Rows /\ (Distinct' <=> Distinct)
  BY <1>1 DEF Rows, Distinct
<1>4. \A h : ReachesGenesis(h)' <=> ReachesGenesis(h)
  BY <1>1 DEF ReachesGenesis
<1>5. EdgesCounted'
  <2>1. Visited' = Visited
    BY <1>1, <1>2 DEF Visited, Range
  <2>2. QED
    BY <1>1, <1>3, <2>1 DEF EdgesCounted
<1>6. path = <<>> => current \in Hashes(Rows) /\ current # GENESIS_HASH /\ current \in DOMAIN resolved
  <2>1. ASSUME path = <<>> PROVE current \in Hashes(Rows) /\ current # GENESIS_HASH
    BY <1>1, <2>1, RowsOfTable DEF WalkGoesOn
  <2>2. QED
    BY <1>1, <2>1 DEF Stops, Contains, LoopsDone
<1>7. CASE Outcome(current)
  <2>1. /\ phase' = "walk" /\ next' = next + 1 /\ result' = result
        /\ current' = (IF next < Len(entries) THEN entries[next + 1].hash ELSE GENESIS_HASH)
    BY <1>1, <1>7 DEF EndWalk
  <2>2. ValidDag(ResolvedRows \cup PathRows)
    BY <1>1, <1>7, WalkSucceeds
  <2>3. \A h \in Visited : resolved'[h] = TRUE
    BY <1>1, <1>2, <1>7 DEF WalksSucceeded, Visited
  <2>4. ResolvedRows' = ResolvedRows \cup PathRows /\ Hashes(ResolvedRows') = Visited
    <3>1. ResolvedRows' = ResolvedRows \cup PathRows
      BY <1>2, <1>3 DEF ResolvedRows, PathRows, Visited
    <3>2. \A h \in Visited : h \in Hashes(ResolvedRows')
      BY <1>2, <1>3 DEF EdgesCounted, ResolvedRows, Hashes
    <3>3. \A h \in Hashes(ResolvedRows') : h \in Visited
      BY <1>2 DEF ResolvedRows, Hashes
    <3>4. QED
      BY <3>1, <3>2, <3>3
  <2>5. TableOK' /\ LoopsDone' /\ VerdictIsExact'
    BY <1>1, <1>3, <2>1 DEF LoopsDone, VerdictIsExact
  <2>6. entries[next].hash \in Visited
    BY <1>1, <1>6 DEF WalkGoesOn, Visited
  <2>7. WalksSucceeded'
    <3>1. \A i \in 1..next' - 1 : entries[i].hash \in Visited
      <4>1. 1..next' - 1 = (1..next - 1) \cup {next}
        BY <1>1, <2>1
      <4>2. QED
        BY <1>1, <2>6, <4>1 DEF WalksSucceeded, Visited
    <3>2. Visited \subseteq Hashes(Rows)
      BY DEF EdgesCounted
    <3>3. QED
      BY <1>1, <1>2, <1>3, <2>2, <2>3, <2>4, <3>1, <3>2 DEF WalksSucceeded
  <2>8. WalkGoesOn'
    <3>1. Range(path)' = {} /\ PathRows' = {}
      BY <1>1 DEF Range, PathRows
    <3>2. next' <= Len(entries)' => current' = entries'[next'].hash
      BY <1>1, <2>1
    <3>3. QED
      BY <1>1, <3>1, <3>2 DEF WalkGoesOn
  <2>9. MemoIsExact'
    <3>1. \A h \in Visited : ReachesGenesis(h)
      <4>1. ResolvedRows \cup PathRows \in SUBSET Rows
        BY DEF ResolvedRows, PathRows
      <4>2. QED
        BY <2>2, <2>4, <4>1, PartReaches
    <3>2. QED
      BY <1>2, <1>4, <2>3, <3>1 DEF MemoIsExact
  <2>10. QED
    BY <1>5, <2>5, <2>7, <2>8, <2>9
<1>8. CASE ~ Outcome(current)
  <2>1. phase' = "done" /\ result' = FALSE /\ UNCHANGED next
    BY <1>1, <1>8 DEF EndWalk
  <2>2. \A h \in Range(path) : ~ ReachesGenesis(h)
    BY <1>1, <1>8, WalkFails
  <2>3. MemoIsExact'
    BY <1>2, <1>4, <1>8, <2>2 DEF MemoIsExact, Visited
  <2>4. VerdictIsExact'
    <3>1. path # <<>>
      BY <1>1, <1>6, <1>8 DEF Outcome, WalksSucceeded
    <3>2. entries[next].hash \in Range(path)
      BY <1>1, <3>1 DEF WalkGoesOn
    <3>3. ASSUME ValidDag(Rows) PROVE FALSE
      <4>1. entries[next].hash \in Hashes(Rows)
        BY <1>1, RowsOfTable
      <4>2. QED
        BY <2>2, <3>2, <3>3, <4>1, PartReaches
    <3>4. ~ Sound'
      BY <1>3, <3>3 DEF Sound, Rows
    <3>5. QED
      BY <2>1, <3>4 DEF VerdictIsExact
  <2>5. TableOK'
    <3>1. path' \in Seq(Hashes(Rows))
      BY <1>1
    <3>2. QED
      BY <1>1, <1>3, <2>1, <3>1
  <2>6. LoopsDone' /\ WalksSucceeded' /\ WalkGoesOn'
    BY <2>1 DEF LoopsDone, WalksSucceeded, WalkGoesOn
  <2>7. QED
    BY <1>5, <2>3, <2>4, <2>5, <2>6
<1>9. QED
  BY <1>7, <1>8

\* When every row has been walked from, the table is one valid part of itself.
LEMMA AcceptKept ==
    ASSUME VerifierInv, Accept
    PROVE  TableOK' /\ LoopsDone' /\ VerdictIsExact'
<1> USE DEF VerifierInv, TableOK
<1>1. /\ phase = "walk" /\ next = Len(entries) + 1 /\ phase' = "done" /\ result' = TRUE
      /\ UNCHANGED <<entries, next, byHash, resolved, path, current, edges>>
  BY DEF Accept, Return
<1>2. Rows' = Rows
  BY <1>1 DEF Rows
<1>3. ResolvedRows = Rows
  <2>1. \A i \in 1..Len(entries) : entries[i].hash \in DOMAIN resolved
    BY <1>1 DEF WalksSucceeded
  <2>2. QED
    BY <2>1, RowsOfTable DEF ResolvedRows
<1>4. Sound'
  <2>1. Distinct /\ (\A i \in DOMAIN entries : entries[i].intact) /\ ValidDag(Rows)
    BY <1>1, <1>3 DEF LoopsDone, WalksSucceeded
  <2>2. QED
    BY <1>1, <2>1 DEF Sound, Distinct, Rows
<1>5. QED
  BY <1>1, <1>2, <1>4 DEF LoopsDone, VerdictIsExact

\* The verifier's invariant survives every step.
LEMMA VerifierInductive ==
    ASSUME VerifierInv, [VerifierNext]_verifierVars
    PROVE  VerifierInv'
<1>1. ASSUME UNCHANGED <<entries, resolved, path, edges>>
      PROVE  EdgesCounted' /\ MemoIsExact'
  BY <1>1 DEF VerifierInv, EdgesCounted, Visited, Rows, MemoIsExact, ReachesGenesis
<1>2. ASSUME phase' # "walk" PROVE WalksSucceeded' /\ WalkGoesOn'
  BY <1>2 DEF WalksSucceeded, WalkGoesOn
<1>3. CASE IndexRow
  <2>1. phase' # "walk" /\ UNCHANGED <<entries, resolved, path, edges>>
    BY <1>3 DEF IndexRow, Return
  <2>2. QED
    BY <1>1, <1>2, <1>3, <2>1, IndexKept DEF VerifierInv
<1>4. CASE RecomputeRow
  <2>1. phase' # "walk" /\ UNCHANGED <<entries, resolved, path, edges>>
    BY <1>4 DEF RecomputeRow, Return
  <2>2. QED
    BY <1>1, <1>2, <1>4, <2>1, RecomputeKept DEF VerifierInv
<1>5. CASE NextPhase
  <2>1. UNCHANGED <<entries, resolved, path, edges>>
    BY <1>5 DEF NextPhase
  <2>2. QED
    BY <1>1, <1>5, <2>1, NextPhaseKept DEF VerifierInv
<1>6. CASE Follow
  <2>1. UNCHANGED <<entries, phase, resolved, result>> /\ phase # "done"
    BY <1>6 DEF Follow
  <2>2. MemoIsExact' /\ VerdictIsExact'
    BY <2>1 DEF VerifierInv, MemoIsExact, ReachesGenesis, VerdictIsExact
  <2>3. QED
    BY <1>6, <2>2, FollowKept DEF VerifierInv
<1>7. CASE EndWalk
  BY <1>7, EndWalkKept
<1>8. CASE Accept
  <2>1. phase' # "walk" /\ UNCHANGED <<entries, resolved, path, edges>>
    BY <1>8 DEF Accept, Return
  <2>2. QED
    BY <1>1, <1>2, <1>8, <2>1, AcceptKept DEF VerifierInv
<1>9. CASE UNCHANGED verifierVars
  <2>1. UNCHANGED <<entries, phase, next, byHash, resolved, path, current, result, edges>>
    BY <1>9 DEF verifierVars
  <2>2. Rows' = Rows /\ (Distinct' <=> Distinct) /\ (Sound' <=> Sound)
    BY <2>1 DEF Rows, Distinct, Sound
  <2>3. TableOK' /\ LoopsDone' /\ VerdictIsExact'
    BY <2>1, <2>2 DEF VerifierInv, TableOK, LoopsDone, VerdictIsExact
  <2>4. ResolvedRows' = ResolvedRows /\ PathRows' = PathRows
    BY <2>1, <2>2 DEF ResolvedRows, PathRows
  <2>5. WalksSucceeded'
    BY <2>1, <2>2, <2>4 DEF VerifierInv, WalksSucceeded
  <2>6. WalkGoesOn'
    BY <2>1, <2>2, <2>4 DEF VerifierInv, WalkGoesOn
  <2>7. QED
    BY <1>1, <2>1, <2>3, <2>5, <2>6 DEF VerifierInv
<1>10. QED
  BY <1>3, <1>4, <1>5, <1>6, <1>7, <1>8, <1>9 DEF VerifierNext

\* Nothing is wrong before the first iteration.
LEMMA VerifierStarts ==
    ASSUME VerifierInit
    PROVE  VerifierInv
<1>1. entries \in Seq(TableRow)
  BY DEF VerifierInit, BoundedSeq, SeqOf
<1>2. Visited = {} /\ DOMAIN resolved = {} /\ path = <<>> /\ edges = 0 /\ phase = "index"
  BY DEF VerifierInit, Visited, Range
<1>3. TableOK /\ LoopsDone
  <2>1. next = 1 /\ byHash = {} /\ result = FALSE /\ 1..next - 1 = {}
    BY DEF VerifierInit
  <2>2. Len(entries) \in Nat /\ path \in Seq(Hashes(Rows))
    BY <1>1, <1>2
  <2>3. TableOK
    <3>1. next \in 1..Len(entries) + 1 /\ edges \in Nat
      BY <1>2, <2>1, <2>2
    <3>2. result \in BOOLEAN
      BY <2>1
    <3>3. phase \in {"index", "recompute", "walk", "done"}
      BY <1>2
    <3>4. QED
      BY <1>1, <2>2, <3>1, <3>2, <3>3 DEF TableOK
  <2>4. QED
    BY <1>2, <2>1, <2>3 DEF LoopsDone
<1>4. EdgesCounted
  BY <1>2, FS_EmptySet DEF EdgesCounted
<1>5. WalksSucceeded /\ WalkGoesOn /\ MemoIsExact /\ VerdictIsExact
  BY <1>2 DEF WalksSucceeded, WalkGoesOn, MemoIsExact, VerdictIsExact
<1>6. QED
  BY <1>3, <1>4, <1>5 DEF VerifierInv

\* At every step of verify_chain(), on a table of any size and any content: what its
\* loops have found, what its memo holds, and what the walk in progress is in.
THEOREM VerifierInvariant == VerifierSpec => []VerifierInv
<1>1. VerifierInit => VerifierInv
  BY VerifierStarts
<1>2. VerifierInv /\ [VerifierNext]_verifierVars => VerifierInv'
  BY VerifierInductive
<1>3. QED
  BY <1>1, <1>2, PTL DEF VerifierSpec

\* verify_chain() answers True for the sound tables and for no other.
THEOREM VerdictAlwaysExact == VerifierSpec => []VerdictIsExact
<1>1. VerifierInv => VerdictIsExact
  BY DEF VerifierInv
<1>2. QED
  BY <1>1, VerifierInvariant, PTL

\* The memo of _reaches_genesis() never holds a wrong outcome.
THEOREM MemoAlwaysExact == VerifierSpec => []MemoIsExact
<1>1. VerifierInv => MemoIsExact
  BY DEF VerifierInv
<1>2. QED
  BY <1>1, VerifierInvariant, PTL

\* Over all its walks, verify_chain() follows no more edges than the table has rows.
THEOREM EdgesAlwaysOnce == VerifierSpec => []EachEdgeOnce
<1>1. VerifierInv => EachEdgeOnce
  <2> SUFFICES ASSUME VerifierInv PROVE edges <= Len(entries)
    BY DEF EachEdgeOnce
  <2>1. IsFiniteSet(Hashes(Rows)) /\ Cardinality(Hashes(Rows)) <= Len(entries)
    BY HashesAreFew DEF VerifierInv, TableOK
  <2>2. Visited \in SUBSET Hashes(Rows)
    BY DEF VerifierInv, EdgesCounted
  <2>3. Cardinality(Visited) <= Cardinality(Hashes(Rows))
    BY <2>1, <2>2, FS_Subset
  <2>4. /\ Cardinality(Visited) \in Nat /\ Cardinality(Hashes(Rows)) \in Nat
        /\ Len(entries) \in Nat /\ edges \in Nat /\ edges <= Cardinality(Visited)
    BY <2>1, FS_CardinalityType DEF VerifierInv, TableOK, EdgesCounted
  <2>5. QED
    BY <2>1, <2>3, <2>4
<1>2. QED
  BY <1>1, VerifierInvariant, PTL
-----------------------------------------------------------------------------
(***************************************************************************)
(* The verifier's work is linear in the table.                             *)
(***************************************************************************)
\* A bound on the iterations still to come: one per row and two more for every loop to
\* finish, one per row left in this one, and one per hash no walk has met.
Budget ==
    LET n == Len(entries)
    IN  [index |-> 3 * n + 6, recompute |-> 2 * n + 4, walk |-> n + 2, done |-> 0][phase]
            + (n + 1 - next) + (Cardinality(Hashes(Rows)) - Cardinality(Visited))

\* The numbers in a budget, and its value in each phase.
BudgetFacts ==
    LET n == Len(entries)
        known == Cardinality(Hashes(Rows))
        met == Cardinality(Visited)
    IN  /\ n \in Nat /\ next \in Nat /\ next <= n + 1 /\ IsFiniteSet(Visited)
        /\ known \in Nat /\ met \in Nat /\ met <= known /\ known <= n
        /\ phase = "index" => Budget = 3 * n + 6 + (n + 1 - next) + (known - met)
        /\ phase = "recompute" => Budget = 2 * n + 4 + (n + 1 - next) + (known - met)
        /\ phase = "walk" => Budget = n + 2 + (n + 1 - next) + (known - met)
        /\ phase = "done" => Budget = n + 1 - next + (known - met)

\* The invariant says enough of the numbers to count with them.
LEMMA BudgetOf == VerifierInv => BudgetFacts
<1> SUFFICES ASSUME VerifierInv PROVE BudgetFacts
  OBVIOUS
<1>1. Len(entries) \in Nat /\ next \in Nat /\ next <= Len(entries) + 1
  BY DEF VerifierInv, TableOK
<1>2. IsFiniteSet(Hashes(Rows)) /\ Cardinality(Hashes(Rows)) <= Len(entries)
  BY HashesAreFew DEF VerifierInv, TableOK
<1>3. IsFiniteSet(Visited) /\ Visited \in SUBSET Hashes(Rows)
  BY DEF VerifierInv, EdgesCounted
<1>4. /\ Cardinality(Hashes(Rows)) \in Nat /\ Cardinality(Visited) \in Nat
      /\ Cardinality(Visited) <= Cardinality(Hashes(Rows))
  BY <1>2, <1>3, FS_Subset, FS_CardinalityType
<1>5. QED
  BY <1>1, <1>2, <1>3, <1>4, SMTT(20) DEF Budget, BudgetFacts

\* Every iteration spends some of the budget.
LEMMA StepSpends ==
    ASSUME BudgetFacts, BudgetFacts', VerifierInv, VerifierNext
    PROVE  Budget' < Budget
<1> DEFINE n == Len(entries)
           known == Cardinality(Hashes(Rows))
           met == Cardinality(Visited)
<1>1. /\ n \in Nat /\ next \in Nat /\ next <= n + 1
      /\ known \in Nat /\ met \in Nat /\ met <= known
      /\ phase = "index" => Budget = 3 * n + 6 + (n + 1 - next) + (known - met)
      /\ phase = "recompute" => Budget = 2 * n + 4 + (n + 1 - next) + (known - met)
      /\ phase = "walk" => Budget = n + 2 + (n + 1 - next) + (known - met)
  BY DEF BudgetFacts
<1>2. /\ n' \in Nat /\ next' \in Nat /\ known' \in Nat /\ met' \in Nat
      /\ phase' = "index" => Budget' = 3 * n' + 6 + (n' + 1 - next') + (known' - met')
      /\ phase' = "recompute" => Budget' = 2 * n' + 4 + (n' + 1 - next') + (known' - met')
      /\ phase' = "walk" => Budget' = n' + 2 + (n' + 1 - next') + (known' - met')
      /\ phase' = "done" => Budget' = n' + 1 - next' + (known' - met')
  BY DEF BudgetFacts
<1>3. entries' = entries /\ n' = n /\ known' = known
  <2>1. entries' = entries
    BY DEF VerifierNext, IndexRow, RecomputeRow, NextPhase, Follow, EndWalk, Accept, Return
  <2>2. QED
    BY <2>1 DEF Rows
<1>4. ASSUME UNCHANGED <<resolved, path>> PROVE met' = met
  BY <1>4 DEF Visited
<1>5. CASE UNCHANGED <<resolved, path, next>> /\ phase # "done" /\ phase' = "done"
  <2>1. met' = met /\ next' = next
    BY <1>4, <1>5
  <2>2. phase \in {"index", "recompute", "walk"}
    BY <1>5 DEF VerifierInv, TableOK
  <2>3. QED
    BY <1>1, <1>2, <1>3, <1>5, <2>1, <2>2, SMTT(20)
<1>6. CASE IndexRow \/ RecomputeRow
  <2>1. CASE phase' = "done"
    BY <1>5, <1>6, <2>1 DEF IndexRow, RecomputeRow, Return
  <2>2. CASE phase' = phase
    <3>1. /\ phase \in {"index", "recompute"} /\ next <= n /\ next' = next + 1
          /\ met' = met
      BY <1>4, <1>6, <2>2 DEF IndexRow, RecomputeRow, Return
    <3>2. QED
      BY <1>1, <1>2, <1>3, <2>2, <3>1, SMTT(20)
  <2>3. QED
    BY <1>6, <2>1, <2>2 DEF IndexRow, RecomputeRow, Return
<1>7. CASE NextPhase
  <2>1. next = n + 1 /\ next' = 1 /\ met' = met
    BY <1>1, <1>4, <1>7 DEF NextPhase
  <2>2. \/ phase = "index" /\ phase' = "recompute"
        \/ phase = "recompute" /\ phase' = "walk"
    BY <1>7 DEF NextPhase
  <2>3. QED
    BY <1>1, <1>2, <1>3, <2>1, <2>2
<1>8. CASE Follow
  <2>1. /\ phase = "walk" /\ phase' = phase /\ next' = next /\ resolved' = resolved
        /\ path' = Append(path, current) /\ path \in Seq(Hashes(Rows))
        /\ current \notin Visited /\ current \in Hashes(Rows)
    BY <1>8 DEF Follow, Stops, Contains, Range, Visited, VerifierInv, TableOK, LoopsDone
  <2>2. Range(path)' = Range(path) \cup {current}
    BY <2>1, RangeOfAppend
  <2>3. Visited' = Visited \cup {current}
    BY <2>1, <2>2 DEF Visited
  <2>4. met' = met + 1
    BY <2>1, <2>3, FS_AddElement DEF BudgetFacts
  <2>5. QED
    BY <1>1, <1>2, <1>3, <2>1, <2>4
<1>9. CASE EndWalk
  <2>1. path' = <<>> /\ phase = "walk" /\ DOMAIN resolved' = Visited
    BY <1>9 DEF EndWalk, Remember, Visited
  <2>2. Visited' = Visited
    BY <2>1 DEF Visited, Range
  <2>3. \/ phase' = "done" /\ next' = next
        \/ phase' = "walk" /\ next' = next + 1
    BY <1>9, <2>1 DEF EndWalk
  <2>4. QED
    BY <1>1, <1>2, <1>3, <2>1, <2>2, <2>3
<1>10. CASE Accept
  BY <1>5, <1>10 DEF Accept, Return
<1>11. QED
  BY <1>6, <1>7, <1>8, <1>9, <1>10 DEF VerifierNext

\* verify_chain() takes at most 5 n + 6 iterations for a table of n rows, a cyclic one
\* too, whatever its walks share: the budget starts there at most, and every
\* iteration spends some of it.
THEOREM VerifierIsLinear ==
    VerifierSpec => /\ phase = "index" /\ Budget <= 5 * Len(entries) + 6
                    /\ [](Budget \in Nat) /\ [][Budget' < Budget]_verifierVars
<1>1. VerifierInit => VerifierInv /\ phase = "index" /\ next = 1 /\ Cardinality(Visited) = 0
  <2> SUFFICES ASSUME VerifierInit
               PROVE  VerifierInv /\ phase = "index" /\ next = 1 /\ Cardinality(Visited) = 0
    OBVIOUS
  <2>1. Visited = {} /\ phase = "index" /\ next = 1
    BY DEF VerifierInit, Visited, Range
  <2>2. QED
    BY <2>1, FS_EmptySet, VerifierStarts
<1>2. VerifierInit => phase = "index" /\ Budget <= 5 * Len(entries) + 6
  BY <1>1, BudgetOf DEF BudgetFacts
<1>3. VerifierInv => Budget \in Nat
  <2> SUFFICES ASSUME VerifierInv PROVE Budget \in Nat
    OBVIOUS
  <2> DEFINE n == Len(entries)
             known == Cardinality(Hashes(Rows))
             met == Cardinality(Visited)
             rest == (n + 1 - next) + (known - met)
  <2>1. rest \in Nat /\ n \in Nat
    BY BudgetOf DEF BudgetFacts
  <2>2. \/ Budget = 3 * n + 6 + rest
        \/ Budget = 2 * n + 4 + rest
        \/ Budget = n + 2 + rest
        \/ Budget = rest
    <3>1. phase \in {"index", "recompute", "walk", "done"}
      BY DEF VerifierInv, TableOK
    <3>2. QED
      BY <2>1, <3>1, BudgetOf, SMTT(20) DEF BudgetFacts
  <2> HIDE DEF n, rest
  <2>3. QED
    BY <2>1, <2>2
<1>4. BudgetFacts /\ BudgetFacts' /\ VerifierInv /\ [VerifierNext]_verifierVars
         => [Budget' < Budget]_verifierVars
  BY StepSpends
<1>5. QED
  BY <1>2, <1>3, <1>4, BudgetOf, VerifierInvariant, PTL DEF VerifierSpec
-----------------------------------------------------------------------------
(***************************************************************************)
(* The verifier on the log of this system.                                 *)
(***************************************************************************)
\* What all_entries() returns of the log as it is: each committed row once, in
\* any order, and unaltered.
Snapshot ==
    /\ Distinct
    /\ \A e \in Rows :
           e.intact /\ \E f \in auditLog : e.hash = f.hash /\ e.prev_hash = f.prev_hash
    /\ Hashes(auditLog) \subseteq Hashes(Rows)

\* A snapshot of a valid log is a sound table.
LEMMA SnapshotIsSound ==
    ASSUME entries \in Seq(TableRow), ChainValid, Snapshot
    PROVE  Sound
<1>1. Hashes(Rows) = Hashes(auditLog)
  <2>1. ASSUME NEW h \in Hashes(Rows) PROVE h \in Hashes(auditLog)
    <3>1. PICK e \in Rows : e.hash = h
      BY DEF Hashes
    <3>2. \E f \in auditLog : f.hash = h
      BY <3>1 DEF Snapshot
    <3>3. QED
      BY <3>2 DEF Hashes
  <2>2. QED
    BY <2>1 DEF Snapshot
<1>2. UniqueHashes(Rows)
  <2>1. SUFFICES ASSUME NEW e \in Rows, NEW f \in Rows, e.hash = f.hash PROVE e = f
    BY DEF UniqueHashes
  <2>2. PICK i \in DOMAIN entries, j \in DOMAIN entries : e = entries[i] /\ f = entries[j]
    BY RowsOfTable
  <2>3. QED
    BY <2>1, <2>2 DEF Snapshot, Distinct
<1>3. Resolves(Rows)
  <2>1. \A f \in auditLog : f.prev_hash \in Hashes(auditLog) \cup {GENESIS_HASH}
    BY DEF ChainValid, ValidDag, Resolves
  <2>2. QED
    BY <1>1, <2>1 DEF Snapshot, Resolves
<1>4. Acyclic(Rows)
  <2>1. SUFFICES ASSUME NEW part \in SUBSET Rows, part # {}
                 PROVE  \E e \in part : e.prev_hash \notin Hashes(part)
    BY DEF Acyclic
  <2> DEFINE copied == {f \in auditLog : f.hash \in Hashes(part)}
  <2>2. Hashes(copied) = Hashes(part)
    <3>1. \A h \in Hashes(part) : h \in Hashes(auditLog)
      BY <1>1 DEF Hashes
    <3>2. QED
      BY <3>1 DEF Hashes
  <2>3. copied # {}
    BY <2>1, <2>2 DEF Hashes
  <2>4. PICK f \in copied : f.prev_hash \notin Hashes(copied)
    BY <2>3 DEF ChainValid, ValidDag, Acyclic
  <2>5. PICK e \in part : e.hash = f.hash
    BY DEF Hashes
  <2>6. e.prev_hash = f.prev_hash
    <3>1. PICK g \in auditLog : e.hash = g.hash /\ e.prev_hash = g.prev_hash
      BY DEF Snapshot
    <3>2. g = f
      BY <2>5, <3>1 DEF ChainValid, ValidDag, UniqueHashes
    <3>3. QED
      BY <3>1, <3>2
  <2>7. QED
    BY <2>2, <2>4, <2>6
<1>5. \A i \in DOMAIN entries : entries[i].intact
  BY RowsOfTable DEF Snapshot
<1>6. QED
  BY <1>2, <1>3, <1>4, <1>5 DEF Sound, Snapshot, Distinct, ValidDag, Rows

\* verify_chain() answers True on every snapshot of the log, at whatever instant
\* it was taken and whatever requests write while the verifier runs.
THEOREM OwnLogVerifies ==
    RefreshSpec /\ VerifierSpec => [](Snapshot => [](phase = "done" => result = TRUE))
<1>1. ChainValid /\ VerifierInv => (Snapshot => Sound)
  BY SnapshotIsSound DEF VerifierInv, TableOK
<1>2. Sound /\ [VerifierNext]_verifierVars => Sound'
  BY DEF VerifierNext, verifierVars, Sound, IndexRow, RecomputeRow, NextPhase, Follow,
         EndWalk, Accept, Return
<1>3. VerifierInv /\ Sound => (phase = "done" => result = TRUE)
  BY DEF VerifierInv, TableOK, VerdictIsExact
<1>4. QED
  BY <1>1, <1>2, <1>3, ChainAlwaysValid, VerifierInvariant, PTL DEF VerifierSpec
=============================================================================
