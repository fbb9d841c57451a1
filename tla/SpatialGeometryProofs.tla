------------------------- MODULE SpatialGeometryProofs -------------------------
(***************************************************************************)
(* Proofs about SpatialGeometry, for any requests: that submissions         *)
(* implement BoundaryRegister, that the stored reference resolves, and that *)
(* archiving ends the changes of what began afterwards.                    *)
(***************************************************************************)
EXTENDS SpatialGeometry, TLAPS

Submitting == {"read", "selected", "superseded", "added", "answered"}
Writing == {"loaded", "changed", "fetched", "written"}

\* Where a request is says what it is about, what it has found and what it may write.
PhaseOf(r) ==
    /\ pc[r] = "idle" => prior[r] = None
    /\ pc[r] \in Submitting => task[r] = "submit"
    /\ pc[r] = "read" => prior[r] = None
    /\ pc[r] \in Submitting => prior[r] \in DOMAIN geometries \cup {None}
    /\ pc[r] \in Writing =>
           /\ task[r] \in {"set", "archive"}
           /\ task[r] = "set" => copy[r].status = "ACTIVE"
           /\ copy[r].reference \in DOMAIN geometries \cup {None}
    /\ \A q \in before[r] : pc[q] \in Ended

PhaseInv == \A r \in Requests : PhaseOf(r)

\* The index has one entry in the making at a time, and it is for a geometry
\* whose request has superseded the active one.
IndexInv ==
    /\ \A g \in DOMAIN geometries : pc[g] = "committed"
    /\ \A r \in Requests : HoldsIndex(r) =>
           /\ Active \subseteq {prior[r]}
           /\ \A q \in Requests : HoldsIndex(q) => q = r

\* Whatever is under way in an archived parcel overlapped an archive.
ArchiveInv ==
    \A r \in Requests : parcel.status = "ARCHIVED" /\ pc[r] \notin Ended \cup {"idle"} =>
        \E a \in Requests : task[a] = "archive" /\ pc[a] = "committed" /\ a \notin before[r]

GeometryInv == TypeOK /\ PhaseInv /\ IndexInv /\ ArchiveInv /\ ReferenceResolves

\* One step of one request.
Act(r) ==
    \/ ReadAuthority(r) \/ SelectActive(r) \/ Supersede(r) \/ Add(r) \/ Answer(r)
    \/ CommitGeometry(r) \/ Load(r) \/ SetReference(r) \/ Fetch(r) \/ Write(r)
    \/ CommitParcel(r) \/ Reject(r) \/ Fail(r)

Same(q) ==
    /\ pc'[q] = pc[q] /\ task'[q] = task[q] /\ prior'[q] = prior[q]
    /\ copy'[q] = copy[q] /\ base'[q] = base[q] /\ before'[q] = before[q]

-----------------------------------------------------------------------------
\* No geometry, no request: the program starts with the invariant.
LEMMA InitInv == Init => GeometryInv
<1> SUFFICES ASSUME Init PROVE GeometryInv
    OBVIOUS
<1>1. NewParcel \in Parcel
    BY DEF NewParcel, Parcel
<1>2. TypeOK
    BY <1>1 DEF Init, TypeOK, PCs
<1>3. \A r \in Requests : pc[r] = "idle" /\ prior[r] = None /\ before[r] = {}
    BY DEF Init
<1>4. PhaseInv
    BY <1>3 DEF PhaseInv, PhaseOf, Submitting, Writing
<1>5. IndexInv
    BY <1>3 DEF Init, IndexInv, HoldsIndex
<1>6. ArchiveInv /\ ReferenceResolves
    BY DEF Init, NewParcel, ArchiveInv, ReferenceResolves
<1> QED BY <1>2, <1>4, <1>5, <1>6 DEF GeometryInv

\* The UPDATE of some columns of a parcel from a copy leaves a parcel.
LEMMA MergeIsParcel ==
    ASSUME NEW a \in Parcel, NEW b \in Parcel, NEW c \in Parcel, NEW m,
           m = [col \in DOMAIN a |-> IF b[col] # c[col] THEN b[col] ELSE a[col]]
    PROVE  m \in Parcel /\ m.reference \in {a.reference, b.reference}
<1>1. DOMAIN a = {"status", "reference"}
    BY DEF Parcel
<1>2. m = [status |-> m.status, reference |-> m.reference]
    BY <1>1
<1>3. m.status \in {a.status, b.status} /\ m.reference \in {a.reference, b.reference}
    BY <1>1
<1>4. m.status \in {"ACTIVE", "ARCHIVED"} /\ m.reference \in Requests \cup Foreign \cup {None}
    BY <1>3 DEF Parcel
<1> QED BY <1>2, <1>3, <1>4 DEF Parcel

\* Every step keeps the types.
LEMMA TypeStep == ASSUME GeometryInv, NEW r \in Requests, Act(r) PROVE TypeOK'
<1> USE DEF GeometryInv, TypeOK, PCs, Ended, Goto, Begin
<1>1. CASE ReadAuthority(r)
    BY <1>1 DEF ReadAuthority
<1>2. CASE SelectActive(r)
    BY <1>2 DEF SelectActive, Active
<1>3. CASE Supersede(r)
    BY <1>3 DEF Supersede
<1>4. CASE Add(r)
    BY <1>4 DEF Add
<1>5. CASE Answer(r)
    BY <1>5 DEF Answer
<1>6. CASE CommitGeometry(r)
    <2>1. geometries' \in [DOMAIN geometries \cup {r} -> {"ACTIVE", "SUPERSEDED"}]
        BY <1>6 DEF CommitGeometry
    <2> QED BY <1>6, <2>1 DEF CommitGeometry
<1>7. CASE Load(r)
    <2>1. [parcel EXCEPT !.status = "ARCHIVED"] \in Parcel
        BY DEF Parcel
    <2>2. UNCHANGED <<geometries, parcel, answered>> /\ base' \in [Requests -> Parcel]
        BY <1>7 DEF Load
    <2>3. CASE Begin(r, "set")
        <3>1. \E g \in answered \cup Foreign \cup {None} : prior' = [prior EXCEPT ![r] = g]
            BY <1>7, <2>3, NamesAssumption DEF Load
        <3> QED BY <1>7, <2>1, <2>2, <2>3 DEF Load
    <2>4. CASE Begin(r, "archive")
        BY <1>7, <2>1, <2>2, <2>4 DEF Load
    <2> QED BY <1>7, <2>3, <2>4 DEF Load
<1>8. CASE SetReference(r)
    <2>1. \A g \in Requests \cup Foreign \cup {None} : [copy[r] EXCEPT !.reference = g] \in Parcel
        <3>1. copy[r] \in Parcel
            OBVIOUS
        <3> HIDE DEF GeometryInv, TypeOK
        <3> QED BY <3>1 DEF Parcel
    <2>2. copy' \in [Requests -> Parcel]
        BY <1>8, <2>1 DEF SetReference
    <2> QED BY <1>8, <2>2 DEF SetReference
<1>9. CASE Fetch(r)
    BY <1>9 DEF Fetch
<1>10. CASE Write(r)
    BY <1>10 DEF Write
<1>11. CASE CommitParcel(r)
    <2>1. parcel' \in Parcel
        <3>1. parcel \in Parcel /\ copy[r] \in Parcel /\ base[r] \in Parcel
            OBVIOUS
        <3>2. parcel' = [col \in DOMAIN parcel |->
                      IF copy[r][col] # base[r][col] THEN copy[r][col] ELSE parcel[col]]
            BY <1>11 DEF CommitParcel
        <3> HIDE DEF GeometryInv, TypeOK
        <3> QED BY <3>1, <3>2, MergeIsParcel
    <2> QED BY <1>11, <2>1 DEF CommitParcel
<1>12. CASE Reject(r)
    BY <1>12 DEF Reject
<1>13. CASE Fail(r)
    BY <1>13 DEF Fail
<1> QED BY <1>1, <1>2, <1>3, <1>4, <1>5, <1>6, <1>7, <1>8, <1>9, <1>10, <1>11, <1>12, <1>13 DEF Act

\* A request that has ended takes no step, and no request moves another.
LEMMA Frame ==
    ASSUME GeometryInv, NEW r \in Requests, Act(r)
    PROVE  pc[r] \notin Ended /\ \A q \in Requests : q # r => Same(q)
<1> USE DEF GeometryInv, TypeOK, Goto, Begin, Same, Ended
<1>1. CASE ReadAuthority(r)
    BY <1>1 DEF ReadAuthority
<1>2. CASE SelectActive(r)
    BY <1>2 DEF SelectActive
<1>3. CASE Supersede(r)
    BY <1>3 DEF Supersede
<1>4. CASE Add(r)
    BY <1>4 DEF Add, MayAdd
<1>5. CASE Answer(r)
    BY <1>5 DEF Answer
<1>6. CASE CommitGeometry(r)
    BY <1>6 DEF CommitGeometry
<1>7. CASE Load(r)
    BY <1>7 DEF Load
<1>8. CASE SetReference(r)
    BY <1>8 DEF SetReference
<1>9. CASE Fetch(r)
    BY <1>9 DEF Fetch
<1>10. CASE Write(r)
    BY <1>10 DEF Write
<1>11. CASE CommitParcel(r)
    BY <1>11 DEF CommitParcel
<1>12. CASE Reject(r)
    BY <1>12 DEF Reject
<1>13. CASE Fail(r)
    BY <1>13 DEF Fail
<1> QED BY <1>1, <1>2, <1>3, <1>4, <1>5, <1>6, <1>7, <1>8, <1>9, <1>10, <1>11, <1>12, <1>13 DEF Act

\* A commit of a geometry makes it the only active one, as the index had room
\* for no other while its request had the entry.
LEMMA CommitReplaces ==
    ASSUME GeometryInv, NEW r \in Requests, CommitGeometry(r)
    PROVE  /\ r \notin DOMAIN geometries
           /\ DOMAIN geometries' = DOMAIN geometries \cup {r}
           /\ Active' = {r}
<1>1. pc[r] = "answered" /\ HoldsIndex(r)
    BY DEF CommitGeometry, HoldsIndex
<1>2. r \notin DOMAIN geometries
    BY <1>1 DEF GeometryInv, IndexInv
<1>3. DOMAIN geometries' = DOMAIN geometries \cup {r} /\ geometries'[r] = "ACTIVE"
    BY DEF CommitGeometry
<1>4. \A g \in DOMAIN geometries : geometries'[g] # "ACTIVE"
    <2> SUFFICES ASSUME NEW g \in DOMAIN geometries, geometries'[g] = "ACTIVE" PROVE FALSE
        OBVIOUS
    <2>1. geometries'[g] = IF g = prior[r] THEN "SUPERSEDED" ELSE geometries[g]
        BY <1>2 DEF CommitGeometry
    <2>2. g # prior[r] /\ g \in Active
        BY <2>1 DEF Active
    <2> QED BY <1>1, <2>2 DEF GeometryInv, IndexInv
<1> QED BY <1>2, <1>3, <1>4 DEF Active

\* Every other step leaves the geometries alone.
LEMMA OthersKeep ==
    ASSUME NEW r \in Requests, Act(r), ~ CommitGeometry(r)
    PROVE  geometries' = geometries
BY DEF Act, ReadAuthority, SelectActive, Supersede, Add, Answer, Load, SetReference, Fetch,
       Write, CommitParcel, Reject, Fail

\* Only a commit of the parcel writes its row.
LEMMA ParcelKept ==
    ASSUME NEW r \in Requests, Act(r), ~ CommitParcel(r)
    PROVE  parcel' = parcel
BY DEF Act, ReadAuthority, SelectActive, Supersede, Add, Answer, CommitGeometry, Load,
       SetReference, Fetch, Write, Reject, Fail

\* The points of a request, in order; a committed geometry stays.
LEMMA PhaseStep == ASSUME GeometryInv, NEW r \in Requests, Act(r) PROVE PhaseInv'
<1>f. pc[r] \notin Ended /\ \A q \in Requests : q # r => Same(q)
    BY Frame
<1>e. \A q \in Requests : pc[q] \in Ended => pc'[q] \in Ended
    BY <1>f DEF Same
<1>d. DOMAIN geometries \subseteq DOMAIN geometries'
    BY OthersKeep, CommitReplaces
<1>p. PhaseOf(r)
    BY DEF GeometryInv, PhaseInv
<1>b. \A q \in before[r] : pc'[q] \in Ended
    BY <1>p, <1>e DEF PhaseOf, GeometryInv, TypeOK
<1>q. ASSUME NEW q \in Requests, q # r PROVE PhaseOf(q)'
    <2>1. PhaseOf(q) /\ Same(q)
        BY <1>f, <1>q DEF GeometryInv, PhaseInv
    <2>2. \A o \in before[q] : pc'[o] \in Ended
        BY <2>1, <1>e DEF PhaseOf, GeometryInv, TypeOK
    <2> QED BY <2>1, <2>2, <1>d DEF PhaseOf, Same
<1>r. PhaseOf(r)'
    <2> USE DEF GeometryInv, TypeOK, Goto, Ended, Submitting, Writing
    <2>a. Active \subseteq DOMAIN geometries
        BY DEF Active
    <2>1. CASE ReadAuthority(r)
        <3>1. \A q \in before'[r] : pc'[q] \in Ended
            BY <2>1, <1>e DEF ReadAuthority, Begin
        <3> QED BY <2>1, <1>p, <3>1 DEF ReadAuthority, Begin, PhaseOf
    <2>2. CASE SelectActive(r)
        BY <2>2, <1>p, <1>b, <2>a DEF SelectActive, PhaseOf
    <2>3. CASE Supersede(r)
        BY <2>3, <1>p, <1>b DEF Supersede, PhaseOf
    <2>4. CASE Add(r)
        <3>1. pc[r] \in {"selected", "superseded"}
            BY <2>4 DEF Add, MayAdd
        <3> QED BY <2>4, <1>p, <1>b, <3>1 DEF Add, PhaseOf
    <2>5. CASE Answer(r)
        BY <2>5, <1>p, <1>b DEF Answer, PhaseOf
    <2>6. CASE CommitGeometry(r)
        <3>1. pc'[r] = "committed" /\ before' = before
            BY <2>6 DEF CommitGeometry
        <3> QED BY <3>1, <1>b DEF PhaseOf
    <2>7. CASE Load(r)
        <3>1. \A q \in before'[r] : pc'[q] \in Ended
            BY <2>7, <1>e DEF Load, Begin
        <3>2. \/ task'[r] = "set" /\ copy'[r] = parcel /\ pc'[r] = "loaded"
              \/ /\ task'[r] = "archive" /\ copy'[r] = [parcel EXCEPT !.status = "ARCHIVED"]
                 /\ pc'[r] = "changed"
            BY <2>7 DEF Load, Begin
        <3>3. parcel.status = "ACTIVE" /\ parcel.reference \in DOMAIN geometries \cup {None}
            BY <2>7 DEF Load, Parcel, ReferenceResolves
        <3>4. [parcel EXCEPT !.status = "ARCHIVED"].reference = parcel.reference
            BY DEF Parcel
        <3> QED BY <3>1, <3>2, <3>3, <3>4, <1>d DEF PhaseOf
    <2>8. CASE SetReference(r)
        <3>1. pc[r] = "loaded" /\ task' = task /\ before' = before /\ pc'[r] \in {"changed", "rejected"}
            BY <2>8 DEF SetReference
        <3>2. pc'[r] = "changed" =>
                  /\ copy'[r] = [copy[r] EXCEPT !.reference = prior[r]]
                  /\ prior[r] \in DOMAIN geometries \cup {None}
            BY <2>8, <2>a DEF SetReference, ReferenceIsValid
        <3>3. copy[r] \in Parcel
            OBVIOUS
        <3>4. [copy[r] EXCEPT !.reference = prior[r]].status = copy[r].status
              /\ [copy[r] EXCEPT !.reference = prior[r]].reference = prior[r]
            BY <3>3 DEF Parcel
        <3> QED BY <3>1, <3>2, <3>4, <1>p, <1>b, <1>d DEF PhaseOf
    <2>9. CASE Fetch(r)
        <3>1. pc[r] = "changed" /\ pc'[r] = "fetched" /\ UNCHANGED <<task, copy, before>>
            BY <2>9 DEF Fetch
        <3> QED BY <3>1, <1>p, <1>b, <1>d DEF PhaseOf
    <2>10. CASE Write(r)
        <3>1. pc[r] = "fetched" /\ pc'[r] = "written" /\ UNCHANGED <<task, copy, before>>
            BY <2>10 DEF Write
        <3> QED BY <3>1, <1>p, <1>b, <1>d DEF PhaseOf
    <2>11. CASE CommitParcel(r)
        <3>1. pc'[r] = "committed" /\ before' = before
            BY <2>11 DEF CommitParcel
        <3> QED BY <3>1, <1>b DEF PhaseOf
    <2>12. CASE Reject(r)
        <3>1. pc'[r] = "rejected" /\ \A q \in before'[r] : pc'[q] \in Ended
            BY <2>12, <1>e DEF Reject, Begin
        <3> QED BY <3>1 DEF PhaseOf
    <2>13. CASE Fail(r)
        <3>1. pc'[r] = "failed" /\ before' = before
            BY <2>13 DEF Fail
        <3> QED BY <3>1, <1>b DEF PhaseOf
    <2> QED BY <2>1, <2>2, <2>3, <2>4, <2>5, <2>6, <2>7, <2>8, <2>9, <2>10, <2>11, <2>12, <2>13
            DEF Act
<1> QED BY <1>q, <1>r DEF PhaseInv

\* While one request has the entry of the index, no other gets one or commits.
LEMMA IndexStep == ASSUME GeometryInv, NEW r \in Requests, Act(r) PROVE IndexInv'
<1>f. pc[r] \notin Ended /\ \A q \in Requests : q # r => Same(q)
    BY Frame
<1>i. IndexInv
    BY DEF GeometryInv
<1>1. \A g \in DOMAIN geometries' : pc'[g] = "committed"
    <2>1. CASE CommitGeometry(r)
        <3>1. pc'[r] = "committed"
            BY <2>1 DEF CommitGeometry, Goto, GeometryInv, TypeOK
        <3>2. \A g \in DOMAIN geometries : g \in Requests /\ g # r
            BY <1>f, <1>i DEF GeometryInv, IndexInv, TypeOK, Ended
        <3>3. DOMAIN geometries' = DOMAIN geometries \cup {r}
            BY <2>1, CommitReplaces
        <3>4. \A g \in DOMAIN geometries : pc'[g] = "committed"
            BY <3>2, <1>f, <1>i DEF Same, IndexInv
        <3> QED BY <3>1, <3>3, <3>4
    <2>2. CASE ~ CommitGeometry(r)
        <3>1. \A g \in DOMAIN geometries : g \in Requests /\ g # r
            BY <1>f, <1>i DEF GeometryInv, IndexInv, TypeOK, Ended
        <3> QED BY <2>2, <3>1, <1>f, <1>i, OthersKeep DEF Same, IndexInv
    <2> QED BY <2>1, <2>2
<1>2. ASSUME NEW q \in Requests, HoldsIndex(q)'
      PROVE  /\ Active' \subseteq {prior'[q]}
             /\ \A o \in Requests : HoldsIndex(o)' => o = q
    <2> DEFINE Goal == /\ Active' \subseteq {prior'[q]}
                       /\ \A o \in Requests : HoldsIndex(o)' => o = q
    <2> USE DEF GeometryInv, TypeOK, Goto
    <2>1. CASE Add(r)
        <3>1. geometries' = geometries /\ prior' = prior /\ Active' = Active
            BY <2>1 DEF Add, Active
        <3>2. \A o \in Requests : ~ HoldsIndex(o)
            BY <2>1 DEF Add
        <3>3. \A o \in Requests : o # r => ~ HoldsIndex(o)'
            BY <3>2, <1>f DEF Same, HoldsIndex
        <3>4. pc'[r] = "added" => Active \subseteq {prior[r]}
            BY <2>1 DEF Add
        <3>5. q = r /\ pc'[r] \in {"added", "answered"}
            BY <1>2, <3>3 DEF HoldsIndex
        <3>6. pc'[r] \in {"added", "failed"}
            BY <2>1 DEF Add
        <3> QED BY <3>1, <3>3, <3>4, <3>5, <3>6
    <2>2. CASE Answer(r)
        <3>1. \A o \in Requests : HoldsIndex(o)' = HoldsIndex(o)
            BY <2>2 DEF Answer, HoldsIndex
        <3>2. prior' = prior /\ Active' = Active
            BY <2>2 DEF Answer, Active
        <3> QED BY <1>2, <1>i, <3>1, <3>2 DEF IndexInv
    <2>3. CASE ~ Add(r) /\ ~ Answer(r)
        <3>1. pc'[r] \notin {"added", "answered"}
            BY <2>3 DEF Act, ReadAuthority, SelectActive, Supersede, CommitGeometry, Load,
                        SetReference, Fetch, Write, CommitParcel, Reject, Fail, Begin
        <3>2. q # r /\ HoldsIndex(q)
            BY <1>2, <1>f, <3>1 DEF HoldsIndex, Same
        <3>3. ~ HoldsIndex(r)
            BY <1>i, <3>2 DEF IndexInv
        <3>4. ~ CommitGeometry(r)
            BY <3>3 DEF CommitGeometry, HoldsIndex
        <3>5. Active' = Active
            BY <3>4, OthersKeep DEF Active
        <3>6. \A o \in Requests : HoldsIndex(o)' => HoldsIndex(o)
            BY <1>f, <3>1 DEF HoldsIndex, Same
        <3>7. prior'[q] = prior[q]
            BY <3>2, <1>f DEF Same
        <3> QED BY <1>i, <3>2, <3>5, <3>6, <3>7 DEF IndexInv
    <2> QED BY <2>1, <2>2, <2>3
<1> QED BY <1>1, <1>2 DEF IndexInv

\* Only an archive writes ARCHIVED, and what began before it has it not among
\* the requests that had ended; nothing begins in an archived parcel.
LEMMA ArchiveStep ==
    ASSUME GeometryInv, NEW r \in Requests, Act(r)
    PROVE  ArchiveInv'
<1>f. pc[r] \notin Ended /\ \A q \in Requests : q # r => Same(q)
    BY Frame
<1> SUFFICES ASSUME NEW q \in Requests, parcel'.status = "ARCHIVED",
                    pc'[q] \notin Ended \cup {"idle"}
             PROVE  \E a \in Requests : task'[a] = "archive" /\ pc'[a] = "committed"
                                        /\ a \notin before'[q]
    BY DEF ArchiveInv
<1> USE DEF GeometryInv, TypeOK, Goto, Begin
<1>1. CASE parcel.status = "ARCHIVED" /\ pc[q] \notin Ended \cup {"idle"} /\ before'[q] = before[q]
    <2>1. PICK a \in Requests : task[a] = "archive" /\ pc[a] = "committed" /\ a \notin before[q]
        BY <1>1 DEF ArchiveInv
    <2>2. Same(a)
        BY <2>1, <1>f DEF Ended
    <2> QED BY <1>1, <2>1, <2>2 DEF Same
<1>2. CASE q = r /\ pc[r] = "idle"
    <2>1. parcel.status # "ARCHIVED" /\ parcel' = parcel
        <3>1. CASE ReadAuthority(r)
            BY <3>1 DEF ReadAuthority
        <3>2. CASE Load(r)
            BY <3>2 DEF Load
        <3>3. CASE ~ ReadAuthority(r) /\ ~ Load(r)
            BY <1>2, <3>3 DEF Act, SelectActive, Supersede, Add, MayAdd, Answer, CommitGeometry,
                       SetReference, Fetch, Write, CommitParcel, Reject, Fail, Ended
        <3> QED BY <3>1, <3>2, <3>3
    <2> QED BY <2>1
<1>3. ASSUME q # r \/ pc[r] # "idle"
      PROVE  pc[q] \notin Ended \cup {"idle"} /\ before'[q] = before[q]
    <2>1. CASE q # r
        BY <1>f, <2>1 DEF Same
    <2>2. CASE q = r /\ pc[r] # "idle"
        BY <1>f, <2>2 DEF Act, ReadAuthority, SelectActive, Supersede, Add, Answer, CommitGeometry, Load,
                   SetReference, Fetch, Write, CommitParcel, Reject, Fail
    <2> QED BY <1>3, <2>1, <2>2
<1>4. CASE parcel.status # "ARCHIVED" /\ CommitParcel(r)
    <2>1. parcel \in Parcel /\ copy[r] \in Parcel /\ base[r] \in Parcel
        OBVIOUS
    <2>2. copy[r].status = "ARCHIVED"
        <3>1. parcel' = [col \in DOMAIN parcel |->
                      IF copy[r][col] # base[r][col] THEN copy[r][col] ELSE parcel[col]]
            BY <1>4 DEF CommitParcel
        <3>2. parcel'.status = IF copy[r].status # base[r].status THEN copy[r].status
                                                                  ELSE parcel.status
            BY <2>1, <3>1 DEF Parcel
        <3> QED BY <1>4, <3>2
    <2>3. task[r] = "archive" /\ r \notin before[q]
        <3>1. PhaseOf(r) /\ PhaseOf(q)
            BY DEF PhaseInv
        <3>2. pc[r] = "written"
            BY <1>4 DEF CommitParcel
        <3> QED BY <2>2, <3>1, <3>2 DEF PhaseOf, Writing, Ended
    <2>4. pc'[r] = "committed" /\ task' = task /\ before' = before
        BY <1>4 DEF CommitParcel
    <2> QED BY <2>3, <2>4
<1>5. CASE parcel.status # "ARCHIVED" /\ ~ CommitParcel(r)
    BY <1>5, ParcelKept
<1> QED BY <1>1, <1>2, <1>3, <1>4, <1>5

\* What the Registry writes as a reference has been found among the geometries.
LEMMA ReferenceStep ==
    ASSUME GeometryInv, NEW r \in Requests, Act(r)
    PROVE  ReferenceResolves'
<1>1. DOMAIN geometries \subseteq DOMAIN geometries'
    BY OthersKeep, CommitReplaces
<1>2. CASE CommitParcel(r)
    <2>1. parcel \in Parcel /\ copy[r] \in Parcel /\ base[r] \in Parcel
        BY DEF GeometryInv, TypeOK
    <2>2. parcel' = [col \in DOMAIN parcel |->
                  IF copy[r][col] # base[r][col] THEN copy[r][col] ELSE parcel[col]]
        BY <1>2 DEF CommitParcel
    <2>3. parcel'.reference \in {parcel.reference, copy[r].reference}
        BY <2>1, <2>2, MergeIsParcel
    <2>4. copy[r].reference \in DOMAIN geometries \cup {None}
        BY <1>2 DEF CommitParcel, GeometryInv, PhaseInv, PhaseOf, Writing
    <2> QED BY <1>1, <2>3, <2>4 DEF GeometryInv, ReferenceResolves
<1>3. CASE ~ CommitParcel(r)
    BY <1>1, <1>3, ParcelKept DEF GeometryInv, ReferenceResolves
<1> QED BY <1>2, <1>3

-----------------------------------------------------------------------------
\* Every step keeps the invariant.
LEMMA InvStep == GeometryInv /\ [Next]_vars => GeometryInv'
<1> SUFFICES ASSUME GeometryInv, [Next]_vars PROVE GeometryInv'
    OBVIOUS
<1>1. CASE UNCHANGED vars
    BY <1>1 DEF vars, GeometryInv, TypeOK, PhaseInv, PhaseOf, IndexInv, HoldsIndex, Active,
                ArchiveInv, ReferenceResolves
<1>2. ASSUME NEW r \in Requests, Act(r) PROVE GeometryInv'
    BY <1>2, TypeStep, PhaseStep, IndexStep, ArchiveStep, ReferenceStep DEF GeometryInv
<1>3. Next => \E r \in Requests : Act(r)
    BY Zenon DEF Next, Act
<1> QED BY <1>1, <1>2, <1>3

\* The invariant holds throughout, for any requests and any foreign geometries.
THEOREM InvariantHolds == Spec => []GeometryInv
<1>1. Init => GeometryInv
    BY InitInv
<1>2. GeometryInv /\ [Next]_vars => GeometryInv'
    BY InvStep
<1> QED BY <1>1, <1>2, PTL DEF Spec

\* Types: above all, what a stale copy writes back is a parcel.
THEOREM TypeCorrect == Spec => []TypeOK
<1>1. GeometryInv => TypeOK
    BY DEF GeometryInv
<1> QED BY <1>1, InvariantHolds, PTL

\* set_geometry_reference() stores only what reference_is_valid() found committed
\* and active in this parcel, and no geometry is ever deleted.
THEOREM ReferenceAlwaysResolves == Spec => []ReferenceResolves
<1>1. GeometryInv => ReferenceResolves
    BY DEF GeometryInv
<1> QED BY <1>1, InvariantHolds, PTL

\* submit_geometry() without a lock implements the register, in which one step
\* puts the new boundary in the place of the current one: the index lets in only
\* a submission that has superseded all there is.
THEOREM SubmissionsImplementRegister == Spec => ImplementsRegister
<1>1. Init => Register!Init
    BY DEF Init, Register!Init, Active
<1>2. ASSUME GeometryInv, [Next]_vars
      PROVE  [Register!Next]_<<DOMAIN geometries, Active>>
    <2>1. CASE UNCHANGED vars
        BY <2>1 DEF vars, Active
    <2>2. ASSUME NEW r \in Requests, Act(r), CommitGeometry(r) PROVE Register!Next
        BY <1>2, <2>2, CommitReplaces DEF Register!Next, Register!Replace
    <2>3. ASSUME NEW r \in Requests, Act(r), ~ CommitGeometry(r)
          PROVE  UNCHANGED <<DOMAIN geometries, Active>>
        BY <2>3, OthersKeep DEF Active
    <2>4. Next => \E r \in Requests : Act(r)
        BY Zenon DEF Next, Act
    <2> QED BY <1>2, <2>1, <2>2, <2>3, <2>4
<1> QED BY <1>1, <1>2, InvariantHolds, PTL DEF Spec, ImplementsRegister, Register!Spec

\* Both operations read the status before they write: in an archived parcel the
\* boundary and the reference change only for a request that an archive overlapped.
THEOREM ArchivesEndChanges == Spec => ArchiveEndsChanges
<1> DEFINE Overlapped == \E r, a \in Requests :
                /\ pc[r] # "committed" /\ pc'[r] = "committed"
                /\ task[a] = "archive" /\ pc[a] = "committed" /\ a \notin before[r]
<1>1. ASSUME GeometryInv, [Next]_vars, parcel.status = "ARCHIVED",
             geometries' # geometries \/ parcel'.reference # parcel.reference
      PROVE  Overlapped
    <2>1. ~ UNCHANGED vars
        BY <1>1 DEF vars
    <2>2. PICK r \in Requests : Act(r)
        BY <1>1, <2>1, Zenon DEF Next, Act
    <2>3. CommitGeometry(r) \/ CommitParcel(r)
        BY <1>1, <2>2, OthersKeep, ParcelKept
    <2>4. pc[r] \in {"answered", "written"} /\ pc'[r] = "committed"
        BY <1>1, <2>3 DEF CommitGeometry, CommitParcel, Goto, GeometryInv, TypeOK
    <2>5. \E a \in Requests : task[a] = "archive" /\ pc[a] = "committed" /\ a \notin before[r]
        BY <1>1, <2>4 DEF GeometryInv, ArchiveInv, Ended
    <2> QED BY <2>4, <2>5
<1>2. GeometryInv /\ [Next]_vars =>
          [parcel.status = "ARCHIVED"
              /\ (geometries' # geometries \/ parcel'.reference # parcel.reference) =>
                  Overlapped]_vars
    BY <1>1
<1> QED BY <1>2, InvariantHolds, PTL DEF Spec, ArchiveEndsChanges
===============================================================================
