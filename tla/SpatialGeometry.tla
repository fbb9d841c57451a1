---------------------------- MODULE SpatialGeometry ----------------------------
(***************************************************************************)
(* The boundary of one parcel: submit_geometry() of the Spatial context and  *)
(* the two operations of the Registry it meets, set_geometry_reference() and *)
(* archive_parcel(), by concurrent requests.                                *)
(*                                                                         *)
(* Spatial reads the parcel's status and Registry validates a reference in  *)
(* Spatial's table, each without a lock.  Of two submissions the UPDATE of  *)
(* the geometry they both supersede and the partial unique index on ACTIVE  *)
(* geometries decide; the Registry writes a copy of the parcel back.        *)
(***************************************************************************)
CONSTANTS
    Requests,   \* requests; a geometry is named after the request that adds it
    Foreign,    \* active geometries of other parcels
    None        \* no reference, no geometry

ASSUME NamesAssumption == Requests \cap Foreign = {} /\ None \notin Requests \cup Foreign

VARIABLES
    geometries, \* committed geometries of the parcel, with their status
    parcel,     \* its committed row: status and geometry reference
    answered,   \* geometry ids clients have been given
    pc,         \* where a request is
    task,       \* what it is about
    prior,      \* submit: the active geometry it found; set: the reference it sets
    copy,       \* set, archive: the parcel it loaded and changed
    base,       \* the parcel the repository compares the copy with
    before      \* the requests that had ended when it began

vars == <<geometries, parcel, answered, pc, task, prior, copy, base, before>>

Ended == {"committed", "rejected", "failed"}
Parcel == [status : {"ACTIVE", "ARCHIVED"}, reference : Requests \cup Foreign \cup {None}]
PCs == {"idle", "read", "selected", "superseded", "added", "answered",
        "loaded", "changed", "fetched", "written"} \cup Ended

TypeOK ==
    /\ DOMAIN geometries \subseteq Requests
    /\ geometries \in [DOMAIN geometries -> {"ACTIVE", "SUPERSEDED"}]
    /\ parcel \in Parcel
    /\ answered \subseteq Requests
    /\ pc \in [Requests -> PCs]
    /\ task \in [Requests -> {"submit", "set", "archive", None}]
    /\ prior \in [Requests -> Requests \cup Foreign \cup {None}]
    /\ copy \in [Requests -> Parcel] /\ base \in [Requests -> Parcel]
    /\ before \in [Requests -> SUBSET Requests]

NewParcel == [status |-> "ACTIVE", reference |-> None]

Init ==
    /\ geometries = [g \in {} |-> "ACTIVE"]
    /\ parcel = NewParcel
    /\ answered = {}
    /\ pc = [r \in Requests |-> "idle"]
    /\ task = [r \in Requests |-> None]
    /\ prior = [r \in Requests |-> None]
    /\ copy = [r \in Requests |-> NewParcel]
    /\ base = [r \in Requests |-> NewParcel]
    /\ before = [r \in Requests |-> {}]

Goto(r, label) == pc' = [pc EXCEPT ![r] = label]
Active == {g \in DOMAIN geometries : geometries[g] = "ACTIVE"}
Begin(r, t) ==
    /\ pc[r] = "idle"
    /\ task' = [task EXCEPT ![r] = t]
    /\ before' = [before EXCEPT ![r] = {q \in Requests : pc[q] \in Ended}]

-----------------------------------------------------------------------------
\* Mutant: the status of the parcel is not looked at.
ReadAuthorityOnly(r) ==
    /\ Begin(r, "submit")
    /\ Goto(r, "read")
    /\ UNCHANGED <<geometries, parcel, answered, prior, copy, base>>

\* submit_geometry() reads the parcel's authority: archived parcels are refused.
ReadAuthority(r) ==
    /\ Begin(r, "submit")
    /\ parcel.status # "ARCHIVED"
    /\ Goto(r, "read")
    /\ UNCHANGED <<geometries, parcel, answered, prior, copy, base>>

\* get_active_for_parcel(): one, or none yet.
SelectActive(r) ==
    /\ pc[r] = "read"
    /\ IF Active = {} THEN UNCHANGED prior
       ELSE \E g \in Active : prior' = [prior EXCEPT ![r] = g]
    /\ Goto(r, "selected")
    /\ UNCHANGED <<geometries, parcel, answered, task, copy, base, before>>

\* r has superseded g and not ended; r has added its own and not ended.
HoldsPrior(r, g) ==
    /\ task[r] = "submit" /\ prior[r] = g
    /\ pc[r] \in {"superseded", "added", "answered"}
HoldsIndex(r) == pc[r] \in {"added", "answered"}

\* supersede() and update() of the active one; they wait for a rival's.
Supersede(r) ==
    /\ pc[r] = "selected" /\ prior[r] # None
    /\ \A q \in Requests : ~ HoldsPrior(q, prior[r])
    /\ Goto(r, "superseded")
    /\ UNCHANGED <<geometries, parcel, answered, task, prior, copy, base, before>>

MayAdd(r) == pc[r] = IF prior[r] = None THEN "selected" ELSE "superseded"

\* Mutant: the index is not unique.
AddUnindexed(r) ==
    /\ MayAdd(r)
    /\ Goto(r, "added")
    /\ UNCHANGED <<geometries, parcel, answered, task, prior, copy, base, before>>

\* add(): the unique index waits for a rival's entry, and refuses a second
\* active geometry with an IntegrityError.
Add(r) ==
    /\ MayAdd(r)
    /\ \A q \in Requests : ~ HoldsIndex(q)
    /\ IF Active \subseteq {prior[r]} THEN Goto(r, "added") ELSE Goto(r, "failed")
    /\ UNCHANGED <<geometries, parcel, answered, task, prior, copy, base, before>>

\* The audit row and the response, before the commit.
Answer(r) ==
    /\ pc[r] = "added"
    /\ answered' = answered \cup {r}
    /\ Goto(r, "answered")
    /\ UNCHANGED <<geometries, parcel, task, prior, copy, base, before>>

CommitGeometry(r) ==
    /\ pc[r] = "answered"
    /\ geometries' = [g \in DOMAIN geometries \cup {r} |->
                          IF g = r THEN "ACTIVE"
                          ELSE IF g = prior[r] THEN "SUPERSEDED" ELSE geometries[g]]
    /\ Goto(r, "committed")
    /\ UNCHANGED <<parcel, answered, task, prior, copy, base, before>>

-----------------------------------------------------------------------------
\* set_geometry_reference() and archive_parcel() load the parcel, which must not
\* be archived, and a reference is one a client has heard of, or None.
Load(r) ==
    /\ parcel.status # "ARCHIVED"
    /\ \/ /\ Begin(r, "set")
          /\ \E g \in answered \cup Foreign \cup {None} : prior' = [prior EXCEPT ![r] = g]
          /\ Goto(r, "loaded")
          /\ copy' = [copy EXCEPT ![r] = parcel]
       \/ /\ Begin(r, "archive")
          /\ Goto(r, "changed")
          /\ copy' = [copy EXCEPT ![r] = [parcel EXCEPT !.status = "ARCHIVED"]]
          /\ UNCHANGED prior
    /\ base' = [base EXCEPT ![r] = parcel]
    /\ UNCHANGED <<geometries, parcel, answered>>

\* Mutant: PlaceholderGeometryAdapter, to which every reference is valid.
ReferenceIsAnything(g) == TRUE

\* reference_is_valid(): an active geometry of this parcel that is committed.
ReferenceIsValid(g) == g \in Active

\* The reference is validated, or is None, and set in the copy.
SetReference(r) ==
    /\ pc[r] = "loaded"
    /\ \/ /\ prior[r] = None \/ ReferenceIsValid(prior[r])
          /\ copy' = [copy EXCEPT ![r].reference = prior[r]]
          /\ Goto(r, "changed")
       \/ /\ prior[r] # None /\ ~ ReferenceIsValid(prior[r])
          /\ Goto(r, "rejected")
          /\ UNCHANGED copy
    /\ UNCHANGED <<geometries, parcel, answered, task, prior, base, before>>

\* update() gets the record again: the one loaded, or what is committed now.
Fetch(r) ==
    /\ pc[r] = "changed"
    /\ base' \in {base, [base EXCEPT ![r] = parcel]}
    /\ Goto(r, "fetched")
    /\ UNCHANGED <<geometries, parcel, answered, task, prior, copy, before>>

\* The flush waits for another writer of the parcel.
Write(r) ==
    /\ pc[r] = "fetched"
    /\ \A q \in Requests : pc[q] # "written"
    /\ Goto(r, "written")
    /\ UNCHANGED <<geometries, parcel, answered, task, prior, copy, base, before>>

\* The columns in which the copy differs from the record it was compared with.
CommitParcel(r) ==
    /\ pc[r] = "written"
    /\ parcel' = [col \in DOMAIN parcel |->
                      IF copy[r][col] # base[r][col] THEN copy[r][col] ELSE parcel[col]]
    /\ Goto(r, "committed")
    /\ UNCHANGED <<geometries, answered, task, prior, copy, base, before>>

-----------------------------------------------------------------------------
\* 400, 403, 404, and the 409 of an archived parcel.
Reject(r) ==
    /\ Begin(r, None)
    /\ Goto(r, "rejected")
    /\ UNCHANGED <<geometries, parcel, answered, prior, copy, base>>

\* Any other end: an exception, a failed commit after the answer, a dead process.
Fail(r) ==
    /\ pc[r] \notin Ended \cup {"idle"}
    /\ Goto(r, "failed")
    /\ UNCHANGED <<geometries, parcel, answered, task, prior, copy, base, before>>

Next == \E r \in Requests :
    \/ ReadAuthority(r)
    \/ SelectActive(r)
    \/ Supersede(r)
    \/ Add(r)
    \/ Answer(r)
    \/ CommitGeometry(r)
    \/ Load(r)
    \/ SetReference(r)
    \/ Fetch(r)
    \/ Write(r)
    \/ CommitParcel(r)
    \/ Reject(r)
    \/ Fail(r)

Spec == Init /\ [][Next]_vars

-----------------------------------------------------------------------------
Register == INSTANCE BoundaryRegister WITH
    Boundaries <- Requests, known <- DOMAIN geometries, current <- Active

\* "exactly one ACTIVE geometry per parcel": submissions that race, fail or roll
\* back never leave two, never leave none where there was one, and never make a
\* superseded geometry current again.
ImplementsRegister == Register!Spec

\* A stored reference names a geometry of this parcel that is durable: not one of
\* another parcel, and not one whose submission was answered and then rolled back.
\* (It may since have been superseded: nothing updates the reference.)
ReferenceResolves == parcel.reference \in DOMAIN geometries \cup {None}

\* "cannot submit geometry for an archived parcel": the boundary of an archived
\* parcel changes only by a submission that some archive overlapped, having begun
\* before the archive ended; and so does its reference.
ArchiveEndsChanges ==
    [][parcel.status = "ARCHIVED"
            /\ (geometries' # geometries \/ parcel'.reference # parcel.reference) =>
        \E r, a \in Requests :
            /\ pc[r] # "committed" /\ pc'[r] = "committed"
            /\ task[a] = "archive" /\ pc[a] = "committed" /\ a \notin before[r]]_vars
===============================================================================
