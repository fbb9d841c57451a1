--------------------------- MODULE ParcelLifecycle ---------------------------
(***************************************************************************)
(* Concurrent requests on one registered parcel: update_parcel(),          *)
(* archive_parcel() and set_geometry_reference() of the Registry, with the *)
(* ownership and status history they write (ADR-023).                      *)
(*                                                                         *)
(* Each request loads the parcel, checks and changes that copy in memory,  *)
(* and writes the whole copy back: PostgresParcelRepository.update() gets  *)
(* the record again and assigns every column, and the flush emits those    *)
(* columns that differ from the record it got.  There is no SELECT ... FOR *)
(* UPDATE and no version check.  READ COMMITTED: the UPDATE waits for the  *)
(* row lock of another writer and is then applied to the row it left.      *)
(***************************************************************************)
EXTENDS Naturals

CONSTANTS
    Requests,    \* the requests on the parcel
    Changes,     \* what a request may ask for: a function on some fields
    Refs,        \* names, contacts, titles and geometry references
    None,        \* a field that is null
    Creation     \* the request that created the parcel

Fields == {"status", "name", "contact", "title", "geometry"}

\* update_parcel() changes details, archive_parcel() the status and
\* set_geometry_reference() the geometry reference.
Details == {"name", "contact", "title"}

IsArchive(c) == DOMAIN c = {"status"} /\ c["status"] = "ARCHIVED"
IsGeometry(c) == DOMAIN c = {"geometry"} /\ c["geometry"] \in Refs \cup {None}
IsUpdate(c) ==
    /\ DOMAIN c # {} /\ DOMAIN c \subseteq Details
    /\ \A f \in DOMAIN c : c[f] \in Refs \cup {None}

ASSUME ChangesAssumption ==
    \A c \in Changes : IsArchive(c) \/ IsGeometry(c) \/ IsUpdate(c)
ASSUME NoneAssumption == None \notin Refs \cup Requests
ASSUME CreationAssumption == Creation \notin Requests \cup {None}

VARIABLES
    parcel,      \* the committed row of the parcels table
    ownership,   \* committed rows of parcel_ownership_history
    statuses,    \* committed rows of parcel_status_history
    auditLog,    \* audit rows, as <<request, what>>
    pc,          \* where a request is
    change,      \* what it asks for
    startedAt,   \* now() of its transaction: the recorded_at of its rows
    loaded,      \* the parcel as it was loaded
    base,        \* the record update() compares its copy with
    staged,      \* the history row flushed into its transaction, if any
    rowLock,     \* the request whose transaction has written the parcel's row
    clock        \* transactions started so far

vars == <<parcel, ownership, statuses, auditLog, pc, change, startedAt, loaded,
          base, staged, rowLock, clock>>

Parcel == [status : {"ACTIVE", "ARCHIVED"}, name : Refs \cup {None},
           contact : Refs \cup {None}, title : Refs \cup {None},
           geometry : Refs \cup {None}]

PCs == {"idle", "begun", "loaded", "reread", "written", "asserted", "audited",
        "responded", "committed", "rejected", "failed"}

\* _asserted_holder_ref(): "name (contact)", or the one that is there, or None.
HolderRef(p) ==
    IF p.name # None /\ p.contact # None THEN <<p.name, p.contact>>
    ELSE IF p.name # None THEN <<p.name>>
    ELSE IF p.contact # None THEN <<p.contact>>
    ELSE None

HolderRefs == {None} \cup (Refs \X Refs) \cup {<<ref>> : ref \in Refs}

\* What audit_ref points to: the id given to the audit call that follows.
AssertionAudit(r) == <<r, "assertion">>

\* A history row asserts one of the values; its id is the request's, which
\* writes at most one.
HistoryRow(values) ==
    [id : Requests \cup {Creation},
     value : values,
     recorded_at : Nat,
     audit_ref : (Requests \cup {Creation}) \X {"assertion"},
     supersedes : Requests \cup {Creation, None}]

StatusRow == HistoryRow({"ACTIVE", "ARCHIVED"})
OwnershipRow == HistoryRow(HolderRefs)

TypeOK ==
    /\ parcel \in Parcel
    /\ ownership \in SUBSET OwnershipRow
    /\ statuses \in SUBSET StatusRow
    /\ auditLog \subseteq (Requests \cup {Creation}) \X
                            {"assertion", "mutation", "denied"}
    /\ pc \in [Requests -> PCs]
    /\ change \in [Requests -> Changes]
    /\ startedAt \in [Requests -> Nat]
    /\ loaded \in [Requests -> Parcel]
    /\ base \in [Requests -> Parcel]
    /\ DOMAIN staged = Requests
    /\ \A r \in Requests :
          staged[r] \subseteq IF IsArchive(change[r]) THEN StatusRow
                              ELSE OwnershipRow
    /\ rowLock \in Requests \cup {None}
    /\ clock \in Nat

\* The parcel as create_parcel() committed it: one ACTIVE status row, and an
\* ownership row exactly if an owner was given.
CreationRow(value) ==
    [id |-> Creation, value |-> value, recorded_at |-> 0,
     audit_ref |-> AssertionAudit(Creation), supersedes |-> None]

Init ==
    /\ parcel \in {p \in Parcel : /\ p.status = "ACTIVE"
                                  /\ p.title = None
                                  /\ p.contact = None
                                  /\ p.geometry = None}
    /\ ownership = IF HolderRef(parcel) = None
                   THEN {} ELSE {CreationRow(HolderRef(parcel))}
    /\ statuses = {CreationRow("ACTIVE")}
    /\ auditLog = {AssertionAudit(Creation)}
    /\ pc = [r \in Requests |-> "idle"]
    /\ change \in [Requests -> Changes]
    /\ startedAt = [r \in Requests |-> 0]
    /\ loaded = [r \in Requests |-> parcel]
    /\ base = [r \in Requests |-> parcel]
    /\ staged = [r \in Requests |-> {}]
    /\ rowLock = None
    /\ clock = 0

-----------------------------------------------------------------------------
\* get_db_session(): the first statement starts the transaction, and now() is
\* that instant for all its rows.
Begin(r) ==
    /\ pc[r] = "idle"
    /\ clock' = clock + 1
    /\ startedAt' = [startedAt EXCEPT ![r] = clock + 1]
    /\ pc' = [pc EXCEPT ![r] = "begun"]
    /\ UNCHANGED <<parcel, ownership, statuses, auditLog, change, loaded, base,
                   staged, rowLock>>

\* _load_in_scope(): a plain SELECT of the committed row.
Load(r) ==
    /\ pc[r] = "begun"
    /\ loaded' = [loaded EXCEPT ![r] = parcel]
    /\ pc' = [pc EXCEPT ![r] = "loaded"]
    /\ UNCHANGED <<parcel, ownership, statuses, auditLog, change, startedAt,
                   base, staged, rowLock, clock>>

\* _authorize_mutation(): neither creator nor governance.  The denial is
\* audited eagerly and answered with 403.
Deny(r) ==
    /\ pc[r] = "loaded"
    /\ auditLog' = auditLog \cup {<<r, "denied">>}
    /\ pc' = [pc EXCEPT ![r] = "rejected"]
    /\ UNCHANGED <<parcel, ownership, statuses, change, startedAt, loaded, base,
                   staged, rowLock, clock>>

\* 409 when the loaded copy is archived (_ensure_mutable()), 400 when the
\* GeometryPort does not accept the reference.
Refuse(r) ==
    /\ pc[r] = "loaded"
    /\ \/ loaded[r].status = "ARCHIVED"
       \/ IsGeometry(change[r]) /\ change[r]["geometry"] # None
    /\ pc' = [pc EXCEPT ![r] = "rejected"]
    /\ UNCHANGED <<parcel, ownership, statuses, auditLog, change, startedAt,
                   loaded, base, staged, rowLock, clock>>

\* Mutant: model_dump() without exclude_unset.
CopyWithNulls(r) ==
    [f \in Fields |-> IF f \in DOMAIN change[r] THEN change[r][f] ELSE None]

\* update_details(), archive() or set_geometry_reference() on the copy, for a
\* copy _ensure_mutable() lets pass.
Copy(r) ==
    [f \in Fields |->
        IF f \in DOMAIN change[r] THEN change[r][f] ELSE loaded[r][f]]

\* Mutant: _ensure_mutable() is left out.
RereadUnguarded(r) ==
    /\ pc[r] = "loaded"
    /\ \E record \in {loaded[r], parcel} : base' = [base EXCEPT ![r] = record]
    /\ pc' = [pc EXCEPT ![r] = "reread"]
    /\ UNCHANGED <<parcel, ownership, statuses, auditLog, change, startedAt,
                   loaded, staged, rowLock, clock>>

\* The session.get() of update(): the record of the first load if the weak
\* identity map still holds it, else a second SELECT.
Reread(r) ==
    /\ pc[r] = "loaded"
    /\ loaded[r].status = "ACTIVE"
    /\ \E record \in {loaded[r], parcel} : base' = [base EXCEPT ![r] = record]
    /\ pc' = [pc EXCEPT ![r] = "reread"]
    /\ UNCHANGED <<parcel, ownership, statuses, auditLog, change, startedAt,
                   loaded, staged, rowLock, clock>>

\* Mutant: ORDER BY recorded_at ASC.
Earliest(rows) ==
    {row \in rows : \A other \in rows : other.recorded_at >= row.recorded_at}

\* latest_ownership(), latest_status(): ORDER BY recorded_at DESC LIMIT 1.
Latest(rows) ==
    {row \in rows : \A other \in rows : other.recorded_at <= row.recorded_at}

PriorId(rows) ==
    IF rows = {} THEN None ELSE (CHOOSE row \in Latest(rows) : TRUE).id

\* The row that asserts value after the rows already in the table.
Assertion(r, rows, value) ==
    [id |-> r, value |-> value, recorded_at |-> startedAt[r],
     audit_ref |-> AssertionAudit(r), supersedes |-> PriorId(rows)]

\* Mutant: archive_parcel() records nothing.
NewOwnershipOnly(r) ==
    IF IsUpdate(change[r]) /\ HolderRef(Copy(r)) # HolderRef(loaded[r])
    THEN {Assertion(r, ownership, HolderRef(Copy(r)))}
    ELSE {}

\* Mutant: update_parcel() records nothing when the owner is cleared.
NewHolderOnly(r) ==
    IF IsArchive(change[r]) THEN {Assertion(r, statuses, Copy(r).status)}
    ELSE IF IsUpdate(change[r]) /\ HolderRef(Copy(r)) \notin {None, HolderRef(loaded[r])}
    THEN {Assertion(r, ownership, HolderRef(Copy(r)))}
    ELSE {}

\* archive_parcel() always records a status, update_parcel() an ownership when
\* its copy's holder differs from the loaded one's.
NewHistory(r) ==
    IF IsArchive(change[r]) THEN {Assertion(r, statuses, Copy(r).status)}
    ELSE IF IsUpdate(change[r]) /\ HolderRef(Copy(r)) # HolderRef(loaded[r])
    THEN {Assertion(r, ownership, HolderRef(Copy(r)))}
    ELSE {}

\* Mutant: the history row is read and written before the UPDATE.
WriteUnlocked(r) ==
    /\ pc[r] = "reread"
    /\ rowLock' = r
    /\ staged' = [staged EXCEPT ![r] = NewHistory(r)]
    /\ pc' = [pc EXCEPT ![r] = "written"]
    /\ UNCHANGED <<parcel, ownership, statuses, auditLog, change, startedAt,
                   loaded, base, clock>>

\* The flush of the UPDATE, once no other transaction holds the row, then the
\* read of the latest history row and the flush of the new one.  With the row
\* lock held, no other transaction can commit between these statements to what
\* they read.
Write(r) ==
    /\ pc[r] = "reread"
    /\ rowLock = None
    /\ rowLock' = r
    /\ staged' = [staged EXCEPT ![r] = NewHistory(r)]
    /\ pc' = [pc EXCEPT ![r] = "written"]
    /\ UNCHANGED <<parcel, ownership, statuses, auditLog, change, startedAt,
                   loaded, base, clock>>

\* Mutant: entry_id is not passed to audit(), which makes an id of its own.
AuditWithOwnId(r) ==
    /\ pc[r] = "written"
    /\ auditLog' = auditLog \cup {<<r, "mutation">>}
    /\ pc' = [pc EXCEPT ![r] = "asserted"]
    /\ UNCHANGED <<parcel, ownership, statuses, change, startedAt, loaded, base,
                   staged, rowLock, clock>>

\* The eager audit rows: first the one a history row refers to, if there is a
\* history row, then that of the mutation.
AuditAssertion(r) ==
    /\ pc[r] = "written"
    /\ auditLog' = IF staged[r] = {} THEN auditLog
                   ELSE auditLog \cup {AssertionAudit(r)}
    /\ pc' = [pc EXCEPT ![r] = "asserted"]
    /\ UNCHANGED <<parcel, ownership, statuses, change, startedAt, loaded, base,
                   staged, rowLock, clock>>

AuditMutation(r) ==
    /\ pc[r] = "asserted"
    /\ auditLog' = auditLog \cup {<<r, "mutation">>}
    /\ pc' = [pc EXCEPT ![r] = "audited"]
    /\ UNCHANGED <<parcel, ownership, statuses, change, startedAt, loaded, base,
                   staged, rowLock, clock>>

\* The handler returns, and the response leaves before the commit.
Respond(r) ==
    /\ pc[r] = "audited"
    /\ pc' = [pc EXCEPT ![r] = "responded"]
    /\ UNCHANGED <<parcel, ownership, statuses, auditLog, change, startedAt,
                   loaded, base, staged, rowLock, clock>>

\* The UPDATE sets the columns in which the copy differs from the record of
\* update(), on the row as the last writer left it.
UpdatedRow(r) ==
    [f \in Fields |->
        IF Copy(r)[f] # base[r][f] THEN Copy(r)[f] ELSE parcel[f]]

\* session.commit(): the parcel's row and the history row become durable.
Commit(r) ==
    /\ pc[r] = "responded"
    /\ parcel' = UpdatedRow(r)
    /\ statuses' = statuses \cup
                      (IF IsArchive(change[r]) THEN staged[r] ELSE {})
    /\ ownership' = ownership \cup
                      (IF IsUpdate(change[r]) THEN staged[r] ELSE {})
    /\ staged' = [staged EXCEPT ![r] = {}]
    /\ rowLock' = None
    /\ pc' = [pc EXCEPT ![r] = "committed"]
    /\ UNCHANGED <<auditLog, change, startedAt, loaded, base, clock>>

\* Mutant: the history repository commits in a session of its own.
FailKeepsHistory(r) ==
    /\ pc[r] \notin {"idle", "committed", "rejected", "failed"}
    /\ statuses' = statuses \cup
                      (IF IsArchive(change[r]) THEN staged[r] ELSE {})
    /\ ownership' = ownership \cup
                      (IF IsUpdate(change[r]) THEN staged[r] ELSE {})
    /\ staged' = [staged EXCEPT ![r] = {}]
    /\ rowLock' = IF rowLock = r THEN None ELSE rowLock
    /\ pc' = [pc EXCEPT ![r] = "failed"]
    /\ UNCHANGED <<parcel, auditLog, change, startedAt, loaded, base, clock>>

\* An unexpected exception, a failed commit or the death of the process: the
\* transaction is rolled back, the eager audit rows stay.
Fail(r) ==
    /\ pc[r] \notin {"idle", "committed", "rejected", "failed"}
    /\ staged' = [staged EXCEPT ![r] = {}]
    /\ rowLock' = IF rowLock = r THEN None ELSE rowLock
    /\ pc' = [pc EXCEPT ![r] = "failed"]
    /\ UNCHANGED <<parcel, ownership, statuses, auditLog, change, startedAt,
                   loaded, base, clock>>

Next ==
    \E r \in Requests :
        \/ Begin(r) \/ Load(r) \/ Deny(r) \/ Refuse(r) \/ Reread(r)
        \/ Write(r) \/ AuditAssertion(r) \/ AuditMutation(r) \/ Respond(r)
        \/ Commit(r) \/ Fail(r)

Spec == Init /\ [][Next]_vars

\* Requests one after the other: none begins while another is in flight.
Ended == {"committed", "rejected", "failed"}

SerialNext ==
    /\ Next
    /\ \A r \in Requests :
          pc[r] = "idle" /\ pc'[r] # "idle" =>
             \A s \in Requests \ {r} : pc[s] \in Ended \cup {"idle"}

SerialSpec == Init /\ [][SerialNext]_vars

-----------------------------------------------------------------------------
(***************************************************************************)
(* What holds however the requests overlap.                                *)
(***************************************************************************)
\* "There is no code path that persists a parcel mutation without its history
\* row, or a history row without the mutation that produced it": the rows of a
\* table are those of the committed requests that assert something in it.
Asserts(r) ==
    \/ IsArchive(change[r])
    \/ IsUpdate(change[r]) /\ HolderRef(Copy(r)) # HolderRef(loaded[r])

HistoryIsAtomic ==
    \A r \in Requests :
        (\E row \in statuses : row.id = r) \/ (\E row \in ownership : row.id = r)
           <=> pc[r] = "committed" /\ Asserts(r)

\* Every history row's audit_ref resolves to an audit row that is durable no
\* later than the history row.
AuditRefsResolve ==
    /\ \A row \in statuses : row.audit_ref \in auditLog
    /\ \A row \in ownership : row.audit_ref \in auditLog

\* An archived parcel has the status row that archived it.
ArchivedIsRecorded ==
    parcel.status = "ARCHIVED" => \E row \in statuses : row.value = "ARCHIVED"

\* supersedes_id makes a tree of each table: it resolves, it has no cycle, and
\* there is one root, because the row lock of the flush makes requests read the
\* latest row one after the other.
Lineage == INSTANCE HashDag WITH GENESIS_HASH <- None

Linked(rows) ==
    {[hash |-> row.id, prev_hash |-> row.supersedes] : row \in rows}

OneRoot(rows) ==
    \A a, b \in rows : a.supersedes = None /\ b.supersedes = None => a = b

IsTree(rows) == Lineage!ValidDag(Linked(rows)) /\ OneRoot(rows)

LineageIsTree == IsTree(ownership) /\ IsTree(statuses)

-----------------------------------------------------------------------------
(***************************************************************************)
(* What holds when requests follow each other (SerialSpec), and fails when *)
(* a copy is written back over what another request has committed.         *)
(***************************************************************************)
\* "Archived parcels remain permanently protected from further mutation."
ArchivedIsFrozen ==
    [][parcel.status = "ARCHIVED" => UNCHANGED parcel]_vars

\* A field the client omits is left unchanged.
UnsentFieldsUnchanged ==
    [][\A r \in Requests :
          pc[r] = "responded" /\ pc'[r] = "committed" =>
             \A f \in Fields \ DOMAIN change[r] : parcel'[f] = parcel[f]]_vars

\* A row supersedes the prior one: no row is superseded twice.
Unforked(rows) ==
    \A a, b \in rows :
        a.supersedes = b.supersedes /\ a.supersedes # None => a = b

SupersededOnce == Unforked(ownership) /\ Unforked(statuses)

\* The holder of the parcel is the one its latest ownership row asserts.
HolderMatchesHistory ==
    HolderRef(parcel) =
       IF ownership = {} THEN None
       ELSE (CHOOSE row \in Latest(ownership) : TRUE).value

=============================================================================
