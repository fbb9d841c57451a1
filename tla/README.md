# LandVault: a TLA+ model of the land registry backend

This directory models the Python backend under `src/backend/app`: what happens
to parcels, their boundaries, history and evidence, to sessions, invitations and
tenants, and to the audit log, when requests overlap, roll back, or die between
two database calls. One module models the preview server of the front end. Paths
below are relative to `src/backend/app` unless they start with `src/` or `docs/`.

## The system

The backend is one asyncio FastAPI service over PostgreSQL (READ COMMITTED),
with an identity provider and an object store outside the transaction. Every
HTTP request runs as one coroutine with one database session, hence one
transaction; coroutines interleave at every `await`, and several processes may
serve one database. Nothing takes `SELECT ... FOR UPDATE`. What orders requests
is what PostgreSQL locks (the row an `UPDATE` or `ON CONFLICT DO UPDATE` has
written) and refuses (unique indexes).

| Part | State it keeps | Operations | What makes it correct | What is hard |
| --- | --- | --- | --- | --- |
| Audit chain (`kernel/audit*.py`) | table `audit_log` of hash-linked rows | `audit()`, `audit_staged()`, `verify_chain()` | rows form a DAG rooted at genesis; every mutation has a row; a staged row is atomic with its mutation; the verifier accepts exactly the sound logs | the head is read in one call and the row written in another; eager rows commit in sessions of their own; clocks disagree |
| Unit of Work (`kernel/uow.py`) | the open transaction | begin, commit, rollback | what is answered is durable, what fails leaves nothing | the default session commits after the response, and commits on `HTTPException` |
| Registry numbering (`contexts/registry`) | `registry_parcel_counters`, `parcels.parcel_number` | `create_parcel` | numbers per country are 1, 2, 3, ...: no duplicate, no gap | concurrent creations of all tenants, rollbacks at any point |
| Registry lifecycle and history | `parcels`, `parcel_ownership_history`, `parcel_status_history` | `update_parcel`, `archive_parcel`, `set_geometry_reference` | archived is final; history and mutation are atomic; lineages are trees; the head of the history agrees with the parcel | load, check, write back whole with no version; `recorded_at` is the start of a transaction |
| Spatial (`contexts/spatial`) | `parcel_geometries`, one ACTIVE per parcel | `submit_geometry` | one active geometry; none on an archived parcel; the parcel's reference is active when stored | checks on another context's row, supersession races |
| Evidence (`contexts/evidence`) | `evidence_records`, objects in the store | `upload_evidence`, `record_upload`, `mark_hashed`, `seal`, legal hold | a record has its object and the right hash; sealed is final; a hold is not lost | the store has no transaction; copies written back |
| Attribution (`contexts/evidence`) | `evidence_actor_attributions`, append only | `record_attribution`, `correct_attribution` | each lineage is a chain with one head; row and audit row are atomic; a loser gets 409 and leaves nothing | the head is resolved before it is superseded |
| Sessions (`contexts/identity`) | `identity_sessions` | login, refresh, logout | a refresh token works once; replay ends the user's sessions | retries, rotation answered before it commits |
| Invitations (`contexts/identity`) | `identity_invitations`, `identity_users`, provider accounts | create, revoke, accept (two paths) | accepted once; a revoked one is not accepted; one account per e-mail | provider calls cannot be rolled back |
| Tenants, delegations, roles (`contexts/identity`) | `tenants`, `identity_delegations`, roles of users | suspend, reactivate, archive, delegate, extend, revoke, grant | archived and revoked are final; an extended delegation keeps within its grantor's authority | copies written back |
| Authorization (`kernel/authorization`, `context_hydration.py`) | none (a decision per request) | PDP, PEP, hydration | denials are audited; authority never exceeds the grant | authority read at the start of the request |
| Rate limiter (`kernel/security/http_hardening.py`) | hits per client and route | `dispatch` | at most the limit in every window | the boundaries of the window, `Retry-After` |
| Connection pool (`main.py`) | connections in use | checkout, return | every request ends | a request holds one connection and needs a second for each eager audit call |
| Preview server (`src/artifacts/mockup-sandbox`) | the generated module, the page's list and view | scan, watch, refresh, import | the module lists what is on disk; the page shows what its last list says | scans are slow and files change meanwhile; events that nobody hears; imports that outlive their list |

How they interact: services of every context call `audit()` while they hold
their own session, which opens further ones; Registry asks Spatial through the
`GeometryPort` whether a reference is valid; Spatial and Evidence read the
parcel's authority from Registry's table; every request's roles come from
Identity. All sessions, those of audit calls included, draw on one connection
pool.

The Express prototype (`src/artifacts/api-server`) cannot be built at this commit:
its routes import schemas that `lib/api-zod`, regenerated for the FastAPI server,
no longer has. The pages of `src/artifacts/landvault-web` hold no protocol of
their own: forms, and queries whose cache is a library's. `PROJECT.json` lists
each part that is left out with the reason.

## Modules

| Module | Models | Built on |
| --- | --- | --- |
| `HashDag` | the graph the audit log must form: unique hashes, resolving predecessors, no cycle | |
| `AuditChain` | requests with their Unit of Work, eager and staged audit calls | `HashDag` |
| `VerifyChain` | `verify_chain()` and `_reaches_genesis()`, one loop iteration a step | `HashDag` |
| `AuditChainProofs` | proofs about `AuditChain`, about `VerifyChain`, and about the verifier on the log of the requests | both |
| `NumberLedger` | abstract: per country, 1, 2, 3, ... in one step each | |
| `ParcelNumbering` | `create_parcel()` with the counter row, its lock, its transaction and the connection pool | refines `NumberLedger` |
| `ParcelLifecycle` | updates, archives and geometry changes of one parcel with their history | `HashDag` for lineages |
| `RegistryProofs` | proofs about `ParcelNumbering` and `ParcelLifecycle` | |
| `AttributionLedger` | abstract: recording a row, or superseding an active one, in one step | |
| `Attribution` | `record_attribution()`, `correct_attribution()`, the unique constraint, 409 | refines `AttributionLedger`; `HashDag` for lineages |
| `AttributionProofs` | proofs about `Attribution` | |
| `Evidence` | upload and its object store, `record_upload()`, `mark_hashed()`, `seal()`, legal hold | |
| `EvidenceProofs` | proofs about `Evidence` | |
| `RefreshSessions` | login, rotation, replay, refused refreshes and logout of one user | |
| `RefreshSessionsProofs` | proofs about `RefreshSessions` | |
| `BoundaryRegister` | abstract: one current boundary, replaced in one step | |
| `SpatialGeometry` | `submit_geometry()` against `set_geometry_reference()` and `archive_parcel()` | refines `BoundaryRegister` |
| `SpatialGeometryProofs` | proofs about `SpatialGeometry` | |
| `Invitations` | invitations, both acceptances, self-registration, suspension and archiving of the tenant | |
| `InvitationsProofs` | proofs about `Invitations` | |
| `MockupPreview` | the preview plugin's scans, watcher and restarts, and the page's imports | |
| `MockupPreviewProofs` | proofs about `MockupPreview` | |
| `MCAuditChain`, `MCParcelLifecycle`, `MCEvidence`, `MCSpatialGeometry`, `MCInvitations` | small instances for TLC | |

**`AuditChain`.** `auditLog` is the committed table, `staged[r]` the audit rows
request `r` has flushed and not committed, `wrote[r]` says that it has flushed
its mutation, `mutations` is the set of requests whose mutation is durable and
`acked` those whose client has been told of success. `mode[r]` separates the
two attribution endpoints ("staged": `audit_staged()`, function-scoped session,
commit before the response) from all the others ("eager": `audit()`, commit
after the response). `ReadLastHash` and the appends are the two database calls
of one audit call; `LastHash` returns any of the rows with the greatest
`created_at`, and `created_at` is any clock reading, so that clocks may tie and
go backwards. `Reject` is the `HTTPException` path (it commits), `Fail` every
other end: exception, failed commit, lost connection, dead process.
A hash is the pair (request, ordinal), because SHA-256 over a fresh uuid4 is
taken to be injective; content and its canonical JSON are abstracted away. A
request makes at most one mutation: the audited mutations of one request share
one transaction, and a second adds nothing to which row precedes which.
`RefreshSpec` adds `RevokeAndReject`, the refused refreshes of
`AuthService.refresh()`, which commit a revocation that nobody audits.

**`VerifyChain`.** Starts from an arbitrary sequence of rows and takes the
loops of the code one iteration a step; `resolved` is the memo, `path` the walk
in progress, `byHash` the keys of the dictionary. The two specifications of what
it should answer (`Sound`, `ReachesGenesis`) come from `HashDag` and use
neither the walk nor the memo. The names `VerifierSpec`, `TableRow` and the like let
one module extend it together with `AuditChain`.

**`ParcelNumbering`.** `Allocate` is the `INSERT ... ON CONFLICT DO UPDATE ...
RETURNING` statement: enabled when nobody's transaction holds the counter row,
and holding it until `CommitCreation` or `Rollback`. `drawn` is the number in the open
transaction, `counter` what is committed. `announced` is what the eager
"registry.parcel.created" row says, durable before the commit. A request holds a
connection from `BeginCreation` to its end, while it waits for the row as well, and
`OpenAudit` takes a second one; `InUse` counts both, and `PoolTimeout` is the
exception of the pool, whose request ends. The sessions of one audit call (for
`last_hash()`, for `append()`, and those of the ownership row) stand for one, as
each is a checkout of the same kind. The other requests of the service share the
pool and take from it in the same way. Refinement: `register <- parcels`; only
`CommitCreation` maps to a ledger step, every other action to a stutter. The names
`Creations`, `phase`, `NumberingSpec` and the like let one module extend it together
with `ParcelLifecycle`.

**`ParcelLifecycle`.** `loaded[r]` is the copy the request checks and changes,
`base[r]` the record that `PostgresParcelRepository.update()` gets again (the
same one, or a fresh `SELECT`, because SQLAlchemy's identity map is weak), and
`UpdatedRow` the columns the flush emits, applied to the row as the last writer
left it. `rowLock` is PostgreSQL's lock from that `UPDATE` to the end of the
transaction, and the history row is read and written under it. `clock` and
`startedAt` stand for `now()`, the start of the transaction, which fills
`recorded_at`. Name and contact stand for the owner fields, title for the other
nine updatable ones; the joined reference of `_asserted_holder_ref()` is a
tuple, so two texts that differ only in where the parentheses fall are told
apart here. Tenant scope filters reads and changes nothing; it is left out.

**`Attribution`.** `rows` and `log` are what is committed of the table and of its
audit rows, `staged` and `stagedLog` what open transactions have flushed. A row is
named after its request, as its id is a fresh uuid4. `cursor[r]` is `current` in
`_resolve_active_head()`: each `Hop` is one `get_successor()` and sees what is
committed at that moment. `Insert` is the flush in `record()`; while another open
transaction has inserted the same `supersedes_id` neither `Insert` nor `Collide`
is enabled, as PostgreSQL makes the statement wait. `Collide` is the
`IntegrityError` that the router rolls back and answers with 409. The cycle
trigger can only fire on rows this code does not write; it and both bounds of
10,000 hops are part of `Fail`. `Refuse` stands for every 400, 403 and 404: all
of them are raised before the walk or after it and before the `INSERT`, so that a
request which waits for a rival's key can no longer be refused. Refinement:
`table <- rows`, `audited <- log`; only `Commit` maps to a ledger step.

**`Evidence`.** A record and its object are named after the request that creates
them. `loaded[r]` is the copy a mutator has checked and changed, `base[r]` the row
its session has when it writes back; the row is locked from that write to the
end. `store` knows no transaction, so that an upload that is refused or rolls back
leaves an orphan object there, and its eager audit rows in `log`; a failed
integrity check is no `HTTPException`, hence also a rollback, and no record of it
remains (see below for the documents that say otherwise). `Alter` is the store
giving back other bytes. `record_upload()` has no endpoint and its records no
protection against a stale `mark_hashed()`; a second overlapping `seal()` may
overwrite `worm_grade`. The reason and author of a hold are columns written with
it and not told apart.

**`RefreshSessions`.** The sessions of one user. `rows` is committed, `wrote[r]`
the rows request `r` has written and not committed, whose locks it holds;
`victims[r]` those a flush has still to write, in the order of their ids (numbers
here, UUIDs there), since that is the order in which SQLAlchemy emits them.
`answered` holds the tokens clients have been given; any may be presented at any
time. `before[r]` is the set of requests that had ended when `r` began: it is what
properties about overlap are stated with. The expired session, the inactive user
and the refusal of the identity provider are one branch. The stamp of the last
login may be left out, because the code swallows its exception. What the code does
not promise: a session whose request has not committed when a replay is detected
survives it, and a token answered before its commit may be refused as unknown.

**`SpatialGeometry`.** A geometry is named after its request; `geometries` is what
is committed. `Supersede` takes the row lock of the geometry it supersedes, `Add`
waits for another open entry in the partial unique index; that violation, an
unhandled 500, is in `Fail`. `copy[r]` and `base[r]` are the Registry's load and
write-back of the parcel. Geometries of other parcels (`Foreign`) never pass the
validation; parsing WKT is a refusal. Nothing updates a stored reference when its
geometry is superseded, and a stale write-back may un-archive a parcel.

**`Invitations`.** One tenant, with its committed status, invitations, users, and
the accounts at Keycloak, which a rollback does not take back: an account left by a
failed acceptance keeps its e-mail from ever coming by Keycloak. `base[r]` is
what the session has of the row it writes back, read again or not, because the
identity map is weak. Unique violations are in `Fail`; expiry, a wrong e-mail and
the other 4xx are in `Reject`. The login that follows an acceptance may answer 401,
and its `HTTPException` commits the membership. An acceptance and a revocation
that overlap both succeed: the user stays, and the status is that of the last
writer. Row-level security hides the users of other tenants from
`create_invitation()`, so that an invitation of an e-mail registered elsewhere can
be pending and never accepted. The inviter keeps its own roles (`assign_role()` only
adds), but an invitation made by delegated rank is refused, and revoked, at its
redemption. The tenant a self-registration creates is another one and left out.

**`MockupPreview`.** `sure` and `maybe` bracket what a scan may find: the files
there throughout it, and at any time in it. `refreshQueued` folds the calls that
arrive meanwhile into one. `doubt` holds the files that changed with nobody told
(before the watcher was ready, or too briefly for an event). A crash forgets what is
in memory. On the page, each run of the effect has a number, and a load carries
that of the list it was started for. Partial writes of the module and the order
of its entries are left out.

## What the runs check

| Run | Instance | Result |
| --- | --- | --- |
| `audit_chain` | 2 requests, each eager or staged, 2 audit calls each, 2 clock readings | `ChainValid`, `EveryMutationAudited`, `StagedIsAtomic`, `AckedStagedIsDurable` hold |
| `audit_refresh` | the same with refused refreshes | `EveryMutationAudited` fails: a revocation commits with no audit row |
| `verify_chain` | every table of up to 3 rows over 3 hashes, intact or altered | the verdict is exact, the memo is never wrong, no edge is followed twice, the walk ends |
| `numbering` | 3 creations, 2 countries, 2 connections | `NumbersUnique`, `ParcelsAnnounced`; implements `NumberLedger`; every request ends |
| `attribution` | 4 requests, each recording or correcting any committed row | lineages are chains, losers leave nothing, implements `AttributionLedger`, every request ends |
| `lifecycle` | 3 overlapping requests; archive, transfer, clear, move to contact | history and mutation are atomic, `audit_ref` resolves, an archived parcel is recorded so, lineages are trees with one root |
| `lifecycle_serial` | 3 requests one after the other; all seven changes | archived is frozen, omitted fields stay, each history is one chain and its head is the holder |
| `evidence` | 4 requests, any operation on any record | a durable record has its object and hash, a failed integrity check leaves none, orphan objects are of uploads that did not commit; an uploaded record stays sealed, a hold changes only on request |
| `sessions` | 2 sessions of earlier days, 3 requests | one session per rotated token; a replay, a refusal and a logout end what they are about; every request ends |
| `geometry` | 4 requests, one foreign geometry | implements `BoundaryRegister`; a stored reference resolves; an archive ends changes, but for those that overlap it |
| `invitations` | 3 requests, an old invitation, 2 e-mails, 1 Supabase identity | an invitation admits once; accounts back users; a closed tenant admits nobody and archived is terminal, but for requests that overlap |
| `preview` | 2 files, 3 changes, 2 starts | the module converges to the disk; the page never shows an outdated load |

Where an invariant of types is proved (see below) the run does not repeat it.

**Bounds.** Two requests suffice to fork the log and to roll back under another
request's eyes: each audit call depends on the log only through one predecessor,
and with two calls each there are forks, several roots, ties and clocks that go
backwards. The proofs remove these bounds. For the verifier, three rows contain
a cycle of each length up to three, a shared ancestor, a fork, a gap behind a
sound row and a duplicate. Three creations put one request behind another on one
counter and a third on the other counter, with a rollback in front, behind or
between. Three requests on a parcel are the fewest for which one of them finds
that the row it supersedes was superseded before; the field values needed are
two, an old and a new one.
Four attributions allow a root, two rivals for it, and a third correction that
starts its walk at the root before, between or after them. Two connections are
the fewest with which the holder of a counter row waits for the pool while another
request waits for the row with a connection in hand, and also lets a third find no
connection at all. Four requests of `Evidence` are a creation and three mutators of
its record; four of `SpatialGeometry` are two rival submissions, a reference and an
archive. Three requests with two old sessions are two rotations of one token and a
replay, with ids below, between and above them, for the order of the locks. In
`Invitations` the old invitation stands for a first request, so that creation,
acceptance, revocation and a change of the tenant meet three at a time. Three
changes of the disk put one before, one in and one after a scan, and two starts have
one crash between them.
`MaxAudits`, `MaxRows`, `MaxChanges`, `MaxStarts`, `PoolSize` and the sets of requests,
changes and names are the only bounds; `PoolSize` is a parameter of the program (15 by
SQLAlchemy's defaults).

**Deadlock** is checked nowhere a request may simply have ended:
`CHECK_DEADLOCK FALSE` in these configurations says that a run where all requests
have ended stops.

**Fairness.** `ParcelNumbering!NumberingFairSpec` has weak fairness of each request's
own steps and of the pool's time-out: the event loop resumes every coroutine whose
database call has returned, PostgreSQL hands a released row lock to a waiter, and
a timer runs out. The time-out is needed: without it the run finds the state where
the holder of the row waits for a connection and the others wait, with all the
connections, for the row. With it, weak fairness is enough in a finite set of
requests. `Attribution!FairSpec` is the same: a waiting `INSERT` wakes when the
transaction it waits for has ended; that a walk comes to an end, although rows are
added meanwhile, is what `RequestsAreBounded` proves. `Rollback` has no fairness:
failures may happen, none is promised. `VerifyChain!VerifierSpec` has weak fairness of
the next step: one coroutine, nothing in the loops awaits. `RefreshSessions!Spec` has
weak fairness of the steps of each request that has begun, not of beginning and not
of failing; that the locks of a replay, taken in the order of ids, and of a rotation,
a session and then the user, never wait in a circle is what `EveryRequestEnds` says
there and `RequestsNeverDeadlock` proves. `MockupPreview!Spec` has it of the end of a
scan, the steps of a server's start and the watcher's events, and none of changes, of
`Rescan` or of `Crash`.

## What is proved

`tlapm` checks these for every set of requests, clock readings and countries.

*Audit chain* (`AuditChainProofs`; assumes that clock readings are naturals,
that the bound on audit calls is a natural and that the genesis hash is no
row's hash).
`ChainAlwaysValid` states that the committed log is a DAG at every instant. That
is not inductive: a commit adds rows that were linked inside a transaction, and
an append links to a predecessor read earlier. `ChainInv` adds that hashes are
named after their request and numbered below its counter (so a new row's hash is
new), that the predecessor an audit call holds is committed or its own (so it
resolves and cannot disappear), and that the log is a DAG as *each* open
transaction sees it. Adding a row with a fresh hash and a resolving predecessor
preserves the DAG (a lemma), and so does the union of two views over one
committed log when the added parts are disjoint.
`DurabilityInv` says where the success row is at each point of a request: in the
log before an eager request may respond, in the request's own transaction until a
staged request commits. It is kept request by request, each knowing only of itself,
which is why `StagingIsAtomic` and `StagedAcknowledgementIsDurable` hold of
`RefreshSpec`, next to refused refreshes that audit nothing; so do
`ChainAlwaysValid`, `LogOnlyGrows` (the action property that nothing leaves the log)
and the type invariant `TypeCorrect`, and by `RefreshesIncluded` all of them hold of
`Spec`. `NoUnauditedMutation` is a theorem of `Spec` alone: TLC shows that refused
refreshes break it.

*Verifier* (`AuditChainProofs`; assumes that no row carries the genesis hash), for
tables of any size: `VerdictAlwaysExact`, `MemoAlwaysExact`, `EdgesAlwaysOnce`.
That the verdict is exact is not inductive. `VerifierInv` adds what the loops have
found of the rows before `next`; that the rows earlier walks have judged are a valid
DAG by themselves (`WalksSucceeded`); and of the walk in progress (`WalkGoesOn`) that
it has met no judged row and that every way on from what it has met leads to
`current`. Two facts about parts of the table there replace an induction along the
path. A part of the path with no way out of itself has a row whose predecessor is
`current`: so the path and the judged rows together are a valid DAG if `current` is
judged, or genesis. And a part of the table that is closed under predecessors and
touches the path has a row of the path whose predecessor is `current`: so no such part
without cycles touches it if `current` is on the path, or no row at all.
`VerifierIsLinear`: a budget of 5 n + 6 iterations for n rows decreases with every
one, which is the safety half of `Terminates`.
`OwnLogVerifies` composes the two models: if the table is a snapshot of the log, at
whatever instant, `verify_chain()` answers True, whatever is written meanwhile.

*Numbering* (`RegistryProofs`; assumes that `NoRequest` is no request). For the numbers
the bound of the pool plays no part: its time-outs are rollbacks.
`NumberingInv` says that the durable numbers of a country are exactly
1..counter, that a request in its transaction holds the counter row and has drawn
the next number, and that what it goes on to commit has been announced.
From it: `NumbersAlwaysUnique`, `ParcelsAlwaysAnnounced`, and
`NumberingImplementsLedger`, the refinement.
`CreationsNeverStuck` is the safety half of `EveryRequestEnds`, for a pool of any size. A
counter row is locked by an open transaction (`HoldersAreOpen`), which needs no second
one; so whoever cannot proceed waits for the pool, whose timer runs, or for the holder of
a row that can proceed or is timed out; and each step leaves its request fewer to go.
`CanStep` and `TimerRuns` say there what the guards of `Step` and `PoolTimeout` say.

*Attribution* (`AttributionProofs`; assumes that `NoRow`, the NULL, is no request).
That lineages are chains is not inductive: a commit adds a row staged earlier.
`AttributionInv` adds that a staged row's key is superseded by no committed row
and by no other staged row, and ties `staged`, `stagedLog` and `log` to where each
request is. From it: `LineagesAlwaysChains` (with the lemma that
a fresh row below an old one keeps the DAG), `RefusalsAlwaysClean`, and
`AttributionImplementsLedger`, the refinement.
`RequestsAreBounded` is half of `EveryRequestEnds`: in a finite set of requests each
takes at most six steps more than there are requests. The table may grow under a
walk, so the rows ahead of it are no measure. `ToCome` adds those that may yet be
committed: a hop leaves its row behind for good, because lineages have no cycle, and
a commit adds only a row that was counted before.

*Parcel lifecycle* (`RegistryProofs`; assumes that `None` is no value and no
request, and that the creation is none of the requests). That lineages are trees is not
inductive: a request reads the latest row, and commits its own later. `HistoryInv`
adds the reason why that is harmless: the row lock is held from the flush of the
`UPDATE` to the end, hence what is staged is at any time what `NewHistory` would
give at that time, and the query for the latest row, which a commit extends by one
row, finds one unless the table is empty. From it: `HistoryAlwaysAtomic`,
`AuditRefsAlwaysResolve`, `ArchivedAlwaysRecorded`, `LineagesAlwaysTrees`, for `Spec`.
For `SerialSpec`, `SerialInv` adds that the copies in flight are the parcel, that the
request in flight began after every durable row, and that rows have different times
and supersede older ones. From it: `SerialArchivedFrozen`, `SerialUnsentUnchanged`,
`SerialSupersededOnce`, `SerialHolderMatches`.

*Evidence* (`EvidenceProofs`; assumes that the two contents differ and that `None` is
neither). `EvidenceInv` follows each creation through the store (an upload past `put()`
has its object, past the read-back the right hash) and says that no copy of an
uploaded record in any mutator's hands is older than HASHED, which is why a stale copy
cannot take a seal back. `TrailInv` adds what the store and the log know of an upload
that failed. From them: `RecordsAlwaysBacked`, `SealsHold`, `HoldsAreKept`.

*Sessions* (`RefreshSessionsProofs`; assumes that ids are numbers and that `User` and
`None` are none). `SessionInv` says that a durable session is the work of a committed
request together with the revocation of the one before it, that of two rotations of
one token the later sees the revocation of the earlier, and what each request has
still to end. From it: `RotationsAlwaysSingle`, `RevocationsAlwaysHold`.
`RequestsNeverDeadlock` is the safety half of `EveryRequestEnds`: in any finite set of
requests one waits for no lock of the others. `LockOrder`, invariant under `SessionInv`,
says that what a request has locked is before all it has still to lock and that the
user's row comes last; so along a chain of waits the sessions needed only ascend. With
the rows flushed in any other order TLC finds two replays waiting for each other.
`RequestsAreBounded` is the other half: of finitely many sessions a replay writes each
once, so every request has a number of steps left that each of its steps lowers and no
other request raises.

*Geometry* (`SpatialGeometryProofs`; assumes that names are different). `GeometryInv` says
that one entry of the index is in the making at a time, by a request that has
superseded all that was active; that the reference in any copy is durable; and that
what is under way in an archived parcel overlapped an archive. From it:
`ReferenceAlwaysResolves`, `SubmissionsImplementRegister`, `ArchivesEndChanges`.

*Invitations* (`InvitationsProofs`; assumes that no request has the name of an old invitation
or of an identity, and that `None` is none of them, no e-mail and no task). Each
acceptance writes back a copy that says PENDING, so that `InvitationsAdmitOnce` cannot
rest on what the copy says. `IInv` gives the reasons it holds: whoever has loaded an
invitation began before anybody had joined by it or revoked it (`LoadedPending`); a copy
is never ahead of the committed row, which never becomes pending again
(`CopiesNotAhead`); a second user of one invitation would have the e-mail of the first,
which the unique index refuses, of rows not committed yet too (`EmailsUnique`). The
other parts tie users to the joins that committed (`UsersJoined`) and accounts to the
requests that made them (`AccountsMade`), and say of whoever has passed the look at an
open tenant that it began before the end of whatever has closed it since
(`PassedActive`, `PassedUnarchived`): an action property about requests that overlap
needs an invariant about requests that have begun. From it: `AlwaysAdmitOnce`,
`AccountsAlwaysBack`, `ClosedTenantHolds`, `ArchivedHolds`.

*Preview* (`MockupPreviewProofs`; assumes finitely many files, among them that of the
page, and that the bounds are numbers). That the page shows what its own list says is
not inductive: a load may end after the list has changed. `PageFollows` adds that a load
which has not been cancelled is that of the last effect; from it `ViewAlwaysCurrent`.
The plugin answers any number of calls of `refresh()` during a scan with one scan after
it, and `PluginInv` says why that loses nothing: a file that the module is wrong about is
in hand (`InHand`), as an event the watcher has still to report, a queued scan, or a scan
that can only find of it what is true; files that changed while nobody watched (`doubt`)
are left out, as nothing promises them. From it `QuietAlwaysRight`: with no event due and
no scan under way the module lists what is on disk. `WorkAlwaysEnds` says that what the
server still has to do, when nothing else happens, decreases with every step of it, and
`SettledAlwaysRight` that the module is right when nothing is left: the safety halves of
`Converges`.

Only model-checked: the five liveness properties, since fairness is out of the prover's
reach: `EveryRequestEnds` of numbering, attribution and sessions, `Terminates` and
`Converges`. The finite
measure behind each of them is proved. No invariant, action property or refinement that
a passing run checks rests on the size of its instance.

## Where code and documents disagree

- A refused refresh revokes a session and audits nothing, against "every
  mutation, permitted or denied, is written to an append-only, hash-chained audit
  log" (`audit_refresh`).
- A request that loaded a parcel before it was archived changes it afterwards,
  against ADR-015 ("Archived parcels remain permanently protected from further
  mutation"). `ArchivedIsFrozen` holds for requests that follow each other and fails
  under `Spec`. From the same cause two overlapping archives both succeed, leaving
  three status rows where ADR-023 expects at most two, and an update may put back a
  field that its client had not sent.
- A history row may be superseded twice, because the latest row is found by the
  start time of the transaction that wrote it (`SupersededOnce` fails under `Spec`).
- Clearing the owner writes an ownership row with a null holder, against the
  docstring of `_asserted_holder_ref()`.
- An upload whose bytes do not read back right leaves no record: `EvidenceIntegrityError`
  is no `HTTPException`, so `get_db_session()` rolls the insert back with everything
  else. Its docstring says "the corresponding EvidenceRecord is left at RECEIVED"
  (`contexts/evidence/application/evidence_service.py:56-58`). Three tests of
  `src/backend/tests/test_evidence_upload.py` (lines 255-339) and one of
  `test_evidence_api.py` (line 369) expect one record, RECEIVED, after this or another
  failure past the insert: the in-memory repository they use has no transaction. And
  the audit rows "evidence.uploaded" and "evidence.integrity_check_failed" stay, against
  ADR-026 (lines 194-196), where the row and its audit entry "commit or roll back
  together". `FailedChecksLeaveNoRecord`, a part of `RecordsAreBacked`, states what the
  code does, and with the mutant that answers 409 instead, so that the session commits,
  it fails.
- A tenant that has been archived comes back if a suspension or a reactivation had
  loaded it before, against ADR-010 ("archive is terminal", lines 26-27).
- A failed request leaves PERMIT rows of what it never did, against ADR-023's
  account of one session for all three writes. In numbering, likewise, the log may
  name one number twice, though only one parcel has it.

Only the first has a run of its own. That of the integrity check is in a property that
holds, and is proved; the others are read from the code and from the actions that
model it.

## Not modelled

- Delegations and `assign_role()`: each loads one row, checks it and writes it back, as
  the tenant's operations in `Invitations` do, and `assign_role()` only adds.
- Authorization decisions: pure functions of the context hydrated at the start of the
  request. Row-level security and tenant scoping are filters on what is read.
- The rate limiter: nothing awaits between its reading and its writing of a window, so
  no two requests interleave there; its boundaries are arithmetic on one clock.
- Token verification, response headers, settings, health checks, migrations.
- Geometry parsing; the formatting of numbers and hashes; deletion of audit rows by an
  administrator, which the verifier does not claim to detect.
- The TypeScript other than the preview server. Most of it is a vendored component
  library, twice, and clients and schemas generated from the API specification, which
  keep no state that outlives a call; the pages of `landvault-web` are forms and
  queries; the Express prototype does not compile, so there is no program to be
  faithful to. Counted in lines this is the larger part of the repository.
- Infrastructure, scripts and CI.

## Plan

Done: the audit chain and its verifier; numbering with the connection pool; the parcel
lifecycle; attribution; evidence; sessions; geometry; invitations and tenants; the
preview server; proofs of every safety property the runs check, and of the measures
behind each liveness property.

Left, in this order:

1. `TenantDelegation`: delegate, extend and revoke next to the hydration of the
   grantor's roles.
2. `RateLimiter`: the limit in every window, and what `Retry-After` promises.

The instances stay small: two to four requests on one record each, since every
one of these races is between the load and the write-back of one row.
