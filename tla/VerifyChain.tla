----------------------------- MODULE VerifyChain -----------------------------
(***************************************************************************)
(* The algorithm of verify_chain() and _reaches_genesis() in               *)
(* kernel/audit.py, run on an arbitrary table: a sequence of rows in which  *)
(* hashes may repeat, predecessors may dangle or form cycles, and content  *)
(* may have been altered.  Each iteration of a loop of the code is a step.  *)
(***************************************************************************)
EXTENDS Naturals, Sequences, SequencesExt, HashDag

CONSTANTS
    RowHash,     \* hashes a row of the table may carry
    MaxRows      \* bound: rows in the table

\* No row can carry the genesis hash, which is no SHA-256 digest.
ASSUME GenesisIsNoRowHash == GENESIS_HASH \notin RowHash

\* intact: recompute_hash() returns the hash stored in the row.
TableRow == [hash : RowHash, prev_hash : RowHash \cup {GENESIS_HASH},
             intact : BOOLEAN]

VARIABLES
    entries,     \* the snapshot all_entries() returned
    phase,       \* loop being run: "index", "recompute", "walk", or "done"
    next,        \* position in entries of that loop's next row
    byHash,      \* the by_hash dictionary: hashes seen by the first loop
    resolved,    \* hashes whose walk has an outcome, with that outcome
    path,        \* hashes visited by the walk in progress
    current,     \* hash that walk looks at
    result,      \* what verify_chain() returns, once phase is "done"
    edges        \* predecessor edges followed so far, over all the walks

verifierVars ==
    <<entries, phase, next, byHash, resolved, path, current, result, edges>>

VerifierInit ==
    /\ entries \in BoundedSeq(TableRow, MaxRows)
    /\ phase = "index"
    /\ next = 1
    /\ byHash = {}
    /\ resolved = [h \in {} |-> TRUE]
    /\ path = <<>>
    /\ current = GENESIS_HASH
    /\ result = FALSE
    /\ edges = 0

-----------------------------------------------------------------------------
Return(answer) ==
    /\ phase' = "done"
    /\ result' = answer
    /\ UNCHANGED <<entries, next, byHash, resolved, path, current, edges>>

\* A hash met twice ends the verification: two rows of one hash must not
\* collapse into one dictionary key.
IndexRow ==
    /\ phase = "index"
    /\ next <= Len(entries)
    /\ IF entries[next].hash \in byHash
       THEN Return(FALSE)
       ELSE /\ byHash' = byHash \cup {entries[next].hash}
            /\ next' = next + 1
            /\ UNCHANGED <<entries, phase, resolved, path, current, result,
                           edges>>

RecomputeRow ==
    /\ phase = "recompute"
    /\ next <= Len(entries)
    /\ IF ~entries[next].intact
       THEN Return(FALSE)
       ELSE /\ next' = next + 1
            /\ UNCHANGED <<entries, phase, byHash, resolved, path, current,
                           result, edges>>

\* The end of one loop over the rows is the start of the next.
NextPhase ==
    /\ phase \in {"index", "recompute"}
    /\ next > Len(entries)
    /\ phase' = IF phase = "index" THEN "recompute" ELSE "walk"
    /\ next' = 1
    /\ current' = IF phase = "recompute" /\ entries # <<>>
                  THEN entries[1].hash ELSE current
    /\ UNCHANGED <<entries, byHash, resolved, path, result, edges>>

-----------------------------------------------------------------------------
\* by_hash.get(hash), for a hash the dictionary holds
ByHash(h) == entries[CHOOSE i \in DOMAIN entries : entries[i].hash = h]

\* The walk from the row at "next" can stop at the hash it has come to ...
Stops(h) ==
    \/ h = GENESIS_HASH
    \/ h \in DOMAIN resolved
    \/ Contains(path, h)
    \/ h \notin byHash

\* Mutant: a walk that stops is taken to have succeeded.
OutcomeOptimistic(h) == IF h \in DOMAIN resolved THEN resolved[h] ELSE TRUE

\* ... with this outcome: genesis is reached, an earlier walk knows, or the
\* walk has met a cycle or a dangling predecessor.
Outcome(h) ==
    IF h = GENESIS_HASH THEN TRUE
    ELSE IF h \in DOMAIN resolved THEN resolved[h]
    ELSE FALSE

\* Mutant: the walk does not remember where it has been.
FollowForgetful ==
    /\ phase = "walk"
    /\ next <= Len(entries)
    /\ ~Stops(current)
    /\ current' = ByHash(current).prev_hash
    /\ edges' = IF edges <= MaxRows THEN edges + 1 ELSE edges
    /\ UNCHANGED <<entries, phase, next, byHash, resolved, path, result>>

\* Edges are counted up to MaxRows + 1, one more than may ever be followed.
Follow ==
    /\ phase = "walk"
    /\ next <= Len(entries)
    /\ ~Stops(current)
    /\ path' = Append(path, current)
    /\ current' = ByHash(current).prev_hash
    /\ edges' = IF edges <= MaxRows THEN edges + 1 ELSE edges
    /\ UNCHANGED <<entries, phase, next, byHash, resolved, result>>

\* Mutant: only the row the walk started from is remembered.
RememberFirst(outcome) ==
    [h \in DOMAIN resolved \cup {path[i] : i \in DOMAIN path \cap {1}} |->
        IF h \in Range(path) THEN outcome ELSE resolved[h]]

\* The outcome is remembered for every row on the path.
Remember(outcome) ==
    [h \in DOMAIN resolved \cup Range(path) |->
        IF h \in Range(path) THEN outcome ELSE resolved[h]]

EndWalk ==
    /\ phase = "walk"
    /\ next <= Len(entries)
    /\ Stops(current)
    /\ resolved' = Remember(Outcome(current))
    /\ path' = <<>>
    /\ IF ~Outcome(current)
       THEN /\ phase' = "done"
            /\ result' = FALSE
            /\ UNCHANGED <<next, current>>
       ELSE /\ next' = next + 1
            /\ current' = IF next < Len(entries)
                          THEN entries[next + 1].hash ELSE GENESIS_HASH
            /\ UNCHANGED <<phase, result>>
    /\ UNCHANGED <<entries, byHash, edges>>

Accept ==
    /\ phase = "walk"
    /\ next > Len(entries)
    /\ Return(TRUE)

VerifierNext ==
    IndexRow \/ RecomputeRow \/ NextPhase \/ Follow \/ EndWalk \/ Accept

\* One coroutine runs the loops, and nothing in them awaits: it is scheduled
\* until it returns.
VerifierSpec ==
    VerifierInit /\ [][VerifierNext]_verifierVars /\ WF_verifierVars(VerifierNext)

-----------------------------------------------------------------------------
(***************************************************************************)
(* The reference: the table is sound when its rows carry distinct hashes,  *)
(* none has been altered, and together they form a DAG rooted at genesis.  *)
(***************************************************************************)
Sound ==
    /\ \A i, j \in DOMAIN entries : entries[i].hash = entries[j].hash => i = j
    /\ \A i \in DOMAIN entries : entries[i].intact
    /\ ValidDag(Range(entries))

\* Following predecessors from h arrives at genesis: h belongs to a part of the
\* table that is closed under predecessors and has no cycle.
ReachesGenesis(h) ==
    \E part \in SUBSET Range(entries) : h \in Hashes(part) /\ ValidDag(part)

\* verify_chain() answers True exactly for the sound tables: forks and several
\* roots are accepted; duplicates, alterations, gaps and cycles are not.
VerdictIsExact == phase = "done" => (result <=> Sound)

\* The memo the walks share is never wrong, in whatever order the rows come and
\* whichever walk met a row first.
MemoIsExact ==
    \A h \in DOMAIN resolved : resolved[h] <=> ReachesGenesis(h)

\* "each entry's predecessor edge is walked at most once across the whole
\* verification pass": the cost stays linear whatever the rows share.
EachEdgeOnce == edges <= Len(entries)

\* Every table is judged, a cyclic one too.
Terminates == <>(phase = "done")
=============================================================================
