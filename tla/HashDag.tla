------------------------------- MODULE HashDag -------------------------------
(***************************************************************************)
(* The graph the audit log must form: every row names its predecessor by   *)
(* hash, and the rows are a DAG rooted at GENESIS_HASH.  Forks (two rows    *)
(* with one predecessor) and several roots are legal: they are what        *)
(* concurrent writers produce.                                             *)
(*                                                                         *)
(* A row is a record with at least the fields "hash" and "prev_hash".      *)
(***************************************************************************)

CONSTANT GENESIS_HASH

Hashes(rows) == {row.hash : row \in rows}

\* The by_hash dictionary is injective: no two rows carry one hash.
UniqueHashes(rows) ==
    \A e, f \in rows : e.hash = f.hash => e = f

\* No dangling predecessor: prev_hash is the genesis hash or a row's hash.
Resolves(rows) ==
    \A e \in rows : e.prev_hash \in Hashes(rows) \cup {GENESIS_HASH}

\* No cycle.  Every non-empty part of the log has a row whose predecessor lies
\* outside that part; with Resolves, and a finite log, every backward walk
\* therefore ends at GENESIS_HASH.
Acyclic(rows) ==
    \A part \in SUBSET rows :
        part # {} => \E e \in part : e.prev_hash \notin Hashes(part)

ValidDag(rows) ==
    /\ UniqueHashes(rows)
    /\ Resolves(rows)
    /\ Acyclic(rows)
=============================================================================
