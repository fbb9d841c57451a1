-------------------------- MODULE AttributionLedger --------------------------
(***************************************************************************)
(* What actor attribution promises (ADR-028): an append-only table in      *)
(* which every correction supersedes the row that is active at that        *)
(* moment, so that a lineage never forks, and every row enters together    *)
(* with its audit row.                                                     *)
(***************************************************************************)
CONSTANTS Requests, NoRow

VARIABLES
    table,      \* rows [id, supersedes]
    audited     \* ids of the rows the audit log names

vars == <<table, audited>>

Ids == {row.id : row \in table}

\* The rows nobody has superseded: list_attributions_for_evidence() shows
\* exactly these as active.
ActiveIds == Ids \ {row.supersedes : row \in table}

Enter(row) ==
    /\ row.id \notin Ids
    /\ table' = table \cup {row}
    /\ audited' = audited \cup {row.id}

Init == table = {} /\ audited = {}

Record(r) == Enter([id |-> r, supersedes |-> NoRow])

Correct(r) ==
    \E head \in ActiveIds : Enter([id |-> r, supersedes |-> head])

Next == \E r \in Requests : Record(r) \/ Correct(r)

Spec == Init /\ [][Next]_vars
=============================================================================
