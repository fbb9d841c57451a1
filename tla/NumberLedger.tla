---------------------------- MODULE NumberLedger ----------------------------
(***************************************************************************)
(* What parcel numbering promises (ADR-014): per country, registered       *)
(* parcels carry the numbers 1, 2, 3, ... in the order in which they       *)
(* become durable.  No number is skipped, given twice or taken back.       *)
(***************************************************************************)
EXTENDS Naturals

CONSTANTS Countries, Creations

VARIABLE register    \* the durable parcels: [request, country, number]

Numbers(c) == {row.number : row \in {p \in register : p.country = c}}

Init == register = {}

\* The creation of one parcel, in one step, with the next number.
Issue(r, c) ==
    \E n \in Numbers(c) \cup {0} :
        /\ Numbers(c) = 1..n
        /\ register' =
              register \cup {[request |-> r, country |-> c, number |-> n + 1]}

Next == \E r \in Creations, c \in Countries : Issue(r, c)

Spec == Init /\ [][Next]_register
=============================================================================
