--------------------------- MODULE BoundaryRegister ---------------------------
(***************************************************************************)
(* What the Spatial context promises of one parcel: boundaries are only     *)
(* ever added, each is used once, and from the first one on there is       *)
(* exactly one that is current, the one added last (ADR-018).              *)
(***************************************************************************)
CONSTANT Boundaries

VARIABLES known, current

Init == known = {} /\ current = {}

\* A boundary takes the place of the current one, in one step.
Replace(b) ==
    /\ b \notin known
    /\ known' = known \cup {b}
    /\ current' = {b}

Next == \E b \in Boundaries : Replace(b)

Spec == Init /\ [][Next]_<<known, current>>
===============================================================================
