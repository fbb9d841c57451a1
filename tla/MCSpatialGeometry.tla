--------------------------- MODULE MCSpatialGeometry ---------------------------
(* A small instance of SpatialGeometry: requests are interchangeable. *)
EXTENDS SpatialGeometry, TLC

Symmetry == Permutations(Requests)
===============================================================================
