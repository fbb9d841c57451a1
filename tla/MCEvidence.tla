------------------------------ MODULE MCEvidence ------------------------------
(* A small instance of Evidence: requests are interchangeable. *)
EXTENDS Evidence, TLC

Symmetry == Permutations(Requests)
===============================================================================
