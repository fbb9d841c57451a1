---------------------------- MODULE MCInvitations ----------------------------
(* A small instance of Invitations: requests are interchangeable. *)
EXTENDS Invitations, TLC

Symmetry == Permutations(Requests)
==============================================================================
