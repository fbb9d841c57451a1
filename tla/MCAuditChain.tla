----------------------------- MODULE MCAuditChain -----------------------------
(* A small instance of AuditChain: its requests are interchangeable. *)
EXTENDS AuditChain, TLC

Symmetry == Permutations(Requests)
===============================================================================
