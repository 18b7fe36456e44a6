------------------------------- MODULE MCFleet -------------------------------
(* Fleet on a small instance. *)
EXTENDS Fleet, TLC

Symmetry == Permutations(Secrets) \cup Permutations(Requests)
=============================================================================
