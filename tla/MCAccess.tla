------------------------------- MODULE MCAccess -------------------------------
(* Access on a small instance. *)
EXTENDS Access, TLC

Symmetry == Permutations(Admins) \cup Permutations(Sessions) \cup Permutations(Requests)
=============================================================================
