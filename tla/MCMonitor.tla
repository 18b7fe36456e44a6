------------------------------- MODULE MCMonitor -------------------------------
(* The Monitor page on a small instance: one panel and the two views of the page. *)
EXTENDS Monitor, TLC

Symmetry == Permutations(Views)
=============================================================================
