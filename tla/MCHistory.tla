------------------------------- MODULE MCHistory -------------------------------
(* History on a small instance. *)
EXTENDS History, TLC
=============================================================================
