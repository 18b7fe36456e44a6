------------------------------- MODULE MCOutages -------------------------------
(* Outages on a small instance. *)
EXTENDS Outages, TLC
=============================================================================
