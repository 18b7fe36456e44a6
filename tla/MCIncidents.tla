----------------------------- MODULE MCIncidents -----------------------------
(* Incidents on a small instance. *)
EXTENDS Incidents, TLC
=============================================================================
