------------------------------ MODULE MCBackups ------------------------------
(* Backups on a small instance; the cfg of each run sets the ages and bounds. *)
EXTENDS Backups
=============================================================================
