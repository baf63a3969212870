-------------------------- MODULE MCTargetClients --------------------------
(* Small instances of TargetClients for TLC. *)
EXTENDS TargetClients, TLC
=============================================================================
