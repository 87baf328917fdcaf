-------------------------- MODULE MCRelayAdmission --------------------------
(* A small instance of RelayAdmission for TLC. *)
EXTENDS RelayAdmission
=============================================================================
