--------------------------- MODULE MCRelayClient ---------------------------
(* A small instance of RelayClient for TLC. *)
EXTENDS RelayClient
=============================================================================
