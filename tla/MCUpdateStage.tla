--------------------------- MODULE MCUpdateStage ---------------------------
(* A small instance of UpdateStage for TLC. *)
EXTENDS UpdateStage
=============================================================================
