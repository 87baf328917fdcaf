---------------------------- MODULE MCWebSession ----------------------------
(* Small instances of WebSession for TLC; with its liveness, no symmetry. *)
EXTENDS WebSession
=============================================================================
