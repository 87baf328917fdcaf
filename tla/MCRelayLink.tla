---------------------------- MODULE MCRelayLink ----------------------------
(* Small instances of RelayLink for TLC. *)
EXTENDS RelayLink, TLC
Symmetry == Permutations(Conn) \cup Permutations(Session)
=============================================================================
