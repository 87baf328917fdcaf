----------------------------- MODULE MCWebRelay -----------------------------
(* Small instances of WebRelay for TLC. *)
EXTENDS WebRelay, TLC
Symmetry == Permutations(Conn) \cup Permutations(Session) \cup Permutations(Addr)
=============================================================================
