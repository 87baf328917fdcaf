------------------------- MODULE MCHelperRetention -------------------------
(* A small instance of HelperRetention for TLC. *)
EXTENDS HelperRetention, TLC
Symmetry == Permutations(Copy)
=============================================================================
