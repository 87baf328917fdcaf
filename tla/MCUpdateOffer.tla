--------------------------- MODULE MCUpdateOffer ---------------------------
(* A small instance of UpdateOffer for TLC: two beta releases and a nightly one. *)
EXTENDS UpdateOffer
Tracks == [b \in Build |-> IF b = 4 THEN "nightly" ELSE "beta"]
=============================================================================
