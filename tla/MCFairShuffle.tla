--------------------------- MODULE MCFairShuffle ---------------------------
(* Small shuffles for TLC. *)
EXTENDS FairShuffle, TLC
\* Players are interchangeable: only seats are ordered
Symmetry == Permutations(Users)
=============================================================================
