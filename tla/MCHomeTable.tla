---------------------------- MODULE MCHomeTable ----------------------------
(* Small tables for TLC. *)
EXTENDS HomeTable, TLC
\* Players are interchangeable: only seats are ordered
Symmetry == Permutations(Users)
=============================================================================
