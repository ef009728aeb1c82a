----------------------------- MODULE MCGrading -----------------------------
(* Small instances of the grader for TLC. *)
EXTENDS Grading, TLC
=============================================================================
