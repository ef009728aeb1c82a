------------------------------- MODULE MCHub -------------------------------
(* Three requests for one table; its hub for TLC. *)
EXTENDS Hub
CONSTANTS r1, r2, r3
=============================================================================
