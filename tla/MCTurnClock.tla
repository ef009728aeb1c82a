---------------------------- MODULE MCTurnClock ----------------------------
(* Small tables for TLC. *)
EXTENDS TurnClock
\* A shot clock, a time bank and automatic deals, a second each
EverythingOn == [decision |-> 1, bank |-> 1, delay |-> 1]
=============================================================================
