---------------------------- MODULE MCHeavyWork ----------------------------
(* Small sites for TLC: a free user and a subscriber. *)
EXTENDS HeavyWork
CONSTANTS r1, r2, r3, q1, alice, bob
MCUserOf == [r \in Requests |-> IF r = q1 THEN bob ELSE alice]
MCKindOf == [r \in Requests |-> CASE r = r2 -> "view" [] r = r3 -> "format" [] OTHER -> "deal"]
=============================================================================
