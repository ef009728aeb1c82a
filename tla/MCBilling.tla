----------------------------- MODULE MCBilling -----------------------------
(* A user with two subscriptions, one after the other, for TLC. *)
EXTENDS Billing, TLC
Symmetry == Permutations(Workers) \cup Permutations(Subs)
=============================================================================
