---------------------------- MODULE MCSpendBrake ----------------------------
(* Instances of SpendBrake for TLC. *)
EXTENDS SpendBrake, TLC

RequestSymmetry == Permutations(Requests)
=============================================================================
