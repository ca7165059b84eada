------------------------------ MODULE MCSoulTurn ------------------------------
(* Instances of SoulTurn for TLC: two concurrent turns on any surfaces.     *)
EXTENDS SoulTurn, TLC

TurnSymmetry == Permutations(Turns)
=============================================================================
