---------------------------- MODULE MCReflection ----------------------------
(* Instances of Reflection for TLC: two or three model values as tasks.     *)
EXTENDS Reflection, TLC
=============================================================================
