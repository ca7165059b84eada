----------------------------- MODULE MCProactive ------------------------------
(* Instances of Proactive for TLC. *)
EXTENDS Proactive, TLC

ProactiveSymmetry == Permutations(Requests) \cup Permutations(Materials)

\* Every property but the type invariant is about behaviours without a race.
UntilRaced == ~raced
=============================================================================
