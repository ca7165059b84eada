----------------------------- MODULE MCMemories ------------------------------
(* Instances of Memories for TLC.  Of the contents, one says what the two others  *)
(* say, which have nothing in common.                                             *)
EXTENDS Memories, TLC

CONSTANTS acme, friday, both

Alike == {p \in Topics \X Topics : p[1] = p[2] \/ both \in {p[1], p[2]}}

MemorySymmetry ==
  Permutations(Workers) \cup Permutations(FactTypes) \cup Permutations({acme, friday})
=============================================================================
