----------------------------- MODULE MCRtcVoice ------------------------------
(* Instances of RtcVoice for TLC. *)
EXTENDS RtcVoice, TLC

RtcSymmetry == Permutations(Rooms) \cup Permutations(Calls)
=============================================================================
