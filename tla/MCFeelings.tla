----------------------------- MODULE MCFeelings ------------------------------
(* Instances of Feelings for TLC. *)
EXTENDS Feelings, TLC

Row(energy, loneliness, closeness, tension) ==
  [mood |-> [label |-> "idle", energy |-> energy, annoyance |-> 200, boredom |-> 200,
             worry |-> 200, loneliness |-> loneliness],
   bond |-> [trust |-> 500, closeness |-> closeness, familiarity |-> 300, tension |-> tension]]

\* The rows of a new database, those of an old friend, and those of a friend who
\* was away and has quarrelled.
StartRows == {Row(500, 300, 200, 0), Row(500, 300, 700, 0), Row(10, 480, 700, 500)}

MixedMessages == {{}, {"low"}, {"rambling"}, {"overwhelmed"}, {"rambling", "overwhelmed"}, {"refused"}}
Cries == {{"low"}, {"overwhelmed"}}

\* A good turn, and a bad one whose deltas are over the limit.
TwoAppraisals ==
  {[valence |-> 600, relevance |-> 700, trust |-> 50, closeness |-> 300, tension |-> 0],
   [valence |-> -900, relevance |-> 1000, trust |-> -80, closeness |-> -50, tension |-> 200]}
=============================================================================
