------------------------------ MODULE MCTurnLog ------------------------------
(* Instances for TLC of the turn, of the log its rows go to, and of the brake   *)
(* that counts them. They are checked side by side: a behaviour is one of a     *)
(* single component, `part`, and the variables of the others stay as they are.  *)
EXTENDS SoulTurn, ContextReader, SpendBrake, TLC

VARIABLE part

TurnLogInit ==
  /\ part \in {"turn", "log", "brake"}
  /\ TurnInit /\ ReaderInit /\ BrakeInit

TurnMoves  == part = "turn" /\ TurnNext /\ UNCHANGED <<readerVars, brakeVars, part>>
LogMoves   == part = "log" /\ ReaderNext /\ UNCHANGED <<soulVars, brakeVars, part>>
BrakeMoves == part = "brake" /\ BrakeNext /\ UNCHANGED <<soulVars, readerVars, part>>

TurnLogSpec ==
  TurnLogInit /\ [][TurnMoves \/ LogMoves \/ BrakeMoves]_<<soulVars, readerVars, brakeVars, part>>

TurnLogSymmetry ==
  Permutations(Turns) \cup Permutations(Summarizers) \cup Permutations(Requests)

\* The values the turns, the log and the brake keep are of their types.
TypesOK == TurnTypeOK /\ TypeOK /\ BrakeTypeOK
=============================================================================
