------------------------------- MODULE MCCalls --------------------------------
(* Instances for TLC of the hosted calls, of the feelings that colour them and    *)
(* every other surface, and of the requests to the services the process hires.    *)
(* They are checked side by side: a behaviour is one of a single component,       *)
(* `part`, and the variables of the others stay as they are.                      *)
EXTENDS RtcVoice, MCFeelings, Services

VARIABLE part

CompanionInit ==
  /\ part \in {"call", "feelings", "services"}
  /\ CallsInit
  /\ FeelInit /\ (part # "feelings" => mood.energy = 500 /\ bond.closeness = 200)
  /\ ServicesInit

CallMoves == part = "call" /\ CallsNext /\ UNCHANGED <<feelVars, servicesVars, part>>
FeelMoves == part = "feelings" /\ FeelNext /\ UNCHANGED <<callsVars, servicesVars, part>>
ServiceMoves == part = "services" /\ ServicesNext /\ UNCHANGED <<callsVars, feelVars, part>>

companionVars == <<callsVars, feelVars, servicesVars, part>>

CompanionSpec ==
  CompanionInit /\ [][CallMoves \/ FeelMoves \/ ServiceMoves]_companionVars

\* Every variable of the component that runs has its type; the others rest.
TypesOK ==
  /\ part = "call" => CallsTypeOK
  /\ part = "feelings" => FeelTypeOK
  /\ part = "services" => ServicesTypeOK

\* The turns, the calls and the requests are the same model values.
CompanionSymmetry == Permutations(Rooms) \cup Permutations(Calls)
=============================================================================
