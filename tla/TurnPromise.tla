----------------------------- MODULE TurnPromise ------------------------------
(***************************************************************************)
(* What the soul promises of a turn, whatever surface it arrives on: its   *)
(* reply is stored at most once, only a stored turn is counted or appears  *)
(* in the event log, and a text client that is told "done" can rely on the *)
(* stored reply (docs/SOUL_RUNTIME_ARCH.md, the commit segment of a turn). *)
(* SoulTurn implements it.                                                 *)
(***************************************************************************)
CONSTANTS
  Turns,
  Surfaces,
  CommitFirst \* surfaces that answer only after the commit

VARIABLES
  surfaceOf, \* surface of each turn, "none" before it begins
  stored,    \* turns whose reply is in the message log
  counted,   \* turns the reflection counter has seen
  published, \* turns in the event log
  verdict    \* what the client was told

promiseVars == <<surfaceOf, stored, counted, published, verdict>>

PromiseInit ==
  /\ surfaceOf = [t \in Turns |-> "none"]
  /\ stored = {} /\ counted = {} /\ published = {}
  /\ verdict = [t \in Turns |-> "none"]

Open(t) ==
  /\ surfaceOf[t] = "none"
  /\ \E s \in Surfaces : surfaceOf' = [surfaceOf EXCEPT ![t] = s]
  /\ UNCHANGED <<stored, counted, published, verdict>>

\* A turn that was refused to its client, or cut off, is never stored later.
Keep(t) ==
  /\ surfaceOf[t] # "none" /\ t \notin stored
  /\ verdict[t] \in (IF surfaceOf[t] \in CommitFirst THEN {"none"} ELSE {"none", "done"})
  /\ stored' = stored \cup {t}
  /\ UNCHANGED <<surfaceOf, counted, published, verdict>>

Count(t) ==
  /\ t \in stored \ counted
  /\ counted' = counted \cup {t}
  /\ UNCHANGED <<surfaceOf, stored, published, verdict>>

Publish(t) ==
  /\ t \in stored \ published
  /\ published' = published \cup {t}
  /\ UNCHANGED <<surfaceOf, stored, counted, verdict>>

Tell(t) ==
  /\ surfaceOf[t] # "none" /\ verdict[t] = "none"
  /\ \E v \in {"done", "error", "cut"} :
       /\ v = "done" /\ surfaceOf[t] \in CommitFirst => t \in stored
       /\ v = "cut" => t \notin stored
       /\ verdict' = [verdict EXCEPT ![t] = v]
  /\ UNCHANGED <<surfaceOf, stored, counted, published>>

PromiseNext == \E t \in Turns : Open(t) \/ Keep(t) \/ Count(t) \/ Publish(t) \/ Tell(t)

Promise == PromiseInit /\ [][PromiseNext]_promiseVars
=============================================================================
