------------------------------- MODULE SoulTurn -------------------------------
(***************************************************************************)
(* A turn of the soul on its four surfaces: /chat/complete ("text"),       *)
(* /chat/stream ("stream"), the Pipecat brain ("voice") and the RTC        *)
(* analyzer ("rtc") (backend/app/soul/runtime.py, backend/app/main.py,     *)
(* backend/realtime/companion_brain.py, backend/app/reflection/            *)
(* turn_analyzer.py), with the kernel rows the turns share: mood_state and *)
(* relationship_state (backend/app/behavior/engine.py, kernel.py,          *)
(* backend/app/memory/_store_state.py).                                    *)
(*                                                                         *)
(* A turn is the list of the steps it still has to take: every store call  *)
(* that other turns can observe, and the provider call, is one step.  The  *)
(* kernel rows are abstracted to the effects their values contain: a turn  *)
(* reads a row, and later writes back what it read with its own effect.    *)
(***************************************************************************)
EXTENDS Naturals, Sequences

CONSTANTS
  Turns,     \* turns, each handled by a thread or task of its own
  Surfaces,  \* subset of {"text", "stream", "voice", "rtc"}
  Inputs,    \* subset of {"reply", "overwhelmed", "refused", "local", "blank"}
  MaxFaults  \* bound: crashes and failed store calls

AllSurfaces == {"text", "stream", "voice", "rtc"}

\* What the behavior engine makes of the user's message: two inputs go to the
\* model, two change the relationship, a blank one is not stored.
AllInputs == {"reply", "overwhelmed", "refused", "local", "blank"}
NeedsModel == {"reply", "overwhelmed"}
MovesRelationship == {"overwhelmed", "refused"}

ASSUME InputsAssumption == Surfaces \subseteq AllSurfaces /\ Inputs \subseteq AllInputs
ASSUME FaultsAssumption == MaxFaults \in Nat

VARIABLES
  path,      \* the steps each turn still has to take
  surface,   \* surface of each turn, "none" before it begins
  input,     \* what its user said
  called,    \* the model produced its reply (or, on rtc, its appraisal)
  user,      \* turns whose user row is stored
  assistant, \* turns whose assistant row is stored
  noted,     \* turns note_llm_turn has counted
  events,    \* turns with a turn.committed event
  told,      \* what the client was told
  kernel,    \* effects contained in mood_state and relationship_state
  snap,      \* what each turn last read of them
  applied,   \* history: effects ever written
  kernelRaced,     \* history: a row was written between a turn's read and write
  faults

soulVars == <<path, surface, input, called, user, assistant, noted, events, told,
          kernel, snap, applied, kernelRaced, faults>>

turnVars == <<surface, input, called>>
logVars == <<user, assistant, noted, events>>
kernelVars == <<kernel, snap, applied, kernelRaced>>

Effects == Turns \X {"message", "signals"}
Kernel == [mood : SUBSET Effects, trust : SUBSET Effects, familiarity : SUBSET Turns]
NoEffects == [mood |-> {}, trust |-> {}, familiarity |-> {}]

-----------------------------------------------------------------------------
(* The steps of a turn *)

\* _evaluate_user_message: read both rows, write the mood, and for some inputs
\* read and write the relationship.
DecideSteps(i) ==
  IF i \in MovesRelationship THEN <<"state", "mood", "rel", "relWrite">> ELSE <<"state", "mood">>

\* apply_signals_to_kernel, persist_chat_turn.
KernelSteps == <<"kernel", "kernelMood", "kernelRel">>
KernelParts == {"kernel", "kernelMood", "kernelRel"}
StoreSteps(i) == IF i = "blank" THEN <<"assistant">> ELSE <<"user", "assistant">>

\* A reply that did not need, or did not get, the model.  The stream shows the
\* line before it is stored, and its local branch appends no event.
LocalSteps(s, i) ==
  CASE s = "text"   -> StoreSteps(i) \o <<"digest", "event", "reply">>
    [] s = "stream" -> <<"show">> \o StoreSteps(i) \o <<"digest", "reply">>
    [] s = "voice"  -> <<"show", "reply">> \o StoreSteps(i) \o <<"digest", "event">>
    [] s = "rtc"    -> StoreSteps(i) \o <<"digest", "event">>

\* Mutant: the user's row is stored before the model is asked.
FirstStepsUserFirst(s, i) ==
  DecideSteps(i) \o (IF s = "rtc" THEN <<"call">>
                     ELSE IF i \in NeedsModel THEN <<"user", "call">> ELSE LocalSteps(s, i))

\* What follows the decision: the model if it is needed.  On rtc the model is
\* asked for an appraisal of any turn.
FirstSteps(s, i) ==
  DecideSteps(i) \o (IF s = "rtc" \/ i \in NeedsModel THEN <<"call">> ELSE LocalSteps(s, i))

\* Mutant: the text turn answers before it commits.
ReplyStepsAnswerFirst(s, i) ==
  LET commit == KernelSteps \o StoreSteps(i) \o <<"digest">>
  IN CASE s \in {"text", "stream", "voice"} -> <<"reply">> \o commit \o <<"note", "event">>
       [] s = "rtc"    -> commit \o <<"note", "event">>

\* The model's reply: run_turn, finalize_streamed_turn, commit_turn.
ReplySteps(s, i) ==
  LET commit == KernelSteps \o StoreSteps(i) \o <<"digest">>
  IN CASE s = "text"   -> commit \o <<"note", "event", "reply">>
       [] s = "stream" -> commit \o <<"event", "note", "reply">>
       [] s = "voice"  -> <<"reply">> \o commit \o <<"note", "event">>
       [] s = "rtc"    -> commit \o <<"note", "event">>

Steps == {"state", "mood", "rel", "relWrite", "call", "show", "kernel", "kernelMood",
          "kernelRel", "user", "assistant", "digest", "note", "event", "reply"}

TurnTypeOK ==
  /\ path \in [Turns -> Seq(Steps)]
  /\ surface \in [Turns -> AllSurfaces \cup {"none"}]
  /\ input \in [Turns -> AllInputs]
  /\ called \in [Turns -> BOOLEAN]
  /\ user \in SUBSET Turns /\ assistant \in SUBSET Turns
  /\ noted \in SUBSET Turns /\ events \in SUBSET Turns
  /\ told \in [Turns -> {"none", "done", "error", "cut"}]
  /\ kernel \in Kernel /\ applied \in Kernel
  /\ snap \in [Turns -> Kernel]
  /\ kernelRaced \in BOOLEAN /\ faults \in Nat

TurnInit ==
  /\ path = [t \in Turns |-> <<>>]
  /\ surface = [t \in Turns |-> "none"]
  /\ input = [t \in Turns |-> "blank"]
  /\ called = [t \in Turns |-> FALSE]
  /\ user = {} /\ assistant = {} /\ noted = {} /\ events = {}
  /\ told = [t \in Turns |-> "none"]
  /\ kernel = NoEffects /\ applied = NoEffects
  /\ snap = [t \in Turns |-> NoEffects]
  /\ kernelRaced = FALSE /\ faults = 0

At(t, step) == path[t] # <<>> /\ Head(path[t]) = step
Continue(t) == path' = [path EXCEPT ![t] = Tail(@)]
Proceed(t, steps) == path' = [path EXCEPT ![t] = steps]

-----------------------------------------------------------------------------
(* Decision *)

Begin(t) ==
  /\ surface[t] = "none"
  /\ \E s \in Surfaces, i \in Inputs :
       /\ surface' = [surface EXCEPT ![t] = s]
       /\ input' = [input EXCEPT ![t] = i]
       /\ Proceed(t, FirstSteps(s, i))
  /\ UNCHANGED <<called, logVars, told, kernelVars, faults>>

\* Mutant: apply_signals_to_kernel keeps the decision's reading.
ReadKernelOnce(t) ==
  /\ At(t, "state") \/ At(t, "kernel")
  /\ Continue(t)
  /\ snap' = IF At(t, "state") THEN [snap EXCEPT ![t] = kernel] ELSE snap
  /\ UNCHANGED <<turnVars, logVars, told, kernel, applied, kernelRaced, faults>>

\* get_mood_state and get_relationship_state, at the start of the decision and
\* of apply_signals_to_kernel.
ReadKernel(t) ==
  /\ At(t, "state") \/ At(t, "kernel")
  /\ Continue(t)
  /\ snap' = [snap EXCEPT ![t] = kernel]
  /\ UNCHANGED <<turnVars, logVars, told, kernel, applied, kernelRaced, faults>>

\* A turn that has read the rows and will write them.
Holding(t) ==
  \E s \in {"mood", "rel", "relWrite", "kernelMood", "kernelRel"} : At(t, s)

\* A write over the rows while another turn holds its reading of them.
WriteKernel(t, new, effects) ==
  /\ kernel' = new
  /\ applied' = [mood        |-> applied.mood \cup effects.mood,
                 trust       |-> applied.trust \cup effects.trust,
                 familiarity |-> applied.familiarity \cup effects.familiarity]
  /\ kernelRaced' = (kernelRaced \/ \E u \in Turns \ {t} : Holding(u))

\* update_mood_state writes the whole row from what was read.
WriteMood(t) ==
  \E e \in {<<t, "message">>, <<t, "signals">>} :
    /\ At(t, IF e[2] = "message" THEN "mood" ELSE "kernelMood")
    /\ Continue(t)
    /\ WriteKernel(t, [kernel EXCEPT !.mood = snap[t].mood \cup {e}],
                   [NoEffects EXCEPT !.mood = {e}])
    /\ UNCHANGED <<turnVars, logVars, told, snap, faults>>

\* update_relationship_state of the decision reads the row again for the fields
\* it was not given; trust comes from the first reading.
RereadRelationship(t) ==
  /\ At(t, "rel")
  /\ Continue(t)
  /\ snap' = [snap EXCEPT ![t].familiarity = kernel.familiarity]
  /\ UNCHANGED <<turnVars, logVars, told, kernel, applied, kernelRaced, faults>>

WriteTrust(t) ==
  /\ At(t, "relWrite")
  /\ Continue(t)
  /\ WriteKernel(t, [kernel EXCEPT !.trust = snap[t].trust \cup {<<t, "message">>},
                                   !.familiarity = snap[t].familiarity],
                 [NoEffects EXCEPT !.trust = {<<t, "message">>}])
  /\ UNCHANGED <<turnVars, logVars, told, snap, faults>>

\* The relationship write of apply_signals_to_kernel: every field is given.
WriteRelationship(t) ==
  /\ At(t, "kernelRel")
  /\ Continue(t)
  /\ WriteKernel(t, [kernel EXCEPT !.trust = snap[t].trust \cup {<<t, "signals">>},
                                   !.familiarity = snap[t].familiarity \cup {t}],
                 [NoEffects EXCEPT !.trust = {<<t, "signals">>}, !.familiarity = {t}])
  /\ UNCHANGED <<turnVars, logVars, told, snap, faults>>

-----------------------------------------------------------------------------
(* Reply *)

\* The provider answers, or the RTC analysis returns signals.
ModelAnswers(t) ==
  /\ At(t, "call")
  /\ Proceed(t, ReplySteps(surface[t], input[t]))
  /\ called' = [called EXCEPT ![t] = TRUE]
  /\ UNCHANGED <<surface, input, logVars, told, kernelVars, faults>>

\* The spend brake answers instead of the model; on rtc no analysis is due.
AnswerLocally(t) ==
  /\ At(t, "call")
  /\ Proceed(t, LocalSteps(surface[t], input[t]))
  /\ UNCHANGED <<turnVars, logVars, told, kernelVars, faults>>

\* Mutant: an unknown verdict.
FailUnknown(t) ==
  /\ Proceed(t, <<>>)
  /\ told' = [told EXCEPT ![t] = "failed"]

\* A turn ends with an error; nobody listens on the RTC path.
Fail(t) ==
  /\ Proceed(t, <<>>)
  /\ told' = IF told[t] = "none" /\ surface[t] # "rtc"
               THEN [told EXCEPT ![t] = "error"] ELSE told

\* No provider, or a failed call or stream: the text surfaces report an error.
\* The voice falls back to a local line and the RTC turn is stored without
\* signals, the steps of AnswerLocally.
ProviderFails(t) ==
  /\ At(t, "call")
  /\ surface[t] \in {"text", "stream"}
  /\ Fail(t)
  /\ UNCHANGED <<turnVars, logVars, kernelVars, faults>>

\* The client of a stream goes away, or a barge-in cancels a spoken turn, while
\* the reply is being shown: nothing after that point is executed.
CutOff(t) ==
  /\ surface[t] \in {"stream", "voice"}
  /\ \/ At(t, "call") \/ At(t, "show")
     \/ surface[t] = "voice" /\ At(t, "reply")
  /\ Proceed(t, <<>>)
  /\ told' = [told EXCEPT ![t] = "cut"]
  /\ UNCHANGED <<turnVars, logVars, kernelVars, faults>>

\* The line is shown before it is stored.
Show(t) ==
  /\ At(t, "show")
  /\ Continue(t)
  /\ UNCHANGED <<turnVars, logVars, told, kernelVars, faults>>

Reply(t) ==
  /\ At(t, "reply")
  /\ Continue(t)
  /\ told' = [told EXCEPT ![t] = "done"]
  /\ UNCHANGED <<turnVars, logVars, kernelVars, faults>>

-----------------------------------------------------------------------------
(* Commit *)

\* persist_chat_turn: two rows, two transactions.
StoreUser(t) ==
  /\ At(t, "user")
  /\ Continue(t)
  /\ user' = user \cup {t}
  /\ UNCHANGED <<turnVars, assistant, noted, events, told, kernelVars, faults>>

StoreAssistant(t) ==
  /\ At(t, "assistant")
  /\ Continue(t)
  /\ assistant' = assistant \cup {t}
  /\ UNCHANGED <<turnVars, user, noted, events, told, kernelVars, faults>>

\* record_turn_memories and maybe_update_conversation_summary, whose effects
\* are modelled in the modules of the memories and the summaries.
Digest(t) ==
  /\ At(t, "digest")
  /\ Continue(t)
  /\ UNCHANGED <<turnVars, logVars, told, kernelVars, faults>>

Note(t) ==
  /\ At(t, "note")
  /\ Continue(t)
  /\ noted' = noted \cup {t}
  /\ UNCHANGED <<turnVars, user, assistant, events, told, kernelVars, faults>>

AppendEvent(t) ==
  /\ At(t, "event")
  /\ Continue(t)
  /\ events' = events \cup {t}
  /\ UNCHANGED <<turnVars, user, assistant, noted, told, kernelVars, faults>>

-----------------------------------------------------------------------------
(* Faults *)

\* apply_signals_to_kernel raised: what was left of it is given up.
GiveUpKernel(t) ==
  \E n \in 1..Len(path[t]) :
    /\ \A k \in 1..Len(path[t]) : path[t][k] \in KernelParts <=> k <= n
    /\ Proceed(t, SubSeq(path[t], n + 1, Len(path[t])))

\* A store call raises.  Kernel, memory and event failures are swallowed where
\* the turn goes through the runtime; a failing summary is not, and the local
\* branch of the stream writes its memories without that protection.
StoreCallFails(t) ==
  /\ faults < MaxFaults
  /\ faults' = faults + 1
  /\ path[t] # <<>>
  /\ \/ GiveUpKernel(t) /\ UNCHANGED told
     \/ /\ At(t, "event") \/ At(t, "digest")
        /\ Continue(t) /\ UNCHANGED told
     \/ /\ \/ Head(path[t]) \in {"state", "mood", "rel", "relWrite", "call",
                                 "user", "assistant", "note"}
           \/ At(t, "digest") /\ surface[t] # "rtc"
        /\ Fail(t)
  /\ UNCHANGED <<turnVars, logVars, kernelVars>>

\* The process dies: every turn in progress is lost.
Crash ==
  /\ faults < MaxFaults
  /\ faults' = faults + 1
  /\ path' = [t \in Turns |-> <<>>]
  /\ UNCHANGED <<turnVars, logVars, told, kernelVars>>

Step(t) ==
  \/ ReadKernel(t) \/ WriteMood(t) \/ RereadRelationship(t) \/ WriteTrust(t)
  \/ WriteRelationship(t) \/ ModelAnswers(t) \/ AnswerLocally(t)
  \/ ProviderFails(t) \/ Show(t) \/ Reply(t) \/ StoreUser(t) \/ StoreAssistant(t)
  \/ Digest(t) \/ Note(t) \/ AppendEvent(t)

TurnNext ==
  \/ \E t \in Turns : Begin(t) \/ Step(t) \/ CutOff(t) \/ StoreCallFails(t)
  \/ Crash

TurnSpec == TurnInit /\ [][TurnNext]_soulVars

-----------------------------------------------------------------------------
(* Properties *)

\* What the memory design says of familiarity, "monotonic growth": the stored
\* value never falls.  A turn that writes the row from an old reading drops the
\* growth of the turns in between.
FamiliarityMonotone == [][kernel.familiarity \subseteq kernel'.familiarity]_soulVars

\* No effect of a message or of its signals is lost from mood or relationship,
\* unless two turns held the rows at the same time.
KernelExactUnlessRaced == ~kernelRaced => kernel = applied

\* Without store failures a turn is stored whole or not at all when it ends,
\* also when the provider fails, the client goes away or the user barges in.
NoHalfTurn ==
  faults = 0 =>
    \A t \in Turns : path[t] = <<>> /\ t \in user => t \in assistant

\* A turn that ended in an error or was cut off has left nothing in the log, the
\* counter or the event log, unless the store failed.
RefusedLeavesNothing ==
  faults = 0 =>
    \A t \in Turns : told[t] \in {"error", "cut"} => t \notin user \cup assistant \cup noted \cup events

\* The four surfaces count alike: a finished turn is counted towards the next
\* reflection exactly when the model worked for it.
CountedAlike ==
  faults = 0 =>
    \A t \in Turns : path[t] = <<>> /\ t \in assistant => (t \in noted <=> called[t])

\* What a turn leaves in the log is all of it or nothing, and is counted.
LogHoldsWholeTurns == NoHalfTurn /\ RefusedLeavesNothing /\ CountedAlike

\* The turns keep the promise of TurnPromise.
Promised ==
  INSTANCE TurnPromise WITH
    CommitFirst <- {"text", "stream"},
    surfaceOf <- surface, stored <- assistant, counted <- noted,
    published <- events, verdict <- told
KeepsPromise == Promised!Promise
=============================================================================
