------------------------------ MODULE Reflection ------------------------------
(***************************************************************************)
(* Single-flight background reflection: the turn counter and the           *)
(* `reflecting` flag kept in the schema_meta table, the request threads    *)
(* that count LLM turns, and the background tasks that claim, run and      *)
(* release a reflection (backend/app/memory/_store_meta.py,                *)
(* backend/app/reflection/runner.py).                                      *)
(*                                                                         *)
(* Every store call opens its own SQLite connection.  A SELECT runs in     *)
(* autocommit and releases its lock when it returns; the transaction only  *)
(* begins at the first write of the call and ends when the call returns.   *)
(* A call that reads and then writes is therefore two steps here, with the *)
(* value it read kept by its thread, and the writes of one call are one    *)
(* step.                                                                   *)
(***************************************************************************)
EXTENDS Naturals, FiniteSets

CONSTANTS
  Tasks,     \* requests being served, each with its background task
  Threshold, \* budget.reflection_every_n_turns
  MaxTurns,  \* bound: turns served
  MaxFaults  \* bound: crashes and failed writes

ASSUME ThresholdAssumption == Threshold \in Nat \ {0}
ASSUME ReflectionBounds == MaxTurns \in Nat /\ MaxFaults \in Nat

VARIABLES
  turns,         \* schema_meta.turns_since_reflection, 0 when absent
  reflecting,    \* schema_meta.reflecting = '1'
  lastReflected, \* schema_meta.last_reflected_message_id, 0 when absent
  chatId,        \* largest id of the chat_messages table
  doing,            \* what each task does next
  seen,          \* the value each task last read from the store
  job,           \* the job each running reflection is at
  noted,         \* history: note_llm_turn calls that committed
  claims,        \* history: claims that committed
  claimRaced,         \* history: two claim calls have overlapped
  noteRaced,     \* history: a counter changed under a note_llm_turn call
  faults         \* crashes and failed writes so far

reflectionVars == <<turns, reflecting, lastReflected, chatId, doing, seen, job,
          noted, claims, claimRaced, noteRaced, faults>>

history == <<noted, claims, claimRaced, noteRaced>>

\* The jobs in the order of runner.py: consolidate, link, impression, summary.
Jobs == 1..4

\* A claim call is in progress: it has read a key and has not yet returned.
Claiming == {"readFlag", "claim"}

\* claim_reflection returned True and release_reflection has not returned.
Reflecting == {"job", "bumpRead", "bumpWrite", "release"}

ReflectionLocation == {"idle", "noting", "background"} \cup Claiming \cup Reflecting

ReflectionTypeOK ==
  /\ turns \in Nat /\ lastReflected \in Nat /\ chatId \in Nat
  /\ reflecting \in BOOLEAN
  /\ doing \in [Tasks -> ReflectionLocation]
  /\ seen \in [Tasks -> Nat]
  /\ job \in [Tasks -> Jobs]
  /\ noted \in Nat /\ claims \in Nat /\ faults \in Nat
  /\ claimRaced \in BOOLEAN /\ noteRaced \in BOOLEAN

ReflectionInit ==
  /\ turns = 0 /\ lastReflected = 0 /\ chatId = 0
  /\ reflecting = FALSE
  /\ doing = [t \in Tasks |-> "idle"]
  /\ seen = [t \in Tasks |-> 0]
  /\ job = [t \in Tasks |-> 1]
  /\ noted = 0 /\ claims = 0 /\ faults = 0
  /\ claimRaced = FALSE /\ noteRaced = FALSE

Moves(t, from, to) == doing[t] = from /\ doing' = [doing EXCEPT ![t] = to]

-----------------------------------------------------------------------------
(* The request *)

\* A turn that called the model has persisted its rows; note_llm_turn reads
\* the counter.
NoteRead(t) ==
  /\ chatId < MaxTurns
  /\ Moves(t, "idle", "noting")
  /\ chatId' = chatId + 1
  /\ seen' = [seen EXCEPT ![t] = turns]
  /\ UNCHANGED <<turns, reflecting, lastReflected, job, history, faults>>

\* note_llm_turn writes what it read plus one.  The web endpoints then hand
\* over to the background task; the voice brain runs its reflection as a task
\* of its own, so its remember call ends here.
NoteWrite(t) ==
  /\ \E next \in {"background", "idle"} : Moves(t, "noting", next)
  /\ turns' = seen[t] + 1
  /\ noted' = noted + 1
  /\ noteRaced' = (noteRaced \/ turns # seen[t])
  /\ UNCHANGED <<reflecting, lastReflected, chatId, seen, job, claims, claimRaced, faults>>

\* A turn without a model call (a local stream reply) or a voice reflection
\* task: the background task runs although nothing was counted by it.
StartLocal(t) ==
  /\ chatId < MaxTurns
  /\ Moves(t, "idle", "background")
  /\ chatId' = chatId + 1
  /\ UNCHANGED <<turns, reflecting, lastReflected, seen, job, history, faults>>

-----------------------------------------------------------------------------
(* run_reflection_if_due *)

\* The budget file this request loaded switches reflection off: the task
\* returns at once.
Disabled(t) ==
  /\ Moves(t, "background", "idle")
  /\ UNCHANGED <<turns, reflecting, lastReflected, chatId, seen, job, history, faults>>

\* claim_reflection reads the counter.
ClaimReadTurns(t) ==
  /\ Moves(t, "background", "readFlag")
  /\ seen' = [seen EXCEPT ![t] = turns]
  /\ UNCHANGED <<turns, reflecting, lastReflected, chatId, job, history, faults>>

\* Mutant: the flag is not consulted.
ClaimReadFlagUnguarded(t) ==
  /\ IF seen[t] >= Threshold
       THEN Moves(t, "readFlag", "claim")
       ELSE Moves(t, "readFlag", "idle")
  /\ UNCHANGED <<turns, reflecting, lastReflected, chatId, seen, job, history, faults>>

\* claim_reflection reads the flag and decides.
ClaimReadFlag(t) ==
  /\ IF ~reflecting /\ seen[t] >= Threshold
       THEN Moves(t, "readFlag", "claim")
       ELSE Moves(t, "readFlag", "idle")
  /\ UNCHANGED <<turns, reflecting, lastReflected, chatId, seen, job, history, faults>>

\* claim_reflection sets the flag and resets the counter, in one transaction.
ClaimWrite(t) ==
  /\ Moves(t, "claim", "job")
  /\ reflecting' = TRUE
  /\ turns' = 0
  /\ job' = [job EXCEPT ![t] = 1]
  /\ claims' = claims + 1
  /\ claimRaced' = (claimRaced \/ \E s \in Tasks \ {t} : doing[s] \in Claiming)
  /\ UNCHANGED <<lastReflected, chatId, seen, noted, noteRaced, faults>>

\* A job runs.  It may raise: the exception is swallowed and the loop goes on.
RunJob(t) ==
  /\ IF job[t] = 4
       THEN Moves(t, "job", "bumpRead") /\ UNCHANGED job
       ELSE doing[t] = "job" /\ job' = [job EXCEPT ![t] = @ + 1] /\ UNCHANGED doing
  /\ UNCHANGED <<turns, reflecting, lastReflected, chatId, seen, history, faults>>

\* _bump_last_reflected reads the largest chat id ...
BumpRead(t) ==
  /\ Moves(t, "bumpRead", "bumpWrite")
  /\ seen' = [seen EXCEPT ![t] = chatId]
  /\ UNCHANGED <<turns, reflecting, lastReflected, chatId, job, history, faults>>

\* ... and stores it, in another transaction, unless the log is empty.
BumpWrite(t) ==
  /\ Moves(t, "bumpWrite", "release")
  /\ lastReflected' = IF seen[t] > 0 THEN seen[t] ELSE lastReflected
  /\ UNCHANGED <<turns, reflecting, chatId, seen, job, history, faults>>

\* Mutant: the flag is not cleared.
ReleaseForgets(t) ==
  /\ Moves(t, "release", "idle")
  /\ UNCHANGED <<turns, reflecting, lastReflected, chatId, seen, job, history, faults>>

\* release_reflection, in the finally block.
Release(t) ==
  /\ Moves(t, "release", "idle")
  /\ reflecting' = FALSE
  /\ UNCHANGED <<turns, lastReflected, chatId, seen, job, history, faults>>

-----------------------------------------------------------------------------
(* Faults *)

\* A write of the store fails (SQLite stays busy for longer than its timeout):
\* its transaction is rolled back and the exception unwinds to the handler
\* that swallows it.  The bump's failure still reaches the finally block.  A
\* failed note ends /chat/complete before it schedules its background task,
\* while /chat/stream reports an error and runs its background task all the same.
WriteFails(t) ==
  /\ faults < MaxFaults
  /\ faults' = faults + 1
  /\ \/ \E next \in {"idle", "background"} : Moves(t, "noting", next)
     \/ Moves(t, "claim", "idle")
     \/ Moves(t, "bumpWrite", "release")
     \/ Moves(t, "release", "idle")
  /\ UNCHANGED <<turns, reflecting, lastReflected, chatId, seen, job, history>>

\* The process dies and is started again: the tasks are gone, the table stays,
\* and nothing at start-up touches the flag.
Crash ==
  /\ faults < MaxFaults
  /\ faults' = faults + 1
  /\ doing' = [t \in Tasks |-> "idle"]
  /\ UNCHANGED <<turns, reflecting, lastReflected, chatId, seen, job, history>>

\* Bounded counters stop the model, not the program.
Step(t) ==
  \/ NoteWrite(t) \/ Disabled(t) \/ ClaimReadTurns(t) \/ ClaimReadFlag(t)
  \/ ClaimWrite(t) \/ RunJob(t) \/ BumpRead(t) \/ BumpWrite(t) \/ Release(t)

ReflectionNext ==
  \/ \E t \in Tasks : NoteRead(t) \/ StartLocal(t) \/ Step(t) \/ WriteFails(t)
  \/ Crash

ReflectionSpec == ReflectionInit /\ [][ReflectionNext]_reflectionVars

\* A thread that runs is scheduled until it is done; users start turns as they
\* like.
FairSpec == ReflectionSpec /\ \A t \in Tasks : WF_reflectionVars(Step(t))

-----------------------------------------------------------------------------
(* Properties *)

Active == {t \in Tasks : doing[t] \in Reflecting}

\* What the design document says of the flag: two reflections never run at the
\* same time.  The code breaks it, because the reads of claim_reflection are
\* outside its transaction.
SingleFlight == \A s, t \in Active : s = t

\* What the code does guarantee: as long as no two claim calls overlap, at most
\* one reflection runs, whatever fails or crashes, and while it runs the flag
\* is set, so that no other task can begin one.
SingleFlightUnlessRaced ==
  ~claimRaced => SingleFlight /\ (Active # {} => reflecting)

\* Reflection does not run more often than once in Threshold counted turns, as
\* long as neither two claims nor a claim and a count overlap.
CadenceUnlessRaced ==
  ~claimRaced /\ ~noteRaced => claims * Threshold + turns <= noted

\* The flag is set only while a reflection is active, the memory design's
\* description of the key.  Only a crash, or a release whose write failed, can
\* leave it set with nobody reflecting.
FlagMeansActive == reflecting => Active # {} \/ faults > 0

\* The flag of a run that is gone is never cleared: from then on no task can
\* begin a reflection.
Wedged == reflecting /\ \A t \in Tasks : doing[t] \notin {"claim"} \cup Reflecting
WedgeIsPermanent == [][Wedged => Wedged']_reflectionVars

\* The marker of the last reflected message never moves back, unless two
\* reflections have run together.
MarkerMonotone == [][~claimRaced' => lastReflected' >= lastReflected]_reflectionVars

\* A reflection that is still running after the last fault gives the flag back.
ReflectionReleases ==
  \A t \in Tasks :
    doing[t] \in Reflecting /\ faults = MaxFaults ~> doing[t] = "idle" /\ ~reflecting

\* Reflections run one at a time, not too often, and leave no flag behind them,
\* outside the races and the faults that each part names.
ReflectionsRegular == SingleFlightUnlessRaced /\ CadenceUnlessRaced /\ FlagMeansActive
=============================================================================
