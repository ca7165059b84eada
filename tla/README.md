# Cyber Companion in TLA+

Models, model-checking runs and proofs for the companion "Boxi": a FastAPI backend
over one SQLite file, a React client, and voice through Pipecat or through a hosted
RTC service. The reference is the code under `src/`; where a document and the code
disagree, the model follows the code and the disagreement is a finding.

## 1. The system

### How it runs

* The HTTP handlers of `backend/app/main.py` are synchronous and run in a thread
  pool: two requests really are concurrent. Background tasks run in the same pool
  after the response. The voice brain (`backend/realtime/companion_brain.py`) runs
  its store calls in worker threads next to an asyncio pipeline. The analyzer of RTC
  turns and the RTC language endpoint serve their own requests.
* All of them share one SQLite file, and nothing else. Every store call opens a
  connection of its own. A SELECT runs in autocommit; a transaction begins at the
  first write of a call and is committed when the call returns. So a call that only
  writes is atomic, and a call that reads and then writes is not: another call may
  be executed in between. Every model here is built on that grain: **one step per
  read, one step per committed group of writes**, with what was read kept by the
  thread that read it.
* Row ids are AUTOINCREMENT and are given under SQLite's write lock, so rows become
  visible in the order of their ids and no id is used again.

### Components

| Component | State | Operations | Hard because | What makes it correct |
|---|---|---|---|---|
| Soul turn runtime (`soul/runtime.py`, `main.py`, `companion_brain*.py`, `turn_analyzer.py`) | rows of a turn, counter, event log, what the client has seen | decide, call the model, commit, on four surfaces | disconnect, barge-in, failing store or provider between any two steps; four orders of the same steps | a turn is stored whole or not at all; refused turns leave nothing; all surfaces count alike |
| Kernel state (`_store_state.py`, `kernel.py`) | `mood_state`, `relationship_state`, one row each | whole-row updates from an earlier reading | lost updates | no effect is lost; familiarity never falls |
| Reflection (`_store_meta.py`, `reflection/runner.py`) | counter, flag and marker in `schema_meta` | count, claim, run four jobs, bump, release | claims race; a crash leaves the flag set | one reflection at a time; at most one per N turns; the flag comes back |
| Memories (`_store_memories.py`, `write_policy.py`, `reflection/jobs.py`) | `memories`, `memory_links` | facts of turns, REST, consolidate, link, impression | four writers decide on listings that are old when they write | a stored fact is not added again; links are clean; archived stays archived; a fact gives way only to its like |
| Summaries (`summary_policy.py`, `jobs.py`) | `conversation_summaries` over `messages` | pick the oldest batch behind the raw window, summarize, insert | two producers, ids shared with other rows, a model call in the middle | no row skipped, none summarized twice, none both raw and summarized |
| Spend brake (`usage_guard.py`) | computed from `messages` | check, call, store; prune | checked before the call, counted after; pruning removes what it counts | the caps hold up to the requests in flight |
| Proactive lines (`engine.py`, `proactive_*.py`, `longing.py`, `idle_experience.py`) | metadata of `behavior_runtime_state` and of `mood_state` | idle tick, proactive check, opener, experience | several clients tick; fingerprints and daily caps are read before a model call and stored after it | caps and gaps between lines; no line repeated |
| Feelings and tone (`mood.py`, `kernel.py`, `tone.py`, `engine.py`, `rtc/state_block.py`) | values of the two kernel rows, streak of good turns | message, appraisal, idle tick; project a tone | a decision reads rows before it writes them; five surfaces render the same rows | every surface teases and comforts alike, and teasing is earned |
| Context (`context_builder.py`, `budget.py`) | none; reads of a growing log | choose memories, follow links, pack sections | the parts are read by separate connections; rounded estimates | nothing is sent twice, disowned or over the budget |
| Database (`database.py`) | the file, over its versions | open, migrate, write | two processes migrate and write; crashes between the script and the steps | no value comes back that was overwritten |
| Open loops (`_store_loops.py`) | `open_loops` | create, touch, resolve | a reason to speak may be closed while it is being spoken | a closed loop is not brought up |
| Pipecat pipeline (`backend/realtime/*`) | frames between processors, a pending turn, one socket per speech service | speak, barge in, reconnect | cancellation between frames, late results of tagging calls, reconnects from inside the reader | an interrupted reply stays silent, another is spoken whole; an utterance is heard once |
| Expression tagger (`tts/expression_tagger.py`) | none; a buffer of the reply | split, ask a model, guard, clean | the model may answer anything; a reply arrives in pieces | words stay, tags are legal |
| RTC voice (`rtc/*`, `soul_llm_server.py`) | a running session at the service, claimed analyses | start, stop, push state, analyze | retried callbacks, stop during start | an utterance is analyzed once |
| Hired services (`providers/deepseek.py`, `tts/router.py`, `tts/doubao.py`, `stt/router.py`, `stt/doubao.py`) | one HTTP client per adapter, in two globals | reply, speak, transcribe, whole or streamed | worker threads share the globals without a lock; a stream fails after pieces of it are out | no client is closed under a request; errors are the adapter's own; an answer is what was sent |
| Client (`frontend/src/*`) | React state of the chat, the players, the recorder, two kinds of call | hooks with asynchronous results | results after a stop, a mute, a newer turn; handlers of an older rendering | the avatar comes back, one voice speaks, the microphone goes off |

The rest (parsing of replies, the other providers' adapters, file
gateway, alternative memory backends, panels, scripts) has no state of its own or is pure
I/O; PROJECT.json lists every part with its status.

### Interactions

A turn decides on the kernel rows (Kernel), asks the Spend brake, calls a provider,
writes the kernel rows again from the model's signals, stores two rows (the log that
Summaries and the Spend brake read), stores facts (Memories), may summarize
(Summaries), counts itself (Reflection) and appends an event. After the response the
background task claims a reflection, whose four jobs write Memories and Summaries.
The components meet only in tables, so each module contains the writers of *its*
tables, whichever file they come from, and abstracts what they do elsewhere.

## 2. Modules

Names of definitions follow the functions of the code; `map` in PROJECT.json has the
lines of each.

### `Reflection`

`turns`, `reflecting`, `lastReflected` are the three `schema_meta` keys. A task is a
request with the background task it schedules; `pc` is where it is. `note_llm_turn` is
`NoteRead`, `NoteWrite`; `claim_reflection` is `ClaimReadTurns`, `ClaimReadFlag`,
`ClaimWrite` (its three statements are three grains: two SELECTs and one transaction);
the runner is `RunJob` four times (the exception of a job is swallowed), `BumpRead`,
`BumpWrite`, `Release`. `WriteFails` is a store that stays locked for longer than its
timeout, with the handler that swallows the error; `Crash` kills every task and keeps
the table. History variables (`noted`, `claims`, `raced`, `noteRaced`) only record.

### `Summaries`

A summarizer (a turn or a reflection job) makes four reads and one insert: `Start`
(count), `ReadBound`, `ReadLatest`, `ListBatch`, `Write`. `AppendChat` and `AppendTick`
run at any time and share ids. `Abandon` is a model call that fails or a process that
dies. The two producers differ in the text and in the model call only, so one process
type stands for both.

### `Memories`

Rows have a type, a content (`topic`), an importance and whether they are archived. `TurnFact`,
`ApiPost`, `ApiPut`, `Consolidate`, `FormImpression`, `ScanLinks` are the beginnings
(what is listed and decided), `Get`, `Write`, `Create`, `Delete`, `AddLink` the store
calls. `update_memory` is `Get` and `Write`: it reads the row and writes *all* its
columns. `Keep` is an argument that is None.

Contents are names, and what the code makes of their words are two constant relations.
`Similar` is `_is_similar_content`: one text contains the other, or they share two thirds
of the tokens of the one with fewer. `Related` is the overlap `link_related_memories` asks
for. Neither is transitive, and nothing is assumed of either: in the instance one
content says what two others say that have nothing in common. A turn's fact that is
similar to several rows takes the place of *one* of them, with its own words, and is from
then on beside its like; so the module claims no absence of near-duplicates, but what is
true of each step: `NewFactsUnlikeOldUnlessStale` of an insertion,
`WordsStayCloseUnlessStale` of an update. Which of the similar rows comes first depends
on `updated_at`, whole seconds taken before the write: each may. The model has fewer
memories than a listing returns, so what falls off the end of a listing is not modelled.
`stale` records that rows a writer decided on were rewritten, or rows of the type it is
about to insert were stored, since it read them; it is what the properties except.

### `SpendBrake`

Rows keep the day, the cost and `should_call_llm`. `StartGated` reads the clock,
`CheckDaily` and `CheckMonthly` are two connections, `ProviderAnswers`/`ProviderFails`
the call, `Store`/`StoreLocal` the row, `Prune` the retention of behaviour rows. Money is
counted in cents: `SumCostSince` is the number of cents, each named by the row it was
spent for, which is a sum without recursion and one that can be proved about.
`RtcTurn` never asks the brake. `NextDay` moves the UTC clock at any moment.

### `SoulTurn` and `TurnPromise`

A turn is the list of the steps it still has to take; the lists of the four surfaces
are `FirstSteps`, `LocalSteps` and `ReplySteps`, in the order of the code (which differs:
the stream appends its event before it counts, the voice speaks before it stores, the
stream's local branch appends no event). The kernel rows are the sets of effects they
contain, so a lost update is a missing effect. `CutOff` is a stream client that goes
away, or a barge-in; `StoreCallFails` distinguishes the calls whose exceptions are
swallowed from the others: a failing kernel step gives up the kernel steps that are left
(`GiveUpKernel`) and the turn goes on behind them. `TurnPromise` is what a turn promises whatever its surface;
`KeepsPromise` checks that `SoulTurn` implements it under the mapping *stored* =
assistant rows, *counted* = note_llm_turn, *published* = event log, *verdict* = what the
client was told.

### `Proactive`

`runtime` is the metadata of `behavior_runtime_state`, `streak` a key of the metadata of
`mood_state`, `experiences` the memories of type `idle_experience`. A request is an idle
tick (`IdleTick`, `Create`), a proactive check (`ProactiveCheck`, `Reason`, `Opener`,
`OpenerAnswer`) or a user's turn (`UserTurn`, `WriteStreak`). `snap` is the metadata it has
read and carries through its model call; `patch` the keys it is going to write.
`patch_behavior_runtime_metadata` is `PatchRead` and `PatchWrite`: it reads both rows
and writes both back, so it also writes keys it does not mean to change. `Fail` is any early
end: a refusal, a failed roll, a failing model or store, a dead process. The history variables
(`drawn`, `origin`, `told`, `repeated`, `positive`) are what the metadata should
say; `stale` and `raced` record that a request has written keys, or rows, that had been
written since it read them. `MCProactive` stops exploring behind such a write (CONSTRAINT
`UntilRaced`): the properties other than the type invariant claim nothing there.

### `RtcVoice`

A step is what runs between two awaits of `join` or `leave`; a call of either is a record
with its place, the room it prepared or leaves, and the engine its teardown holds.
`engines` are the SDK's, named by the room they were made for; `engine`, `session`,
`tearing`, `conversation` are the hook's refs, shared by all calls. `agents` is what the
service runs, seen through start and stop only: a failed request may have had its effect.
A posted exchange (`posts`) goes through `claim_turn_analysis` (read, then write),
`analyze_turn` and the release. Joins may overlap, because the panel offers the
button in every phase but "live"; `overlapped` records that they did. After that two
joins can leave an engine and an agent nobody holds; the invariant excepts it, and it
is why the exception is there. The two modes differ in which agent is started and are one
here. A closed page is outside the model: its pending requests may or may not be sent.

### `Feelings`

`mood`, `bond` and `streak` are the columns of the two rows and a key of the mood's
metadata, in thousandths. `Decide` and `Settle` are the two halves of
`_evaluate_user_message`: it reads both rows, computes the delta of the message, the
streak and the tone, and writes them later, so turns and ticks can come in between.
`Appraise` is `apply_signals_to_kernel`, `IdleTick` the stored part of
`_evaluate_idle_tick`. `ProjectTone` is `project_tone`; `Shown`, `SpeechRate`,
`FullyNeutral` and `Welcome` are what the synthesizer and the spoken calls make of the
rows. A message is the set of traits `rules.py` finds. `crossing` records that a turn
had decided when another wrote. The single-statement writes are atomic here; the
interleaving of their reads and writes is `SoulTurn`'s.

### `Context`, `ContextReader` and `Migrations`

`Context` is `build_provider_context` for one call: `ask` is what the store holds (ranked
memories with links and archived ones, sections and messages by their lengths), `built` the result.
Every definition is a pure operator, checked over all bounded inputs; what the code does in
a loop (sums, the ranking, the hops along the links) is a recursive function, so that it
can be proved about. `ContextReader`
extends `Summaries` with a turn that reads the latest summary, then the window, while
rows and summaries are added. In `Migrations` processes `Open`, `Migrate` and `Close` one
file that an earlier version of the program wrote, write to it, and may die
before the steps are committed; `want` is what was written last.

### `VoicePipeline`, `ExpressionTags` and `Ears`

The stages are connected by queues of frames; an interruption is handled at one stage after the
other (`cut`) and drops what is queued. A turn is a task (`TurnStarts`, `TurnSays`,
`TurnEnds`, `Unwind` of a cancelled one); the tagger keeps a drain task per reply
(`Drain`), so the clean-up of an old reply (`FinishTurn`, `AbortDone`) runs beside the
next one. `RunTts` and `ReadSocket` are the synthesizer over one socket, with the unread
messages of an interrupted sentence still on it. `BargeInProcessor` is its view of the
bot and its debounce.

`ExpressionTags` has the tagger's functions over texts of words (`Word`, one for each place),
terminators, pauses and tags: the scans of the code (`At`, `CutAfter`), the split (`SplitCompleteSentences` and the streaming buffer), the guards, the clean-up,
and the three callers, which hand over different pieces. The model's answer is any
insertion of tags, or a lost word.

`Ears` has the recognizer and the speech-to-speech dialog: a call that connects or
disconnects is a record of the step it is at, `_reconnect` runs inside the reader, and
the pipeline can stop at any moment.

### `Services`

The DeepSeek adapter, the speech adapter and the transcription adapter repeat the same
`get_shared_http_client`; `shared` is the pair of globals of each, `made` and `open` number
its clients. A request is asked (`AskReply`, `AskSpeech`, `AskTranscript`), routed, gets its
client in the steps of that function (`FindClient` to `TakeClient`: one step per access to a
global), and reads its answer (`Send`, `ReplyLine`, `SpeechLine`, `WholeReply`, `Transcript`).
A transcription is a coroutine that never awaits once it has the audio, so it holds the
event loop (`LoopFree`): no other request starts and no streamed piece is carried
(`Pass`) until it ends. The providers of an adapter all have its default timeout, so the
timeouts differ only while none is noted. `crossed` records that a request set out to replace a
client while another was replacing it. A reply's text and the sound are counted pieces.

### `Client`, `PushToTalk` and `VoiceSession`

A step is what runs between two awaits; the microtasks behind an aborted playback go
first. `Client` has `App.tsx` with `useAvatarState`, `useTextToSpeech`, `useBehaviorTicks`
and `useMoodRest`: `turn` is `submitToBackend`, `speech` the `speakReply` calls of the
turn and of the ticks, `face` the avatar and its timers, `shown` the bubbles by id.
`paused` is what `useBehaviorTicks` last ran its effect with: React renders some time
after `isSending` or `speaking` has changed, and only then does `TicksEffect` drop the
answers still to come. Until it does, a line can come in over a turn or over speech, raise
`chatEpochRef` and make the turn, or whoever is to hand the avatar back, an old one
(`turn.current`, `tts.current`). `overtaken` records that a line did so without taking a
pose of its own, or that an overtaken reply began to speak.
`PushToTalk` is the hold button; its handlers see `page` as last rendered. `slipped`
records the orders after which the code can lose a recording or a stream: a release it
does not hear, or a recorder that cannot be made once the microphone is granted
(`NoRecorder`).
`VoiceSession` is the panel, its connection and the one pipeline of the server
(`pipeline_router.py`), with status requests that answer in any order.

### Composition

Components that meet are composed in one module: `SoulTurn` has the four surfaces over
the kernel rows and the log, and implements `TurnPromise`; `ContextReader` extends
`Summaries` with the reader of its log; `VoiceSession` has both ends of a connection,
`RtcVoice` the client, the service and the backend, `Client` the backend's side of
a turn. The other modules contain every writer of their tables. One state machine of
all of them would multiply interleavings without new behaviour: they share only
the log, the counter and the kernel rows, and each models what it reads of them.

`MCStore`, `MCTurnLog`, `MCSurfaces` and `MCCalls` put several components into one run
*side by side*: `part` says which of them a behaviour is of, and the variables of the
others stay at their initial values. Such a run is the union of the state spaces, not
their product; it checks the same as a run for each would.

## 3. Runs

| Run | Question | Properties | Outcome |
|---|---|---|---|
| `reflection` | Reflections one at a time, often enough and not too often? Contexts within their budget? Values kept over migrations? | `ReflectionsRegular`, `ReflectionReleases`; `PackedHonestly`; `StoredValuesSurvive` | holds |
| `reflection_race` | Does the claim exclude a second one, as the design says? | `SingleFlight` | violated |
| `soul_turn` | Is a turn whole on every surface, every row summarized once, the overshoot bounded? | types; `KernelExactUnlessRaced`, `LogHoldsWholeTurns`, `KeepsPromise`; `NoGap`, `BatchesExact`, `SentOnce`; `OvershootBounded` | holds |
| `soul_turn_familiarity` | Does familiarity never fall? | `FamiliarityMonotone` | violated |
| `spend_pruned` | Does pruning keep the account? | `UsageOvershoot` | violated |
| `memories` | Do five kinds of writer keep facts and links whole? | `LinksClean`, `NewFactsUnlikeOldUnlessStale`, `WordsStayCloseUnlessStale`, `JobsLeaveFactsUnlessStale` | holds |
| `memories_impression` | Can consolidation archive the impression? | `ImpressionNeverArchived` | violated |
| `proactive` | Are rhythm, limits, shared lines and streak exact? | `CountsExactUnlessRaced`, `ExperiencesLimitedUnlessRaced`, `NothingRepeatedUnlessRaced` | holds |
| `surfaces` | Browser and spoken companion: does everything come back, stay silent, arrive once? | types; chat: `AvatarComesBackUnlessOvertaken`, `OneVoice`, `BubblesDistinctUnlessLate`, `StoredOnceUnlessCut`; button and panel: `MicrophoneOff`, `OneTurnUnlessSlipped`; pipeline: `InterruptedStaysSilent`, `ReplyWhole`, `RepliesInOrder`, `AudioIsOwnUnlessCut`; tags: `TagsOnlyAdd`; services: `NothingListensUnlessSlipped`, `HeardOnceInOrder` | holds |
| `calls` | Does a quiet client hold everything it started? Does every surface show the same tone? Do requests to the services leave each other's clients alone, and do answers and errors arrive as they should? | `NothingLeftBehindUnlessOverlapped`, `AnalysisSingleFlightUnlessRaced`, `StoredOnce`; types; `TonesHonest`; `ClientsHold`, `AnswersHonest` | holds |
| `rtc_partial` | Is the whole reply posted? | `ReplyPostedWhole` | violated |
| `feelings_welcome` | Does a softened companion open a call softly? | `WelcomeSuppresses` | violated |

Some properties are conjunctions of named parts that say one thing together:
`ReflectionsRegular` (single flight, cadence, flag), `LogHoldsWholeTurns` (no half turn,
refusals leave nothing, counted alike), `BatchesExact` (raw window, ranges, once),
`OvershootBounded` (daily, monthly, real usage), `TonesHonest` (teasing is earned,
surfaces agree, silence is neutral), `ClientsHold` (settled, open in use, transcriptions
apart), `AnswersHonest` (whole answers, own errors), `PackedHonestly` (links, note, budget),
`TagsOnlyAdd` (words, sentences, tags), `JobsLeaveFactsUnlessStale` (archived stays
archived, consolidation only lowers). The modules state and comment each part.

Properties whose names end in `UnlessRaced` (or `UnlessStale`, `UnlessOvertaken`,
`UnlessOverlapped`, `UnlessCut`, `UnlessSlipped`, `UnlessLate`, `UnlessCrossed`) hold until
two particular steps have crossed. The history
variable that says so is set by exactly that crossing, so the property also says that
*nothing else* breaks it: no crash, failure, retry or other order. Where a document
promises the property without the exception, a violation run shows the race.

What is excepted is not claimed, and several exceptions are the very hazard that
PROJECT.json lists beside the property: there the code really does what it should not,
and the note of the hazard says so. The cases are a stream that breaks behind the commit
(`StoredOnceUnlessCut`), an interrupted sentence with unread messages on the socket
(`AudioIsOwnUnlessCut`), a failed connect and a stop amid a reconnect
(`NothingListensUnlessSlipped`), a second hold during a request and crossed attempts to
connect (`OneTurnUnlessSlipped`, `MicrophoneOff`), overlapping joins
(`NothingLeftBehindUnlessOverlapped`), two claims that cross
(`AnalysisSingleFlightUnlessRaced`), two requests that replace a client at once
(`ClientsHold`), a reply that ends early (`AnswersHonest`), a failed store call or a crash
amid a turn (`LogHoldsWholeTurns`) and a release that fails (`ReflectionReleases`).

### Bounds

* Two actors everywhere. Each race here is between one reader and one writer, so two are
  needed and two show it; a third adds a second copy of the same race. The proofs
  below hold for any number.
* `Reflection`: threshold 2 with 4 turns is two whole rounds, so a claim can meet the
  release of the round before; one fault meets every step.
* `Context`: five memories for two places and their links, sections of four lengths
  around a budget of 14 tokens: each section can be the first that does not fit, and the
  floor for the memories is reached.
* `Migrations`: three starts of two processes: both may be in the middle of a migration, and
  one can open the file again that a crash of the other left behind.
* `Summaries` and `ContextReader`: a batch of 2 behind a window of 1 over 6 ids lets both
  producers finish a batch and begin the next, with ticks between the chat rows.
* `Memories`: two rows, three contents and two factual types beside the impression: a
  fact that is told twice, a link and a row that is deleted under either need two rows, a
  fact similar to two rows that are not similar to each other needs three contents.
* `SpendBrake`: caps of 1 and 2 with cost 1 make every request the one that passes the
  cap; two days and a month of two days give a midnight and a month's end.
* `SoulTurn`: two turns on any surfaces and inputs, with one failed call or crash.
* `Proactive`: histories of length 1 make every fingerprint fall out; a gap of 2 in a day
  of 2 separates the gap from the daily limit; time goes to 3, into the second day. The run
  stops exploring behind a write over what another has written (`UntilRaced`): its
  properties claim nothing there.
* `RtcVoice`: two rooms for two calls, two exchanges so that one can be posted while the
  other is analyzed, two segments, one fault.
* `Feelings`: four writes by two turns and ticks, from a stranger, a friend and a friend
  after a quarrel: enough for a streak of two, a refusal that crosses it and a tick
  between decision and write. The appraisals exceed the per-turn limits in both directions.
* `Services`: two requests, so that one can replace a client under the other or both at once
  (three were checked before the proof, with the same outcome); two pieces, so that a stream can fail after the first and after the last.
* `Client`: what begins in a behaviour weighs four at most (`MaxLoad`), where a turn and a
  cleared chat weigh two, a mute and a tick one: two turns, or one with two ticks, with a
  mute and a tick, or over a cleared chat. A line against a turn that is rendered late
  needs a turn and a tick.
* `PushToTalk`: three holds, so that a late grant meets a second and a third one.
  `VoiceSession`: three attempts to connect and two status requests.
* `VoicePipeline`: two replies and one interruption, so every clean-up meets the next
  reply; one broken socket. `ExpressionTags`: replies of five symbols, tagged ones of
  three with two tags. `Ears`: two sockets, two utterances, four results.
* The constants named `Max...` cap counters that the code leaves open. Runs end because
  of them, so deadlock is not checked.

### Fairness

Only `Reflection` states liveness. `FairSpec` is weak fairness of each task's `Step`: a
thread of the pool that can go on is scheduled, and a store call returns or raises after
its timeout. Faults and crashes are not part of `Step` and are never forced.
`ReflectionReleases` says that a task in a reflection comes out of it, unless
it is killed. The other components wait for people, networks and models, of which the
code guarantees nothing; `AvatarComesBackUnlessOvertaken` and `ReplyWhole` are stated as safety
instead: nothing is left that could still end it, or it has ended well.

### Findings

Six runs show the code doing other than a document, a comment or a doc string says; the
lines are in PROJECT.json.

1. `claim_reflection` does not run as one transaction: two tasks can both claim
   (`docs/SD4_SPEC.md:77`).
2. Familiarity can fall, by a whole-row write from an old reading (`docs/SD2_SPEC.md:194`).
3. Consolidation archives any id the model names, the impression included
   (`docs/MEMORY_DESIGN.md:326`).
4. Pruning behaviour ticks takes paid model turns out of the spend account
   (`docs/COST_AND_TOKEN_BUDGET.md:70`).
5. An RTC reply is posted at its first final segment; the rest is never stored
   (`frontend/src/rtc/rtcMessages.ts:145`).
6. The line that opens a call reads its own thresholds, not the projection all surfaces
   share: a worried companion opens it annoyed (`backend/app/behavior/tone.py:3`).

Behaviour met while modelling that no run states:

* A turn's signals and the impression job can create a second `relationship_state`
  memory, though `docs/SD4_SPEC.md:150` counts on one; an archived fact that is stated
  again stays archived; a fact to be merged into a memory that is deleted meanwhile is lost.
  A fact similar to two memories replaces one of them and leaves two near-duplicates, or
  two of the same words when it is told once more.
* A line that comes in between `setIsSending` or `setSpeaking` and the next rendering is
  handled (`frontend/src/App.tsx:634`). If it is a duplicate, or React has not run the
  updater that says it was appended (`App.tsx:665`), it takes no pose, and the
  `onSpeakingEnd` of what is being spoken finds the epoch changed (`App.tsx:601`): the
  avatar stays "talking" with no timer. The same happens to a reply that is evaluated while
  such a line comes and is then not spoken (`App.tsx:542`), though the comment at
  `App.tsx:527` says that the avatar is handed back "in every 'did not speak' case"; and to
  a reply that is spoken after such a line and whose playback throws.
* `speakReply` does not take `speaking` back when a line's call takes over one that plays
  and is then not spoken: the ticks stay paused until the next message or mute.
* `note_llm_turn` loses concurrent increments; its failure, like that of the summary,
  reports a stored turn as failed, and a retry stores it again.
* Two summarizers can store the same batch twice, which `docs/SD4_SPEC.md:185` accepts;
  one batch per reflection lets a backlog grow that is neither replayed nor summarized.
* A memory shared with the fallback line is not recorded and comes again;
  `is_repeated_fingerprint` is used nowhere.
* Reflection jobs call the model without asking the brake or recording the cost.
* A restart between the claim and the release of an analysis leaves the room claimed: its
  later exchanges are dropped.
* The idle tick computes a relaxed annoyance and worry, and never stores them, though
  `docs/SD2_SPEC.md:121` describes the decay (`docs/PERSONA_AND_BEHAVIOR.md:161` knows);
  a "worried" label is not cleared by plain messages; `apply_interaction_slow_delta` has
  no caller. `docs/PERSONA_AND_BEHAVIOR.md:84` gives 0.4 for the tension the code compares with
  0.55. A rambling cry for help is comforted by the text, and by no surface that reads
  the rows.
* `build_prior_context` keeps the sentence that passes its cap, though its doc string says
  "that fit"; a break the model
  doubles before a terminator leaves one too many.
* An error object inside a streamed reply has no choices and is passed over: the reply ends
  as if it were complete, cut short (the speech adapter turns it into an error).
* Two requests at an adapter's first use create a client each, though
  `backend/tests/test_tts.py:493` asserts of two calls in a row that the client is reused, and
  one that comes between the other's two assignments closes the client just made; a
  request over a closed client ends in an error no handler catches. This is what `crossed`
  stands for.
* The adapters hook the closing of their clients into reset functions that `main.py` has
  imported before: the lifespan's end closes none (`backend/tests/test_tts.py:500` calls
  the function through its module and sees one closed).
* A user who speaks before the bot's speech is reported started sends no interruption.

## 4. Proofs

Proved for every value of the constants, with TLAPS (`*Proofs.tla`). `Recursions` has what
the proofs about recursive functions rest on. The library states induction with an operator
as its parameter, which no backend instantiates; `Recursions` states it of a set and proves
it from the well-foundedness of the natural numbers (`Induction`), and with it that a
recursion along a sequence defines one function (`Recursion`, `OneUnfolding`), that two which
take the same steps are the same (`SameSteps`), and induction along a sequence
(`SeqInduction`). The rest of it is about sequences, prefixes and the largest of a set.

| Theorem | From | Argument |
|---|---|---|
| `Reflection`: `ReflectionTypeCorrect` | no assumption | one step per action |
| `SingleFlightHolds` | `ReflectionTypeCorrect` | `FlightInv`: until two claims overlap, one task is in a reflection at most, it has the flag set, and while a task is about to write its claim nobody is in one. `SingleFlight` alone is not inductive: it does not say what a claim has already read. |
| `CadenceHolds` | `ReflectionTypeCorrect`, `ThresholdAssumption` | `CadenceInv`: a decided claim has read at least the threshold and the counter is not below what was read; claims times the threshold plus the counter stay within the turns noted |
| `MarkerHolds` | `FlightInv` | `MarkerInv`: marker and pending bump are ids of the log, and the bump is not behind the marker. It gives an action property. |
| `MCStore`: `StoreReflectionsRegular` | `ReflectionsRegularHold` | beside the other parts the reflections move as on their own (`ReflectionInStore`) |
| `StoredValuesHold` | no assumption | `FilesInv`: a file has all markers or none; without them every value is still where the version that wrote it kept it and nowhere else (`Unmoved`), with them it is in its new table (`Moved`). One lemma for the steps on a file of an earlier version, one for a file that has been migrated (`FirstMigration`, `LaterMigration`). |
| `Context`: `PackedHonestlyHolds`, with the rows above `StorePacksHonestly` | `ContextAssumption` | what `build_provider_context` packs, for any store: the ranking and the hops along the links are recursive, so are the sums of the estimates. `RankedIs` gives the places of the ranking, `HopsAre` and `HopsReach` the list after each link (nothing twice, nothing a link does not reach), `SumsAre` and `PackedIs` the tokens after each section; `SectionsHonest` compares them with the budget, rounding included. |
| `Summaries`: `TypeCorrect` | no assumption | `TypeInv` adds that every id a row, a summary or a summarizer mentions has been given out |
| `NoGapHolds` | `TypeInv` | `GapInv`: what a summarizer has read as covered really is covered, and its batch begins right behind. Coverage never shrinks (`CoverageKept`), so an old reading stays true. |
| `BatchesExactHold` | `TypeInv`, `GapInv`, `SizesAssumption` | `BatchInv`: every summary, and every batch about to be written, is whole (it begins a multiple of `Batch` rows into the log and has `Batch` of them) and leaves the raw window behind it; `OnceInv`: outside the race a summarizer knows all summaries and its batch lies behind them. Whole batches do not overlap by counting (`Place`). |
| `SentOnceHolds` | `BatchInv` | `ReaderInv`: the summary a reader has read leaves a whole window behind it, however old it is by the time the window is read |
| `Memories`: `MemoriesTypeCorrect` | `BoundAssumption` | `TypeInv` adds `DraftFits`: a draft fits the call that will write it |
| `LinksCleanHolds` | `TypeInv` | `LinkInv`: pairs listed for linking may be linked as long as both rows exist; types never change (`TypesKept`) and ids are not used again, so an old listing can only name rows that are gone, never wrong ones |
| `NewFactsAreNew`, `WordsStayClose`, `JobsLeaveFacts` | `TypeInv`, `KeepAssumption`, `TypesAssumption`; nothing of `Similar` and `Related` | `WorkInv`: on whose behalf a worker acts (`Duty`), and what still holds of the rows it decided on unless they have changed since (`Knows`): no row is similar to what a turn is about to insert, and what is about to replace a row's words is similar to them. All three are action properties: rows change by five steps only (`RowSteps`), a row that stays by one (`OnlyWrites`), and what its writer knows makes the update faithful (`UpdatesFaithful`). |
| `SpendBrake`: `BrakeTypeCorrect` | `LimitsAssumption`, `BrakeBounds` | with `PastInv`: rows and clocks that were read lie in the past, only gated model turns cost |
| `OvershootBoundedHolds` | `PastInv`, `RequestsAssumption` | the potential argument: what is spent plus what the admitted requests may still spend stays within the cap and one call per request (`DailyOvershoot` with `InFlight`, `MonthlyInv` with `Paying`); `UsageInv`: while nothing is pruned the log accounts for what was used |
| `SoulTurn`: `TurnTypeCorrect`, `WholeTurnsHold` | `InputsAssumption`, `FaultsAssumption` | `TurnInv`: the steps a turn has left are in the order of its surface (`PathOK`, by `Rank`), so what is still to do is not done and what stands in front of it is; ten conjuncts, one per promise |
| `KernelExactHolds` | `TurnInv` | `KernelInv`: as long as no write has crossed another's reading, what a turn that holds a reading has read is what the rows contain |
| `PromiseKept` | `TurnInv` | the refinement: each step of a turn is a step of `TurnPromise` under the mapping of section 2, or leaves all it speaks of (`PromiseStep`) |
| `MCTurnLog`: `TurnLogTypeCorrect` | the type invariants of its parts | a step of the composition is a step of each part or leaves its variables (`LogInTurnLog`, `TurnsInTurnLog`, `BrakeInTurnLog`) |
| `Proactive`: `ProactiveTypeCorrect` | `HistoryAssumption`, `LimitsAssumption`, `BoundsAssumption` | `TypeInv` adds what a request holds where it is (`Holds`): a patch marks a check, records an experience or takes the list of what was shared along, and its keys say which |
| `CountsExactHold` | `TypeInv` | `CountInv`: a check whose key nobody has written since has read the last check there is, and a streak that is to be written is a step from the one in the row |
| `ExperiencesLimitedHold` | `TypeInv` | The limits speak of what was made, the gate looks at what is recorded, and between the two lie a model call and two transactions. `DraftInv`: until something races one experience at most is made and not recorded, it is the last one, and its patch is what the gate would still allow; `DailyInv` counts it in (`PendingOn`), and the lost ones; `RecentInv`: without losses the rows mirror the recorded experiences (`Mirrors`), which are `Spaced` |
| `NothingRepeatedHolds` | `DraftInv` | `Varied`, with `Mirrors` and a pool that is larger than the history (`SomethingNew`); `SharedInv`: what was chosen to be shared is not in the list as long as the list is not stale, and the list to be written is the one in the rows with it |
| `RtcVoice`: `CallsTypeCorrect` | `RtcAssumption` | `TypeInv` adds the `Shape` of a call: its place fits its kind, and what it holds is a room |
| `StoredOnceHolds`, `SingleFlightHolds` | `TypeInv` | `PostInv`: an exchange has one request, which has not stored it before its analysis is over (`OnceInv`); until two claims overlap a room has one request holding it (`FlightInv`) |
| `NothingLeftBehindHolds` | `TypeInv` | `CallInv`: until calls overlap there is one in flight at most, the engine that is alive is the one in `engineRef`, and the call (`Joining`, `Leaving`) or else the session (`Settled`) accounts for every agent |
| `Feelings`: `FeelTypeCorrect` | `MessagesAssumption`, `AppraisalsAssumption`, `StartsAssumption` | one lemma per rule that moves a value: clamps and shares stay in the interval |
| `TonesTrue` | `FeelTypeCorrect` | `TonesInv`: a turn nobody has crossed holds what the rows give (`HeldInv`), and the streak is not above the plain messages (`StreakInv`). `SurfacesAgree` alone does not say what a decision that is still to be written holds. `Agree` compares the tone of the rows before a message with that of the rows after it. |
| `Services`: `ServicesTypeCorrect`, `AnswersAreWhole` | `ServicesAssumption` | `TypesInv` with `RequestShape`: what came is what was sent but for the piece the event loop has yet to carry, and only a streamed reply goes on after an error. `PlainMoves` and `SeeksMoves` say once for all steps how a request goes on. |
| `ClientSettles`, `ClientStays` | `TypesInv` | `SettlingInv`: a closed client is still to be forgotten by the request that closed it, a forgotten client or timeout still to be set by the one that forgot it. `ClientSettled` alone says nothing of the states in between. The second is an action property (`SettledStep`). |
| `TranscriptsKeptApart` | `TypesInv` | `OneTranscript`: the loop a transcription holds would have to start the next one |
| `OpenInUse`, `OwnErrors`; with the rows above `ClientsAlwaysHold`, `AnswersAlwaysHonest` | `SettlingInv` | `CrossingInv`: until two cross, one request at most replaces the client, it does so before there is one, and it never gets to close anything; so whoever takes a client takes the first and only one |
| `Client`: `ClientTypeCorrect` | `ClientAssumption` | one lemma per group of actions |
| `OneVoiceHolds`, `AvatarComesBackHolds` | `ClientTypeCorrect` | `SpeechInv`: one call at most is of the session that is on and only such a call is heard (`OneFresh`); who plays will hand the avatar back, or it is settled without (`PlaysWhatItSays`); no line's call is newer than a turn that is not overtaken, and of an overtaken one the avatar is settled or a line's call under way will settle it (`TurnAlone`). `Settled` is a resting avatar, a pending timer, or an `overtaken` pose. The property alone says nothing while anything is under way. |
| `BubblesDistinctHolds`, `StoredOnceUnlessCutHolds` | `SpeechInv` | `BubblesInv`: ids lie below the counter that gives out the next one, and a line moves it past its row; `StoredInv`: a stream that was not cut has stored nothing before its "stored" |
| `PushToTalk`: `OneTurnHolds` | `HoldsAssumption` | `HoldInv`: until something slips, one request for the microphone is out at most and its recording belongs to the held button; while a recording ends, the page says so, which keeps other turns away |
| `MicrophoneOffHolds` | `HoldInv`, `StartsAssumption` | for the panel `PanelInv`: one attempt at most is on its way and the only open microphone is the one in the refs, so every `Disconnect` closes it |
| `VoicePipeline`: `PipeTypeCorrect` | `PipelineAssumption` | with `CutInv`: an interruption is in the queue of the stage that handles it next |
| `AudioIsOwnHolds` | `PipeTypeCorrect` | `ReadInv`: until an interruption strays, what is unread on the socket is of the sentence that is being read |
| `ReplyWholeHolds` | `CutInv` | `QueueInv`: what a reply was given is what was released of it plus what its drain task still has to release (`ToRelease`), and what is to release stands in the order of the sentences (`ReplyKept`); `TaggerInv`: the drain the tagger appends to, ends or aborts is the reply's own. It rests on the frames between the stages: `Flow` (replies begin in their order in a queue, each behind the end of the one before) and `Over` (how a queue leaves the stage behind it). |
| `RepliesInOrderHolds` | `QueueInv` | `HeardInv`, `OrderInv`: turns are taken in the order they were heard, begin in it in every queue (`StartsIn`), and a reply nobody has seen yet has touched nothing (`NewInv`, `Touched`); `SpokenInv` ties the last sentence out to what was released |
| `InterruptedStaysSilentHolds` | `QueueInv` | a silenced reply has no live drain, and the tagger does not work on it |
| `ExpressionTags`: `TagsAreAdded`, `TagsOnlyAddHolds` | `TextAssumption` | The functions are recursive, so each has a lemma for one more symbol or sentence (`AtAppend`, `JoinAppend`, `CutAppend`), and what they preserve follows along the text. A guard either thins its text, leaving out what is no word (`Thins`, which keeps a legal text legal: `ThinsKeeps`), or is treated by itself (`DanglingIs`, `MalformedIs`), so what is kept of any answer is `Legal` (`ApplyIs`). `SentInv`: `TagsOnlyAdd` says of a stream only what holds when it has ended; before that, the calls have the words of the sentences that have arrived and the buffer has the rest of them. Deltas can cut a run of terminators in two, so this is stated of `Eager`, which ends a sentence at each: it can be put together piece by piece (`EagerConcat`) and says the same (`EagerSays`). |
| `Ears`: `NothingListensHolds` | `EarsAssumption` | `SocketInv`: until a connect fails or the pipeline stops amid a reconnect, the socket in use is the only one not closed |
| `HeardOnceHolds` | `EarsAssumption` | `ResultsInv` and `LastInv`: results come in the order of what was heard and behind what was pushed, and the words of the last transcript are remembered for as long as its socket is read; `FreshInv`: nothing has been heard on a socket that is new |

Each inductive invariant was model-checked on the small instance before it was proved.
The theorems about the surfaces are stated of the specification the run `surfaces` checks,
or of the component's own, which that one implements (`ClientInSurfaces`,
`PanelInSurfaces`, `EarsInSurfaces`, `ButtonInSurfaces`, `PipelineInSurfaces`);
`SurfacesTypeCorrect` collects the types of all of them, and `CompanionTypeCorrect` those of
calls, feelings and requests (`CallsInCompanion`, `FeelInCompanion`, `ServicesInCompanion`).

Only model-checked: `ReflectionReleases`, which is liveness under fairness and out of the
prover's reach.

## 5. Not modelled

* Text: prompts, the parsing of replies, the patterns that classify a message, the ranking
  of memories. What the language model says, and what a message contains, are free choices.
* Open loops (single statements), the adapters of providers other than DeepSeek and Doubao, codecs, signatures, wire formats, file
  gateway, rendering, developer scripts, the offline memory backends.
* The retry policies inside Pipecat and the RTC engine: external, modelled as the order
  of frames and events the code relies on.
* Of the voice pipeline: voice activity detection, the broadcast of transcripts to the
  page, its request-response speech services, configuration. Of the RTC backend: the
  legacy start, the hybrid mode's server, the cloud memory.
* Listings longer than the model's tables: what falls off the end of a LIMIT.

## 6. Plan

1. The hybrid mode's server (`soul_llm_server.py`) as a fifth surface of `SoulTurn`, and
   the transcript broadcast between `VoicePipeline` and the page.
