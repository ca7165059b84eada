---------------------------- MODULE VoicePipeline ----------------------------
(* The Pipecat pipeline of the spoken companion (backend/realtime): barge-in, *)
(* the brain's turn, the subtitle tap, the expression tagger, the Doubao      *)
(* synthesizer and the output transport. Every stage has a queue of frames    *)
(* of its own; an InterruptionFrame is handled before what is queued ahead of *)
(* it, which it drops, and ends what the stage is doing (Pipecat, as the      *)
(* comments of the stages describe it).                                       *)
EXTENDS Integers, Sequences, SequencesExt

CONSTANTS
  MaxReplies,   \* bound: final transcripts, and the turns they become
  MaxSentences, \* bound: sentences of a reply
  MaxCuts,      \* bound: interruptions
  MaxBreaks     \* bound: broken synthesizer connections

ASSUME PipelineAssumption == {MaxReplies, MaxSentences, MaxCuts, MaxBreaks} \subseteq Nat

Turns == 1 .. MaxReplies

VARIABLES
  speaker, \* the speaker: talking; BargeInProcessor: its view of the bot, its debounce
  heard,   \* final transcripts waiting at the brain
  brain,   \* CompanionBrainProcessor: _turn_task, _last_reply_text, _pending_interruption_text
  turns,   \* the turn tasks
  toTap, toTagger, toTts,   \* the frames queued at the stages
  tap,     \* _BoxiTranscriptTap: _collecting and _buffer; the subtitles emitted
  tagger,  \* ExpressionTaggerProcessor
  drains,  \* its drain tasks, one for each reply that began
  synth,   \* DoubaoStreamingTTSService: the sentence being read, the unread messages
  out,     \* audio at the output transport
  cut,     \* the interruption on its way: the stage that handles it next
  count,   \* transcripts, cuts and broken connections so far
  past     \* history: sentences collected and released, replies ended and cut

pipeVars == <<speaker, heard, brain, turns, toTap, toTagger, toTts, tap, tagger, drains,
              synth, out, cut, count, past>>
input  == <<speaker, count, cut>>
sound  == <<synth, out>>

None == 0
NoSentence == [turn |-> 0, n |-> 0, half |-> FALSE]

\* _ensure_connected makes a socket of its own, on which nothing is unread.
FreshSocket == <<>>

StartFrame(t)           == [kind |-> "start", turn |-> t, flag |-> FALSE]
TextFrame(t, ends)      == [kind |-> "text", turn |-> t, flag |-> ends]
EndFrame(t, truncated)  == [kind |-> "end", turn |-> t, flag |-> truncated]
CutFrame                == [kind |-> "cut", turn |-> 0, flag |-> FALSE]
Sentinel                == [kind |-> "sentinel", turn |-> 0, id |-> 0, half |-> FALSE]

\* What is left of a queue when the interruption in it is handled.
Behind(queue, interruption) ==
  SubSeq(queue, 1 + (CHOOSE i \in DOMAIN queue : queue[i] = interruption), Len(queue))

PipeInit ==
  /\ \E on \in BOOLEAN :
       speaker = [talking |-> FALSE, enabled |-> on, bot |-> FALSE, pending |-> FALSE]
  /\ heard = <<>>
  /\ brain = [task |-> None, last |-> None, hint |-> None]
  /\ turns = [t \in Turns |-> [pc |-> "none", said |-> 0, open |-> FALSE, hint |-> None]]
  /\ toTap = <<>> /\ toTagger = <<>> /\ toTts = <<>>
  /\ tap = [collecting |-> FALSE, buffer |-> {}, shown |-> {}]
  /\ tagger = [collecting |-> FALSE, id |-> None, own |-> None, fragment |-> FALSE,
               finishing |-> None, aborting |-> None, unwinding |-> {}]
  /\ drains = [t \in Turns |-> [live |-> FALSE, queue |-> <<>>]]
  /\ synth = [reading |-> NoSentence, unread |-> FreshSocket]
  /\ out = <<>> /\ cut = "none"
  /\ count = [heard |-> 0, cuts |-> 0, breaks |-> 0]
  /\ past = [got |-> [t \in Turns |-> 0], released |-> [t \in Turns |-> 0],
             ended |-> {}, silenced |-> {}, lastOut |-> NoSentence, strayAudio |-> FALSE]

-----------------------------------------------------------------------------
(* VAD and BargeInProcessor *)
UserStartsSpeaking ==
  /\ ~speaker.talking
  /\ speaker' = [speaker EXCEPT !.talking = TRUE, !.pending = @ \/ (speaker.enabled /\ speaker.bot)]
  /\ UNCHANGED <<heard, brain, turns, toTap, toTagger, toTts, tap, tagger, drains,
                 sound, cut, count, past>>

UserStopsSpeaking ==
  /\ speaker.talking
  /\ speaker' = [speaker EXCEPT !.talking = FALSE, !.pending = FALSE]
  /\ UNCHANGED <<heard, brain, turns, toTap, toTagger, toTts, tap, tagger, drains,
                 sound, cut, count, past>>

\* The output transport reports that the bot started or stopped speaking.
BotReported ==
  /\ speaker.bot # (out # <<>>)
  /\ speaker' = [speaker EXCEPT !.bot = (out # <<>>), !.pending = @ /\ out # <<>>]
  /\ UNCHANGED <<heard, brain, turns, toTap, toTagger, toTts, tap, tagger, drains,
                 sound, cut, count, past>>

DebounceEnds ==
  /\ speaker.pending /\ cut = "none" /\ count.cuts < MaxCuts
  /\ speaker' = [speaker EXCEPT !.pending = FALSE]
  /\ cut' = "brain"
  /\ heard' = Append(heard, None)
  /\ count' = [count EXCEPT !.cuts = @ + 1]
  /\ UNCHANGED <<brain, turns, toTap, toTagger, toTts, tap, tagger, drains,
                 sound, past>>

\* The streaming recognizer has a final transcript.
Hear ==
  /\ count.heard < MaxReplies
  /\ count' = [count EXCEPT !.heard = @ + 1]
  /\ heard' = Append(heard, count.heard + 1)
  /\ UNCHANGED <<speaker, brain, turns, toTap, toTagger, toTts, tap, tagger, drains,
                 sound, cut, past>>

-----------------------------------------------------------------------------
(* CompanionBrainProcessor. cancel_task returns when the cancelled turn has  *)
(* run its `finally`; one that never started has none.                        *)
CancelledEnd(t, tail) ==
  IF t # None /\ turns[t].pc = "running"
  THEN (IF tail /\ ~turns[t].open THEN <<TextFrame(t, FALSE)>> ELSE <<>>)
         \o <<EndFrame(t, FALSE)>>
  ELSE <<>>

Cancelled == IF brain.task = None THEN turns
             ELSE [turns EXCEPT ![brain.task].pc = "cancelled"]

\* Mutant: the turn before is left running.
TakeTranscriptOnly ==
  /\ heard # <<>> /\ Head(heard) # None
  /\ turns' = [turns EXCEPT ![Head(heard)].pc = "created"]
  /\ brain' = [brain EXCEPT !.task = Head(heard)]
  /\ heard' = Tail(heard)
  /\ UNCHANGED <<toTap, toTagger, toTts, tap, tagger, drains, sound, input, past>>

TakeTranscript ==
  /\ heard # <<>> /\ Head(heard) # None
  /\ \E tail \in BOOLEAN : toTap' = toTap \o CancelledEnd(brain.task, tail)
  /\ turns' = [Cancelled EXCEPT ![Head(heard)].pc = "created"]
  /\ brain' = [brain EXCEPT !.task = Head(heard)]
  /\ heard' = Tail(heard)
  /\ UNCHANGED <<toTagger, toTts, tap, tagger, drains, sound, input, past>>

\* _handle_turn: the hint is consumed, then the reply begins.
TurnStarts(t) ==
  /\ turns[t].pc = "created"
  /\ turns' = [turns EXCEPT ![t].pc = "running", ![t].hint = brain.hint]
  /\ brain' = [brain EXCEPT !.hint = None]
  /\ toTap' = Append(toTap, StartFrame(t))
  /\ UNCHANGED <<heard, toTagger, toTts, tap, tagger, drains, sound, input, past>>

TurnSays(t, ends) ==
  /\ turns[t].pc = "running" /\ turns[t].said < MaxSentences
  /\ ends \/ ~turns[t].open
  /\ turns' = [turns EXCEPT ![t].open = ~ends, ![t].said = IF ends THEN @ + 1 ELSE @]
  /\ brain' = [brain EXCEPT !.last = t]
  /\ toTap' = Append(toTap, TextFrame(t, ends))
  /\ UNCHANGED <<heard, toTagger, toTts, tap, tagger, drains, sound, input, past>>

\* The reply is complete, hits the token cap, or fails.
TurnEnds(t, truncated) ==
  /\ turns[t].pc = "running"
  /\ turns' = [turns EXCEPT ![t].pc = "done"]
  /\ brain' = [brain EXCEPT !.task = None, !.last = t]
  /\ toTap' = Append(toTap, EndFrame(t, truncated))
  /\ UNCHANGED <<heard, toTagger, toTts, tap, tagger, drains, sound, input, past>>

InterruptBrain ==
  /\ cut = "brain" /\ cut' = "tap"
  /\ heard' = Behind(heard, None)
  /\ \E tail \in BOOLEAN :
       toTap' = Append(toTap \o CancelledEnd(brain.task, tail), CutFrame)
  /\ turns' = Cancelled
  /\ brain' = [brain EXCEPT !.task = None,
                            !.hint = IF brain.last # None THEN brain.last ELSE @]
  /\ UNCHANGED <<speaker, toTagger, toTts, tap, tagger, drains, sound, count, past>>

-----------------------------------------------------------------------------
(* _BoxiTranscriptTap *)
TapPasses ==
  /\ toTap # <<>> /\ Head(toTap) # CutFrame
  /\ LET f == Head(toTap) IN
       tap' = CASE f.kind = "start" -> [tap EXCEPT !.collecting = TRUE, !.buffer = {}]
                [] f.kind = "text" /\ tap.collecting -> [tap EXCEPT !.buffer = @ \cup {f.turn}]
                [] f.kind = "end" /\ tap.collecting ->
                     [collecting |-> FALSE, buffer |-> {},
                      shown |-> tap.shown \cup (IF tap.buffer = {} THEN {} ELSE {tap.buffer})]
                [] OTHER -> tap
  /\ toTagger' = Append(toTagger, Head(toTap))
  /\ toTap' = Tail(toTap)
  /\ UNCHANGED <<heard, brain, turns, toTts, tagger, drains, sound, input, past>>

InterruptTap ==
  /\ cut = "tap" /\ cut' = "tagger"
  /\ toTap' = Behind(toTap, CutFrame)
  /\ toTagger' = Append(toTagger, CutFrame)
  /\ UNCHANGED <<speaker, heard, brain, turns, toTts, tap, tagger, drains,
                 sound, count, past>>

-----------------------------------------------------------------------------
(* ExpressionTaggerProcessor. `own` names the reply whose _queue and          *)
(* _drain_task the processor holds, `id` the one whose sentences are current. *)
BeginTurn(t) ==
  /\ tagger' = [tagger EXCEPT !.collecting = TRUE, !.id = t, !.own = t, !.fragment = FALSE]
  /\ drains' = [drains EXCEPT ![t] = [live |-> TRUE, queue |-> <<>>]]
  /\ UNCHANGED <<toTts, past>>

\* _schedule: without a queue the sentence is dropped.
Scheduled(half) ==
  IF tagger.own = None THEN drains
  ELSE [drains EXCEPT ![tagger.own].queue =
          Append(@, [kind |-> "sentence", turn |-> tagger.own, id |-> tagger.id, half |-> half])]

\* History: a sentence of the reply that is being collected.
Collected == IF tagger.id = None THEN past ELSE [past EXCEPT !.got[tagger.id] = @ + 1]

CollectText(f) ==
  /\ tagger' = [tagger EXCEPT !.fragment = ~f.flag]
  /\ IF f.flag THEN drains' = Scheduled(FALSE) /\ past' = Collected
               ELSE UNCHANGED <<drains, past>>
  /\ UNCHANGED toTts

\* The tail of a truncated reply is dropped; then _finish_turn puts its mark and
\* waits for the drain task.
CollectEnd(f) ==
  LET tail == tagger.fragment /\ ~f.flag
      after == IF tail THEN Scheduled(TRUE) ELSE drains
  IN /\ tagger' = [tagger EXCEPT !.collecting = FALSE, !.fragment = FALSE,
                                 !.finishing = tagger.own]
     /\ drains' = IF tagger.own = None THEN after
                  ELSE [after EXCEPT ![tagger.own].queue = Append(@, Sentinel)]
     /\ past' = [(IF tail THEN Collected ELSE past) EXCEPT
                   !.ended = IF tagger.own = None THEN @ \cup {tagger.id} ELSE @]
     /\ UNCHANGED toTts

\* Outside a reply the frames pass as they are.
PassOn(f) ==
  /\ toTts' = IF f.kind = "text" /\ f.flag
              THEN Append(toTts, [turn |-> f.turn, n |-> 0, half |-> FALSE]) ELSE toTts
  /\ UNCHANGED <<tagger, drains, past>>

TaggerTakes ==
  /\ toTagger # <<>> /\ Head(toTagger) # CutFrame
  /\ tagger.finishing = None /\ tagger.aborting = None
  /\ LET f == Head(toTagger) IN
       \/ f.kind = "start" /\ BeginTurn(f.turn)
       \/ f.kind = "text" /\ tagger.collecting /\ CollectText(f)
       \/ f.kind = "end" /\ tagger.collecting /\ CollectEnd(f)
       \/ f.kind # "start" /\ ~tagger.collecting /\ PassOn(f)
  /\ toTagger' = Tail(toTagger)
  /\ UNCHANGED <<heard, brain, turns, toTap, tap, sound, input>>

\* _drain: the call that tags the first sentence is done.
Drain(t) ==
  /\ drains[t].live /\ drains[t].queue # <<>>
  /\ LET item == Head(drains[t].queue)
         rest == [live |-> item # Sentinel, queue |-> Tail(drains[t].queue)]
         s    == [turn |-> t, n |-> past.released[t] + 1, half |-> item.half]
     IN /\ drains' = [drains EXCEPT ![t] = rest]
        /\ IF item # Sentinel /\ item.id = tagger.id
           THEN /\ toTts' = Append(toTts, s)
                /\ past' = [past EXCEPT !.released[t] = @ + 1, !.lastOut = s]
           ELSE UNCHANGED <<toTts, past>>
  /\ UNCHANGED <<heard, brain, turns, toTap, toTagger, tap, tagger, sound, input>>

\* Mutant: the reply ends without waiting for the drain task.
FinishTurnAtOnce ==
  /\ tagger.finishing # None
  /\ tagger' = [tagger EXCEPT !.finishing = None,
                              !.own = IF @ = tagger.finishing THEN None ELSE @]
  /\ past' = [past EXCEPT !.ended = @ \cup {tagger.finishing}]
  /\ UNCHANGED <<heard, brain, turns, toTap, toTagger, toTts, tap, drains, sound, input>>

\* _finish_turn behind its await of the drain task.
FinishTurn ==
  /\ tagger.finishing # None /\ ~drains[tagger.finishing].live
  /\ tagger' = [tagger EXCEPT !.finishing = None,
                              !.own = IF @ = tagger.finishing THEN None ELSE @]
  /\ past' = [past EXCEPT !.ended = @ \cup {tagger.finishing}]
  /\ UNCHANGED <<heard, brain, turns, toTap, toTagger, toTts, tap, drains, sound, input>>

Stopped == [live |-> FALSE, queue |-> <<>>]

\* Mutant: only a reply that is still streaming in is aborted.
InterruptTaggerWhileCollecting ==
  /\ cut = "tagger" /\ tagger.aborting = None
  /\ toTagger' = Behind(toTagger, CutFrame)
  /\ IF tagger.collecting
     THEN /\ tagger' = [tagger EXCEPT !.collecting = FALSE, !.id = None, !.fragment = FALSE,
                                      !.own = None]
          /\ drains' = [drains EXCEPT ![tagger.own] = Stopped]
     ELSE UNCHANGED <<tagger, drains>>
  /\ past' = [past EXCEPT !.silenced = @ \cup {t \in Turns : drains[t].live}]
  /\ cut' = "tts" /\ toTts' = Append(toTts, NoSentence)
  /\ UNCHANGED <<speaker, heard, brain, turns, toTap, tap, sound, count>>

\* _abort_turn up to its await. A _finish_turn in progress is cancelled by the
\* framework and may take its time to unwind.
InterruptTagger ==
  /\ cut = "tagger" /\ tagger.aborting = None
  /\ toTagger' = Behind(toTagger, CutFrame)
  /\ tagger' = [tagger EXCEPT
       !.collecting = FALSE, !.id = None, !.fragment = FALSE, !.finishing = None,
       !.unwinding = IF tagger.finishing = None THEN @ ELSE @ \cup {tagger.finishing},
       !.aborting = tagger.own]
  /\ drains' = [t \in Turns |-> IF t \in {tagger.own, tagger.finishing} THEN Stopped
                                                                        ELSE drains[t]]
  /\ past' = [past EXCEPT !.silenced = @ \cup {t \in Turns : drains[t].live}]
  /\ IF tagger.own = None THEN cut' = "tts" /\ toTts' = Append(toTts, NoSentence)
                            ELSE UNCHANGED <<cut, toTts>>
  /\ UNCHANGED <<speaker, heard, brain, turns, toTap, tap, sound, count>>

AbortDone ==
  /\ tagger.aborting # None
  /\ tagger' = [tagger EXCEPT !.aborting = None,
                              !.own = IF @ = tagger.aborting THEN None ELSE @]
  /\ cut' = "tts" /\ toTts' = Append(toTts, NoSentence)
  /\ UNCHANGED <<speaker, heard, brain, turns, toTap, toTagger, tap, drains,
                 sound, count, past>>

\* The cancelled _finish_turn goes on behind its await.
Unwind(t) ==
  /\ t \in tagger.unwinding
  /\ tagger' = [tagger EXCEPT !.unwinding = @ \ {t}, !.own = IF @ = t THEN None ELSE @]
  /\ UNCHANGED <<heard, brain, turns, toTap, toTagger, toTts, tap, drains, sound,
                 input, past>>

-----------------------------------------------------------------------------
(* DoubaoStreamingTTSService: one socket for all sentences. A sentence is a   *)
(* session, whose messages the server queues in order.                        *)
RunTts ==
  /\ synth.reading = NoSentence /\ toTts # <<>> /\ Head(toTts) # NoSentence
  /\ LET s == Head(toTts) IN
       synth' = [reading |-> s, unread |-> synth.unread \o <<[of |-> s, last |-> FALSE],
                                                         [of |-> s, last |-> TRUE]>>]
  /\ toTts' = Tail(toTts)
  /\ UNCHANGED <<heard, brain, turns, toTap, toTagger, tap, tagger, drains, out, input, past>>

\* Mutant: the socket is kept after an error.
SocketBreaksButStays ==
  /\ synth.reading # NoSentence /\ count.breaks < MaxBreaks
  /\ synth' = [synth EXCEPT !.reading = NoSentence]
  /\ count' = [count EXCEPT !.breaks = @ + 1]
  /\ UNCHANGED <<speaker, heard, brain, turns, toTap, toTagger, toTts, tap, tagger, drains,
                 out, cut, past>>

\* The connection fails, or the service reports an error: the rest of the
\* sentence is lost and the next one connects anew.
SocketBreaks ==
  /\ synth.reading # NoSentence /\ count.breaks < MaxBreaks
  /\ synth' = [reading |-> NoSentence, unread |-> FreshSocket]
  /\ count' = [count EXCEPT !.breaks = @ + 1]
  /\ UNCHANGED <<speaker, heard, brain, turns, toTap, toTagger, toTts, tap, tagger, drains,
                 out, cut, past>>

\* _ws_audio_chunks: the next message of the socket, whose session nobody looks
\* at.
ReadSocket ==
  /\ synth.reading # NoSentence /\ synth.unread # <<>>
  /\ LET m == Head(synth.unread) IN
       /\ synth' = [reading |-> IF m.last THEN NoSentence ELSE synth.reading,
                  unread |-> Tail(synth.unread)]
       /\ out' = IF m.last THEN out
                 ELSE Append(out, [asked |-> synth.reading, heard |-> m.of])
  /\ UNCHANGED <<heard, brain, turns, toTap, toTagger, toTts, tap, tagger, drains, input, past>>

InterruptTts ==
  /\ cut = "tts" /\ cut' = "output"
  /\ toTts' = Behind(toTts, NoSentence)
  /\ synth' = [synth EXCEPT !.reading = NoSentence]
  /\ past' = [past EXCEPT !.strayAudio = @ \/ synth.unread # <<>>]
  /\ UNCHANGED <<speaker, heard, brain, turns, toTap, toTagger, tap, tagger, drains, out, count>>

-----------------------------------------------------------------------------
(* The output transport *)
Play ==
  /\ out # <<>> /\ out' = Tail(out)
  /\ UNCHANGED <<heard, brain, turns, toTap, toTagger, toTts, tap, tagger, drains, synth,
                 input, past>>

InterruptOutput ==
  /\ cut = "output" /\ cut' = "none" /\ out' = <<>>
  /\ UNCHANGED <<speaker, heard, brain, turns, toTap, toTagger, toTts, tap, tagger, drains,
                 synth, count, past>>

-----------------------------------------------------------------------------
PipeNext ==
  \/ UserStartsSpeaking \/ UserStopsSpeaking \/ BotReported \/ DebounceEnds \/ Hear
  \/ TakeTranscript \/ InterruptBrain
  \/ \E t \in Turns :
       TurnStarts(t) \/ (\E ends \in BOOLEAN : TurnSays(t, ends))
         \/ (\E truncated \in BOOLEAN : TurnEnds(t, truncated)) \/ Drain(t) \/ Unwind(t)
  \/ TapPasses \/ InterruptTap
  \/ TaggerTakes \/ FinishTurn \/ InterruptTagger \/ AbortDone
  \/ RunTts \/ SocketBreaks \/ ReadSocket \/ InterruptTts
  \/ Play \/ InterruptOutput

PipeSpec == PipeInit /\ [][PipeNext]_pipeVars

-----------------------------------------------------------------------------
Frames == [kind : {"start", "text", "end"}, turn : Turns, flag : BOOLEAN] \cup {CutFrame}
Sentences == [turn : Turns \cup {0}, n : Nat, half : BOOLEAN]
MaybeTurn == Turns \cup {None}

\* Every value the stages keep is one the code can hold.
PipeTypeOK ==
  /\ speaker \in [talking : BOOLEAN, enabled : BOOLEAN, bot : BOOLEAN, pending : BOOLEAN]
  /\ heard \in Seq(MaybeTurn)
  /\ brain \in [task : MaybeTurn, last : MaybeTurn, hint : MaybeTurn]
  /\ turns \in [Turns -> [pc : {"none", "created", "running", "done", "cancelled"},
                          said : 0 .. MaxSentences, open : BOOLEAN, hint : MaybeTurn]]
  /\ toTap \in Seq(Frames) /\ toTagger \in Seq(Frames) /\ toTts \in Seq(Sentences)
  /\ tap \in [collecting : BOOLEAN, buffer : SUBSET Turns, shown : SUBSET SUBSET Turns]
  /\ tagger \in [collecting : BOOLEAN, id : MaybeTurn, own : MaybeTurn, fragment : BOOLEAN,
                 finishing : MaybeTurn, aborting : MaybeTurn, unwinding : SUBSET Turns]
  /\ \A t \in Turns : drains[t].live \in BOOLEAN
  /\ synth.reading \in Sentences /\ \A m \in ToSet(synth.unread) : m.of \in Sentences
  /\ cut \in {"none", "brain", "tap", "tagger", "tts", "output"}

\* Once the tagger has handled an interruption, no sentence of a reply it was
\* working on reaches the synthesizer any more.
InterruptedStaysSilent ==
  [][\A t \in past.silenced : past'.released[t] = past.released[t]]_pipeVars

\* When a reply has ended at the tagger without having been interrupted, every
\* sentence of it has been released: no clean-up of another reply lost one.
ReplyWhole ==
  \A t \in past.ended \ past.silenced : past.released[t] = past.got[t]

\* Replies are spoken one after the other, and each in its order.
RepliesInOrder ==
  [][past'.lastOut # past.lastOut =>
       \/ past'.lastOut.turn > past.lastOut.turn
       \/ /\ past'.lastOut.turn = past.lastOut.turn
          /\ past'.lastOut.n = past.lastOut.n + 1]_pipeVars

\* What is played for a sentence is the audio of that sentence.
AudioIsOwn == \A a \in ToSet(out) : a.asked = a.heard

\* The same, as long as no interruption left messages on the socket.
AudioIsOwnUnlessCut == past.strayAudio \/ AudioIsOwn
=============================================================================
