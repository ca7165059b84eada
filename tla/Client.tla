------------------------------- MODULE Client --------------------------------
(* The chat client (frontend/src/App.tsx and its hooks): a turn sent to the *)
(* backend as a stream with a plain request behind it, the lines that come  *)
(* with behaviour ticks, the speech of both, and the avatar all of them     *)
(* drive. JavaScript is single-threaded: a step is what runs between two    *)
(* awaits. The continuation of an aborted playback is a microtask and runs  *)
(* before any other event does (Macrotask).                                 *)
EXTENDS Naturals, FiniteSets

CONSTANTS
  Ticks,      \* the idle ticks and proactive checks the client sends
  Turn,       \* names the turn among those who speak
  MaxTurns,   \* bound: turns sent
  MaxLoad,    \* bound: turns, ticks and clicks together
  MaxMutes,   \* bound: clicks on the mute button
  MaxClears,  \* bound: clicks on the clear button
  OldRows     \* rows of `messages` before the client starts

ASSUME ClientAssumption ==
  Turn \notin Ticks /\ {MaxTurns, MaxLoad, MaxMutes, MaxClears, OldRows} \subseteq Nat

Speakers == Ticks \cup {Turn}

VARIABLES
  nextId,   \* nextMessageIdRef
  shown,    \* the bubbles of the chat: their ids and whose they are
  turn,     \* submitToBackend in flight; isSending is turn.pc # "none"
  boot,     \* bootstrap: the health and history requests
  face,     \* useAvatarState: the state and its pending timers
  tts,      \* useTextToSpeech with ttsActiveRef and ttsEpochRef
  speech,   \* the speakReply calls
  ticks,    \* the /behavior/evaluate requests and their handlers
  rows,     \* backend: the last id of `messages`
  paused,   \* `paused` as useBehaviorTicks last ran its effect with it
  clicks,   \* turns, mutes and clears so far
  late      \* history: the stored messages came in over a chat that had begun

chat == <<nextId, shown>>
user == <<boot, paused, clicks, late>>
vars == <<chat, turn, face, tts, speech, ticks, rows, user>>

Bubble(id, of) == [id |-> id, of |-> of]

\* chatEpochRef and playbackSessionRef only count up and are only compared: what
\* a turn, a call or ttsEpochRef remembers of them is whether it is current.
NoTurn   == [pc |-> "none", current |-> FALSE, bubble |-> 0, talking |-> FALSE,
             server |-> "none", stored |-> 0, cut |-> FALSE]
NoSpeech == [pc |-> "none", fresh |-> FALSE]
NoTick   == [pc |-> "none", row |-> 0, line |-> "none"]
Handled  == [NoTick EXCEPT !.pc = "done"]

(* The avatar. clearTimers is part of every change but the two of           *)
(* runChatFetchSequence, which only add a timer. `overtaken` is a history   *)
(* of the pose: the epoch that whoever is to hand it back compares with     *)
(* has gone by.                                                             *)
Pose(state, timers)   == [avatar |-> state, timers |-> timers, overtaken |-> FALSE]
SetManualState(state) == Pose(state, 0)
ScheduleReturn(state) == Pose(state, 1)
AddReturn(state)      == Pose(state, face.timers + 1)
TimerReturns          == Pose("rest", face.timers - 1)

\* The avatar keeps its pose although chatEpochRef has gone on.
Overtaken == [face EXCEPT !.overtaken = @ \/ tts.speaking \/ turn.pc = "speaking"]

\* What a rendering gives useBehaviorTicks as `paused`.
Paused == turn.pc # "none" \/ tts.speaking \/ tts.active

-----------------------------------------------------------------------------
Init ==
  /\ nextId = 1 /\ shown = {} /\ turn = NoTurn /\ boot = "health"
  /\ face = SetManualState("rest")
  /\ \E on \in BOOLEAN :
       tts = [on |-> on, muted |-> FALSE, speaking |-> FALSE, active |-> FALSE,
              current |-> TRUE]
  /\ speech = [s \in Speakers |-> NoSpeech]
  /\ ticks = [k \in Ticks |-> NoTick]
  /\ rows = OldRows /\ late = FALSE /\ paused = FALSE
  /\ clicks = [turns |-> 0, mutes |-> 0, clears |-> 0]

-----------------------------------------------------------------------------
\* Mutant: clearCurrentAudio detaches the audio but does not abort the stream.
NewSessionKeepsStream ==
  [s \in Speakers |->
     [pc |-> IF speech[s].pc = "clip" THEN "detached" ELSE speech[s].pc, fresh |-> FALSE]]

(* Speech. A new session: clearCurrentAudio makes an aborted stream resume  *)
(* its call, while a clip (playAudioClip has no signal) is detached and     *)
(* never ends, so the call that awaits it stays where it is.                *)
NewSession ==
  [s \in Speakers |->
     [pc |-> CASE speech[s].pc = "stream" -> "aborted"
               [] speech[s].pc = "clip"   -> "detached"
               [] OTHER -> speech[s].pc,
      fresh |-> FALSE]]

\* speakReply up to its first await.
SpeakReply(s) == [NewSession EXCEPT ![s] = [pc |-> "evaluate", fresh |-> TRUE]]

StopSpeaking(t)  == [t EXCEPT !.speaking = FALSE]
OnSpeakingEnd(t) == [t EXCEPT !.speaking = FALSE, !.active = FALSE]
FaceAfterSpeech  == IF tts.current THEN SetManualState("rest") ELSE face

ShouldAttemptTts == tts.on /\ ~tts.muted

\* What a behaviour has seen begin: a turn and a cleared chat count two.
Load == 2 * (clicks.turns + clicks.clears) + clicks.mutes
          + Cardinality({k \in Ticks : ticks[k].pc # "none"})

Macrotask == \A s \in Speakers : speech[s].pc # "aborted"

-----------------------------------------------------------------------------
(* bootstrap *)
HealthAnswers ==
  /\ Macrotask /\ boot = "health"
  /\ boot' \in {"reading", "offline"}
  /\ UNCHANGED <<chat, turn, face, tts, speech, ticks, rows, paused, clicks, late>>

\* fetchStoredMessages: the rows of some moment since the health check. It may
\* fail, and it is left out in a tab whose view has been cleared.
HistoryArrives ==
  /\ Macrotask /\ boot = "reading" /\ boot' = "ready"
  /\ \/ \E upTo \in OldRows .. rows :
          /\ shown' = {Bubble(id, "history") : id \in 1 .. upTo}
          /\ nextId' = upTo + 1
          /\ late' = (shown # {} \/ turn.pc # "none")
     \/ UNCHANGED <<chat, late>>
  /\ UNCHANGED <<turn, face, tts, speech, ticks, rows, paused, clicks>>

ClearChatView ==
  /\ Macrotask /\ turn.pc = "none" /\ shown # {}
  /\ clicks.clears < MaxClears /\ Load + 1 < MaxLoad
  /\ clicks' = [clicks EXCEPT !.clears = @ + 1]
  /\ shown' = {} /\ nextId' = 1
  /\ UNCHANGED <<turn, face, tts, speech, ticks, rows, boot, paused, late>>

-----------------------------------------------------------------------------
(* submitToBackend *)

\* An empty message is sent without a bubble; offline it is not sent at all.
Submit(withText) ==
  /\ Macrotask /\ turn.pc = "none" /\ clicks.turns < MaxTurns /\ Load + 1 < MaxLoad
  /\ withText \/ boot # "offline"
  /\ LET bubble == IF withText THEN nextId + 1 ELSE nextId IN
       /\ shown' = shown \cup {Bubble(bubble, "reply")}
                         \cup (IF withText THEN {Bubble(nextId, "user")} ELSE {})
       /\ nextId' = bubble + 1
       /\ turn' = [NoTurn EXCEPT !.pc = "stream", !.current = TRUE, !.bubble = bubble,
                                 !.server = "running"]
  /\ clicks' = [clicks EXCEPT !.turns = @ + 1]
  /\ tts' = [OnSpeakingEnd(tts) EXCEPT !.current = FALSE]
  /\ speech' = NewSession
  /\ face' = SetManualState("thinking")
  /\ UNCHANGED <<ticks, rows, boot, paused, late>>

RunEmptySubmitSequence ==
  /\ Macrotask /\ turn.pc = "none" /\ boot = "offline"
  /\ face' = ScheduleReturn("annoyed")
  /\ UNCHANGED <<chat, turn, tts, speech, ticks, rows, user>>

OnDelta ==
  /\ Macrotask /\ turn.pc = "stream" /\ turn.server = "running"
  /\ turn.current /\ ~turn.talking
  /\ turn' = [turn EXCEPT !.talking = TRUE]
  /\ face' = SetManualState("talking")
  /\ UNCHANGED <<chat, tts, speech, ticks, rows, user>>

\* Backend: the user's and the assistant's row.
ServerStores ==
  /\ turn.server = "running"
  /\ turn' = [turn EXCEPT !.server = "stored", !.stored = @ + 1]
  /\ rows' = rows + 2
  /\ UNCHANGED <<chat, face, tts, speech, ticks, user>>

\* The reply has come. Without speech the callback of runChatFetchSequence
\* returns and the face gets the reply's state and one more timer.
ReplyReady(empty) ==
  \/ /\ empty \/ ~ShouldAttemptTts \/ ~turn.current
     /\ turn' = NoTurn
     /\ face' = AddReturn("talking")
     /\ UNCHANGED <<tts, speech>>
  \/ /\ ~empty /\ ShouldAttemptTts /\ turn.current
     /\ turn' = [turn EXCEPT !.pc = "speaking"]
     /\ speech' = SpeakReply(Turn)
     /\ UNCHANGED <<face, tts>>
  \/ \* nothing to pronounce: speakReply returns false at once
     /\ ~empty /\ ShouldAttemptTts /\ turn.current
     /\ turn' = NoTurn
     /\ face' = ScheduleReturn("talking")
     /\ tts' = [tts EXCEPT !.active = FALSE] /\ UNCHANGED speech

\* Mutant: The reply is asked for again although the stream was done.
StreamDoneAsksAgain ==
  /\ Macrotask /\ turn.pc = "stream" /\ turn.server = "stored"
  /\ turn' = [turn EXCEPT !.pc = "complete", !.server = "running"]
  /\ UNCHANGED <<chat, face, tts, speech, ticks, rows, user>>

\* onDone: the bubble of a streamed reply is already there.
StreamDone ==
  /\ Macrotask /\ turn.pc = "stream" /\ turn.server = "stored"
  /\ \E empty \in BOOLEAN : ReplyReady(empty)
  /\ UNCHANGED <<chat, ticks, rows, user>>

\* An error event, a broken connection or a stream without "done": the same
\* message is sent to /chat/complete, whatever became of the stream's turn. A
\* commit the backend is in the middle of is carried through.
StreamFails ==
  /\ Macrotask /\ turn.pc = "stream"
  /\ shown' = {b \in shown : b.id # turn.bubble}
  /\ \E committing \in BOOLEAN :
       /\ committing => turn.server = "running"
       /\ rows' = IF committing THEN rows + 2 ELSE rows
       /\ turn' = [turn EXCEPT !.pc = "complete", !.server = "running",
                               !.cut = committing \/ turn.server = "stored",
                               !.stored = IF committing THEN @ + 1 ELSE @]
  /\ tts' = OnSpeakingEnd(tts)
  /\ speech' = NewSession
  /\ UNCHANGED <<nextId, face, ticks, user>>

CompleteAnswers ==
  /\ Macrotask /\ turn.pc = "complete" /\ turn.server = "stored"
  /\ \E empty \in BOOLEAN :
       /\ ReplyReady(empty)
       /\ IF empty \/ ~turn.current THEN UNCHANGED chat
          ELSE shown' = shown \cup {Bubble(nextId, "reply")} /\ nextId' = nextId + 1
  /\ UNCHANGED <<ticks, rows, user>>

CompleteFails ==
  /\ Macrotask /\ turn.pc = "complete"
  /\ shown' = shown \cup {Bubble(nextId, "error")} /\ nextId' = nextId + 1
  /\ turn' = NoTurn
  /\ face' = AddReturn("annoyed")
  /\ UNCHANGED <<tts, speech, ticks, rows, user>>

-----------------------------------------------------------------------------
(* speakReply after its awaits *)

\* Mutant: Nobody hands the avatar back after a reply that was not spoken.
ReturnKeepsFace(s, spoke, f, t) ==
  /\ speech' = [speech EXCEPT ![s] = NoSpeech]
  /\ tts' = t /\ face' = f
  /\ IF s = Turn THEN turn' = NoTurn /\ UNCHANGED ticks
                 ELSE ticks' = [ticks EXCEPT ![s] = Handled] /\ UNCHANGED turn

\* What the caller does with the result: a turn ends; the handler of a tick
\* hands the avatar back if nothing was spoken. f and t are the face and the
\* speech state the call leaves behind.
Return(s, spoke, f, t) ==
  /\ speech' = [speech EXCEPT ![s] = NoSpeech]
  /\ IF s = Turn
     THEN /\ turn' = NoTurn
          /\ tts' = IF spoke THEN t ELSE [t EXCEPT !.active = FALSE]
          /\ face' = IF ~spoke /\ turn.current THEN ScheduleReturn("talking") ELSE f
          /\ UNCHANGED ticks
     ELSE /\ ticks' = [ticks EXCEPT ![s] = Handled]
          /\ face' = IF spoke THEN f ELSE ScheduleReturn("cue")
          /\ tts' = t /\ UNCHANGED turn

\* playSpeechChunk has returned.
PlaybackEnds(s, played) ==
  IF speech[s].fresh THEN Return(s, played, FaceAfterSpeech, OnSpeakingEnd(tts))
                     ELSE Return(s, FALSE, face, tts)

\* /tts/evaluate answers, or fails, which counts as a yes.
Evaluated(s) ==
  /\ Macrotask /\ speech[s].pc = "evaluate"
  /\ \/ Return(s, FALSE, face, tts)
     \/ /\ ~tts.muted /\ speech[s].fresh
        /\ speech' = [speech EXCEPT ![s].pc = "stream"]
        /\ tts' = [tts EXCEPT !.speaking = TRUE, !.active = TRUE, !.current = TRUE]
        /\ face' = [SetManualState("talking") EXCEPT !.overtaken = s = Turn /\ ~turn.current]
        /\ UNCHANGED <<turn, ticks>>
  /\ UNCHANGED <<chat, rows, user>>

StreamPlayed(s) ==
  /\ Macrotask /\ speech[s].pc = "stream"
  /\ PlaybackEnds(s, TRUE)
  /\ UNCHANGED <<chat, rows, user>>

\* The stream cannot be played: the same text is asked for as one clip.
StreamUnplayable(s) ==
  /\ Macrotask /\ speech[s].pc = "stream"
  /\ speech' = [speech EXCEPT ![s].pc = "synthesize"]
  /\ UNCHANGED <<chat, turn, face, tts, ticks, rows, user>>

Aborted(s) ==
  /\ speech[s].pc = "aborted"
  /\ PlaybackEnds(s, FALSE)
  /\ UNCHANGED <<chat, rows, user>>

\* playBufferedFallback. An exception ends the call without onSpeakingEnd.
Synthesized(s) ==
  /\ Macrotask /\ speech[s].pc = "synthesize"
  /\ \/ PlaybackEnds(s, FALSE)
     \/ /\ ~tts.muted /\ speech[s].fresh
        /\ speech' = [speech EXCEPT ![s].pc = "clip"]
        /\ UNCHANGED <<turn, face, tts, ticks>>
     \/ Return(s, FALSE, face, IF speech[s].fresh THEN StopSpeaking(tts) ELSE tts)
  /\ UNCHANGED <<chat, rows, user>>

ClipEnds(s) ==
  /\ Macrotask /\ speech[s].pc = "clip"
  /\ \E played \in BOOLEAN : PlaybackEnds(s, played)
  /\ UNCHANGED <<chat, rows, user>>

ToggleMuted ==
  /\ Macrotask /\ tts.on /\ clicks.mutes < MaxMutes /\ Load < MaxLoad
  /\ clicks' = [clicks EXCEPT !.mutes = @ + 1]
  /\ IF tts.muted
     THEN tts' = [tts EXCEPT !.muted = FALSE] /\ UNCHANGED <<face, speech>>
     ELSE /\ tts' = [(IF tts.speaking THEN OnSpeakingEnd(tts) ELSE tts) EXCEPT !.muted = TRUE]
          /\ face' = IF tts.speaking THEN FaceAfterSpeech ELSE face
          /\ speech' = NewSession
  /\ UNCHANGED <<chat, turn, ticks, rows, boot, paused, late>>

-----------------------------------------------------------------------------
(* useBehaviorTicks and handleBehaviorDecision *)

\* React renders later than `isSending` or `speaking` changes, and only then does
\* the effect run again: when it has become `paused`, its cleanup drops the
\* answers still to come. Until then they are handled.
TicksEffect ==
  /\ paused # Paused /\ paused' = Paused
  /\ ticks' = [k \in Ticks |-> IF Paused /\ ticks[k].pc = "asked" THEN Handled ELSE ticks[k]]
  /\ UNCHANGED <<chat, turn, face, tts, speech, rows, boot, clicks, late>>

\* The backend decides, and stores the line of its decision whether or not the
\* client will still wait for the answer.
TickAsks(k) ==
  /\ Macrotask /\ ticks[k].pc = "none"
  /\ boot \notin {"health", "offline"} /\ ~paused /\ Load < MaxLoad
  /\ \E line \in {"none", "proactive", "mutter"} :
       /\ ticks' = [ticks EXCEPT ![k] = [pc |-> "asked", line |-> line, row |->
                                           IF line = "none" THEN 0 ELSE rows + 1]]
       /\ rows' = IF line = "none" THEN rows ELSE rows + 1
  /\ UNCHANGED <<chat, turn, face, tts, speech, user>>

\* The bubble of a line has the id of its row, and
\* shouldSkipDuplicateBehaviorMessage drops it when the chat has that id.
Duplicate(k) == \E b \in shown : b.id = ticks[k].row

\* Mutant: The counter of the chat is not moved past the row of the line.
AppendLineKeepsCounter(k) ==
  /\ shown' = IF Duplicate(k) THEN shown ELSE shown \cup {Bubble(ticks[k].row, k)}
  /\ turn' = [turn EXCEPT !.current = FALSE]
  /\ tts' = [tts EXCEPT !.current = FALSE]
  /\ UNCHANGED nextId

AppendLine(k) ==
  /\ shown' = IF Duplicate(k) THEN shown ELSE shown \cup {Bubble(ticks[k].row, k)}
  /\ nextId' = IF nextId > ticks[k].row THEN nextId ELSE ticks[k].row + 1
  /\ turn' = [turn EXCEPT !.current = FALSE]
  /\ tts' = [tts EXCEPT !.current = FALSE]

SpeakLine(k, speak) ==
  /\ ticks' = [ticks EXCEPT ![k] = IF speak THEN [NoTick EXCEPT !.pc = "speaking"] ELSE Handled]
  /\ speech' = IF speak THEN SpeakReply(k) ELSE speech

\* speakReply returns false at once when nothing of a line can be pronounced.
MayBeRead == {FALSE, ShouldAttemptTts}

\* React may run the updater that sets `appended` only at the next render: the
\* handler then returns as if the line had been a duplicate.
ProactiveArrives(k) ==
  /\ Macrotask /\ ticks[k].pc = "asked" /\ ticks[k].line = "proactive"
  /\ AppendLine(k)
  /\ \/ SpeakLine(k, FALSE) /\ face' = Overtaken
     \/ /\ ~Duplicate(k) /\ face' = ScheduleReturn("cue")
        /\ \E speak \in MayBeRead : SpeakLine(k, speak)
  /\ UNCHANGED <<rows, user>>

MutterArrives(k) ==
  /\ Macrotask /\ ticks[k].pc = "asked" /\ ticks[k].line = "mutter"
  /\ AppendLine(k)
  /\ \E speak \in MayBeRead :
       /\ SpeakLine(k, speak)
       /\ face' = IF speak THEN SetManualState("cue") ELSE ScheduleReturn("cue")
  /\ UNCHANGED <<rows, user>>

\* An answer without a line (`observe` moves the avatar), or no answer.
ObserveArrives(k) ==
  /\ Macrotask /\ ticks[k].pc = "asked" /\ ticks[k].line = "none"
  /\ ticks' = [ticks EXCEPT ![k] = Handled]
  /\ face' \in {ScheduleReturn("cue"), SetManualState("rest"), face}
  /\ UNCHANGED <<chat, turn, tts, speech, rows, user>>

\* Mutant: A timer that was cleared fires all the same.
ClearedTimerFires ==
  /\ Macrotask
  /\ face' = TimerReturns
  /\ UNCHANGED <<chat, turn, tts, speech, ticks, rows, user>>

TimerFires ==
  /\ Macrotask /\ face.timers > 0
  /\ face' = TimerReturns
  /\ UNCHANGED <<chat, turn, tts, speech, ticks, rows, user>>

\* useMoodRest: a poll replaces any resting state, annoyed among them.
MoodPolled ==
  /\ Macrotask /\ face.avatar = "annoyed"
  /\ face' = [face EXCEPT !.avatar = "rest"]
  /\ UNCHANGED <<chat, turn, tts, speech, ticks, rows, user>>

-----------------------------------------------------------------------------
Next ==
  \/ HealthAnswers \/ HistoryArrives \/ ClearChatView
  \/ \E withText \in BOOLEAN : Submit(withText)
  \/ RunEmptySubmitSequence \/ OnDelta \/ ServerStores \/ StreamDone \/ StreamFails
  \/ CompleteAnswers \/ CompleteFails
  \/ \E s \in Speakers :
       Evaluated(s) \/ StreamPlayed(s) \/ StreamUnplayable(s) \/ Aborted(s)
         \/ Synthesized(s) \/ ClipEnds(s)
  \/ ToggleMuted
  \/ \E k \in Ticks :
       TickAsks(k) \/ ProactiveArrives(k) \/ MutterArrives(k)
         \/ ObserveArrives(k)
  \/ TicksEffect \/ TimerFires \/ MoodPolled

Spec == Init /\ [][Next]_vars

-----------------------------------------------------------------------------
\* Every value the client keeps is one its hooks can hold.
TypeOK ==
  /\ nextId \in Nat \ {0} /\ rows \in Nat /\ late \in BOOLEAN /\ paused \in BOOLEAN
  /\ shown \subseteq [id : Nat, of : {"history", "user", "reply", "error"} \cup Ticks]
  /\ turn \in [pc : {"none", "stream", "complete", "speaking"}, current : BOOLEAN,
               bubble : Nat, talking : BOOLEAN, server : {"none", "running", "stored"},
               stored : Nat, cut : BOOLEAN]
  /\ boot \in {"health", "reading", "ready", "offline"}
  /\ face \in [avatar : {"rest", "thinking", "talking", "annoyed", "cue"}, timers : Nat,
               overtaken : BOOLEAN]
  /\ tts \in [on : BOOLEAN, muted : BOOLEAN, speaking : BOOLEAN, active : BOOLEAN,
              current : BOOLEAN]
  /\ speech \in [Speakers -> [pc : {"none", "evaluate", "stream", "synthesize", "clip",
                                    "aborted", "detached"}, fresh : BOOLEAN]]
  /\ ticks \in [Ticks -> [pc : {"none", "asked", "speaking", "done"},
                          row : Nat, line : {"none", "proactive", "mutter"}]]
  /\ clicks \in [turns : 0 .. MaxTurns, mutes : 0 .. MaxMutes, clears : 0 .. MaxClears]

Audible(s) == speech[s].pc \in {"stream", "clip"}

\* When nothing is under way the avatar rests, or a timer will make it rest: no
\* order of turns, lines, aborted speech and mutes leaves it in a pose, but one.
\* A line may come in while the client speaks, before React has rendered that it
\* does, and not be read: if it takes no pose (a duplicate), whoever has the pose
\* finds the epoch changed and hands nothing back; and a reply that is still
\* spoken after such a line is not handed back if its playback throws.
AvatarComesBackUnlessOvertaken ==
  (turn.pc = "none" /\ \A s \in Speakers : speech[s].pc \in {"none", "detached"})
     => (face.avatar = "rest" \/ face.timers > 0 \/ face.overtaken)

\* One voice at a time, and it belongs to the newest call.
OneVoice ==
  \A s \in Speakers : Audible(s) =>
     /\ speech[s].fresh
     /\ \A other \in Speakers : Audible(other) => other = s

\* No two bubbles share an id, so a delta only ever reaches its own, unless the
\* history came in over a chat that had already begun.
BubblesDistinctUnlessLate ==
  \/ late
  \/ /\ \A a, b \in shown : a.id = b.id => a = b
     /\ turn.pc = "stream" => Bubble(turn.bubble, "reply") \in shown

\* A message is stored as two turns only when the stream's turn was committed
\* and its "done" did not arrive.
StoredOnceUnlessCut == turn.cut \/ turn.stored <= 1

=============================================================================
