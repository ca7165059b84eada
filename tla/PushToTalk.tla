----------------------------- MODULE PushToTalk -----------------------------
(* The "Hold" button of the chat (usePushToTalk.ts): the microphone is asked   *)
(* for when the button goes down, recorded while it is held, transcribed when  *)
(* it is let go, and what was said becomes a turn of the chat (App.tsx). The   *)
(* handlers see the state of the last rendering.                               *)
EXTENDS Integers, FiniteSets

CONSTANTS
  MaxHolds, \* bound: presses of the button that ask for the microphone
  MaxTyped  \* bound: typed turns

ASSUME HoldsAssumption == MaxHolds \in Nat /\ MaxTyped \in Nat

VARIABLES
  page,    \* state and isSending, and the two as last rendered
  hand,    \* the button is held; holdActiveRef
  mic,     \* requests out; live recordings; the one in the refs; presses so far
  ending,  \* the stopRecording that is waiting, and what it has captured
  talk,    \* turns in flight; typed turns so far
  slipped  \* history: two requests were out, a release found nothing to stop, or
           \* a stream was granted that no recorder could be made for

pttVars == <<page, hand, mic, ending, talk, slipped>>

NoRecording == 0
States == {"idle", "recording", "transcribing", "error"}
NotEnding == [at |-> "none", sending |-> FALSE, empty |-> FALSE]

PttInit ==
  /\ page = [state |-> "idle", sending |-> FALSE, shown |-> "idle", shownSending |-> FALSE]
  /\ hand = [down |-> FALSE, hold |-> FALSE]
  /\ mic = [asks |-> 0, live |-> {}, current |-> NoRecording, holds |-> 0]
  /\ ending = NotEnding
  /\ talk = [turns |-> 0, typed |-> 0]
  /\ slipped = FALSE

\* setState in an event handler is rendered at once, elsewhere later.
Shown(p) == [p EXCEPT !.shown = p.state, !.shownSending = p.sending]

Render == /\ page' = Shown(page) /\ page' # page
          /\ UNCHANGED <<hand, mic, ending, talk, slipped>>

ButtonDisabled == page.shownSending \/ page.shown = "transcribing"

\* cleanupStream stops the stream in the ref, and no other.
CleanupStream == [mic EXCEPT !.live = @ \ {mic.current}, !.current = NoRecording]

Fail == /\ page' = [page EXCEPT !.state = "error"]
        /\ mic' = CleanupStream

Press ==
  /\ ~hand.down /\ ~ButtonDisabled
  /\ IF page.shown = "recording"
     THEN hand' = [hand EXCEPT !.down = TRUE] /\ UNCHANGED <<mic, slipped>>
     ELSE /\ mic.holds < MaxHolds
          /\ hand' = [down |-> TRUE, hold |-> TRUE]
          /\ mic' = [mic EXCEPT !.asks = @ + 1, !.holds = @ + 1]
          /\ slipped' = (slipped \/ mic.asks > 0)
  /\ UNCHANGED <<page, ending, talk>>

StopRecording ==
  /\ hand' = [down |-> FALSE, hold |-> FALSE]
  /\ IF mic.current = NoRecording
     THEN page' = Shown([page EXCEPT !.state = "idle"]) /\ UNCHANGED ending
     ELSE /\ page' = Shown([page EXCEPT !.state = "transcribing"])
          /\ ending' = [at |-> "recorder", sending |-> page.shownSending, empty |-> FALSE]

\* A disabled button may or may not hear of it.
Release ==
  /\ hand.down
  /\ \/ /\ ButtonDisabled
        /\ hand' = [hand EXCEPT !.down = FALSE]
        /\ slipped' = TRUE /\ UNCHANGED <<page, ending>>
     \/ /\ page.shown # "recording"
        /\ hand' = [down |-> FALSE, hold |-> FALSE]
        /\ slipped' = (slipped \/ page.state = "recording") /\ UNCHANGED <<page, ending>>
     \/ page.shown = "recording" /\ StopRecording /\ UNCHANGED slipped
  /\ UNCHANGED <<mic, talk>>

\* Mutant: the grant does not look whether the button is still held.
GrantedAnyway ==
  /\ mic.asks > 0
  /\ mic' = [mic EXCEPT !.asks = @ - 1, !.live = @ \cup {mic.holds - mic.asks + 1},
                        !.current = mic.holds - mic.asks + 1]
  /\ page' = [page EXCEPT !.state = "recording"]
  /\ UNCHANGED <<hand, ending, talk, slipped>>

Granted ==
  /\ mic.asks > 0
  /\ IF hand.hold
     THEN /\ mic' = [mic EXCEPT !.asks = @ - 1, !.live = @ \cup {mic.holds - mic.asks + 1},
                                !.current = mic.holds - mic.asks + 1]
          /\ page' = [page EXCEPT !.state = "recording"]
     ELSE mic' = [mic EXCEPT !.asks = @ - 1] /\ UNCHANGED page
  /\ UNCHANGED <<hand, ending, talk, slipped>>

\* The MediaRecorder cannot be made: the stream is in no ref yet, and stays on.
NoRecorder ==
  /\ mic.asks > 0 /\ hand.hold
  /\ mic' = [CleanupStream EXCEPT !.asks = @ - 1, !.live = @ \cup {mic.holds - mic.asks + 1}]
  /\ page' = [page EXCEPT !.state = "error"]
  /\ ending' = [ending EXCEPT !.empty = ending.at = "recorder"]
  /\ slipped' = TRUE
  /\ UNCHANGED <<hand, talk>>

Denied ==
  /\ mic.asks > 0
  /\ mic' = [CleanupStream EXCEPT !.asks = @ - 1]
  /\ page' = [page EXCEPT !.state = "error"]
  /\ ending' = [ending EXCEPT !.empty = ending.at = "recorder"]
  /\ UNCHANGED <<hand, talk, slipped>>

\* onstop: whatever is in the refs by now is cleaned up.
RecorderStopped ==
  /\ ending.at = "recorder"
  /\ \/ /\ ~ending.empty
        /\ mic' = CleanupStream
        /\ ending' = [ending EXCEPT !.at = "transcript"] /\ UNCHANGED page
     \/ Fail /\ ending' = NotEnding
  /\ UNCHANGED <<hand, talk, slipped>>

\* Mutant: submitFromVoice does not ask whether a turn is in flight.
TranscribedAnyway ==
  /\ ending.at = "transcript"
  /\ ending' = NotEnding
  /\ page' = [page EXCEPT !.state = "idle", !.sending = TRUE]
  /\ talk' = [talk EXCEPT !.turns = @ + 1]
  /\ UNCHANGED <<hand, mic, slipped>>

\* An empty transcript, or one whose release was during a turn, is dropped.
Transcribed ==
  /\ ending.at = "transcript"
  /\ ending' = NotEnding
  /\ \/ /\ ~ending.sending
        /\ page' = [page EXCEPT !.state = "idle", !.sending = TRUE]
        /\ talk' = [talk EXCEPT !.turns = @ + 1]
     \/ page' = [page EXCEPT !.state = "idle"] /\ UNCHANGED talk
  /\ UNCHANGED <<hand, mic, slipped>>

TranscriptionFails ==
  /\ ending.at = "transcript" /\ Fail /\ ending' = NotEnding
  /\ UNCHANGED <<hand, talk, slipped>>

\* handleSubmit: the input and its button are disabled like the microphone's.
Type ==
  /\ ~ButtonDisabled /\ talk.typed < MaxTyped
  /\ page' = Shown([page EXCEPT !.sending = TRUE])
  /\ talk' = [turns |-> talk.turns + 1, typed |-> talk.typed + 1]
  /\ UNCHANGED <<hand, mic, ending, slipped>>

TurnAnswered ==
  /\ talk.turns > 0
  /\ talk' = [talk EXCEPT !.turns = @ - 1]
  /\ page' = [page EXCEPT !.sending = FALSE]
  /\ UNCHANGED <<hand, mic, ending, slipped>>

PttNext == \/ Render \/ Press \/ Release \/ Granted \/ NoRecorder \/ Denied
           \/ RecorderStopped \/ Transcribed \/ TranscriptionFails \/ Type \/ TurnAnswered

PttSpec == PttInit /\ [][PttNext]_pttVars

-----------------------------------------------------------------------------
PttTypeOK ==
  /\ page \in [state : States, sending : BOOLEAN, shown : States, shownSending : BOOLEAN]
  /\ hand \in [down : BOOLEAN, hold : BOOLEAN]
  /\ mic \in [asks : 0 .. MaxHolds, live : SUBSET (1 .. MaxHolds),
              current : 0 .. MaxHolds, holds : 0 .. MaxHolds]
  /\ ending \in [at : {"none", "recorder", "transcript"}, sending : BOOLEAN, empty : BOOLEAN]

\* The microphone is off when nobody holds the button and nothing is under way,
\* unless two requests for it overlapped, a release came before the page knew of
\* the recording, or a stream was granted that no recorder could be made for.
MicOffUnlessSlipped ==
  (~hand.down /\ mic.asks = 0 /\ ending.at = "none" /\ page = Shown(page))
     => (mic.live = {} \/ slipped)

\* What is said is not sent while another turn of the chat is in flight, however
\* late its transcript comes, unless a request of another hold fails meanwhile.
OneTurnUnlessSlipped == talk.turns <= 1 \/ slipped
=============================================================================
