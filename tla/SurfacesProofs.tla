---------------------------- MODULE SurfacesProofs ----------------------------
(***************************************************************************)
(* Theorems about the surfaces: the chat in the browser, its push-to-talk  *)
(* button, the panel of the spoken companion, and the services that        *)
(* companion listens with.  They are proved for every bound of the         *)
(* instances, any set of behaviour ticks and any words; what is proved of  *)
(* that companion's pipeline is in PipelineProofs, of the tags it puts     *)
(* into what it says in TagsProofs.                                        *)
(***************************************************************************)
EXTENDS MCSurfaces, PipelineProofs, TagsProofs

-----------------------------------------------------------------------------
(* The push-to-talk button *)

Pages   == [state : States, sending : BOOLEAN, shown : States, shownSending : BOOLEAN]
Hands   == [down : BOOLEAN, hold : BOOLEAN]
Mics    == [asks : 0 .. MaxHolds, live : SUBSET (1 .. MaxHolds),
            current : 0 .. MaxHolds, holds : 0 .. MaxHolds]
Endings == [at : {"none", "recorder", "transcript"}, sending : BOOLEAN, empty : BOOLEAN]

PttTypeInv ==
  /\ PttTypeOK
  /\ mic.asks <= mic.holds
  /\ talk \in [turns : Nat, typed : Nat] /\ slipped \in BOOLEAN

\* Until something slips, one request for the microphone is out at most and the
\* recording it leads to belongs to the button that is held; while a recording
\* ends the page says so, which keeps every other turn away.
HoldInv ==
  ~slipped =>
    /\ talk.turns \in {0, 1} /\ (page.sending <=> talk.turns = 1)
    /\ talk.turns = 1 => page.shownSending \/ page.shown = "transcribing"
    /\ ending.at # "none" =>
         /\ page.state = "transcribing" /\ page.shown = "transcribing"
         /\ mic.asks = 0
         /\ ending.sending \/ talk.turns = 0
    /\ mic.asks \in {0, 1}
    /\ mic.asks = 1 => page.state # "recording" /\ page.shown # "recording"
    /\ page.state = "recording" \/ hand.hold => hand.down
    /\ mic.live = {mic.current} \ {NoRecording}
    /\ mic.current # NoRecording => page.state = "recording" \/ ending.at = "recorder"

LEMMA PttTypes ==
  PttTypeOK <=> page \in Pages /\ hand \in Hands /\ mic \in Mics /\ ending \in Endings
BY DEF PttTypeOK, Pages, Hands, Mics, Endings

LEMMA PageEdits ==
  ASSUME NEW p \in Pages, NEW state \in States, NEW b \in BOOLEAN
  PROVE  /\ Shown(p) \in Pages /\ [p EXCEPT !.sending = b] \in Pages
         /\ [p EXCEPT !.state = state] \in Pages
         /\ [p EXCEPT !.state = state, !.sending = b] \in Pages
<1>1. Shown(p) \in Pages BY DEF Shown, Pages
<1>2. [p EXCEPT !.sending = b] \in Pages BY DEF Pages
<1>3. [p EXCEPT !.state = state] \in Pages BY DEF Pages
<1>4. [p EXCEPT !.state = state, !.sending = b] \in Pages BY DEF Pages
<1>q. QED BY <1>1, <1>2, <1>3, <1>4

LEMMA HandEdits ==
  ASSUME hand \in Hands, NEW a \in BOOLEAN, NEW b \in BOOLEAN
  PROVE  [hand EXCEPT !.down = a] \in Hands /\ [down |-> a, hold |-> b] \in Hands
BY DEF Hands

LEMMA EndingEdits ==
  ASSUME ending \in Endings, NEW b \in BOOLEAN
  PROVE  /\ NotEnding \in Endings /\ [ending EXCEPT !.empty = b] \in Endings
         /\ [ending EXCEPT !.at = "transcript"] \in Endings
         /\ [at |-> "recorder", sending |-> b, empty |-> FALSE] \in Endings
<1>1. NotEnding \in Endings BY DEF NotEnding, Endings
<1>2. [ending EXCEPT !.empty = b] \in Endings BY DEF Endings
<1>3. [ending EXCEPT !.at = "transcript"] \in Endings BY DEF Endings
<1>4. [at |-> "recorder", sending |-> b, empty |-> FALSE] \in Endings BY DEF Endings
<1>q. QED BY <1>1, <1>2, <1>3, <1>4

\* The recording of a grant is one of the presses, and cleaning up keeps the
\* recordings a set of them.
LEMMA MicEdits ==
  ASSUME mic \in Mics, mic.asks <= mic.holds
  PROVE  /\ CleanupStream \in Mics
         /\ mic.asks > 0 =>
              /\ mic.holds - mic.asks + 1 \in 1 .. MaxHolds
              /\ [mic EXCEPT !.asks = @ - 1] \in Mics
              /\ [CleanupStream EXCEPT !.asks = @ - 1] \in Mics
              /\ [mic EXCEPT !.asks = @ - 1, !.live = @ \cup {mic.holds - mic.asks + 1},
                             !.current = mic.holds - mic.asks + 1] \in Mics
              /\ [CleanupStream EXCEPT !.asks = @ - 1, !.live = @ \cup {mic.holds - mic.asks + 1}]
                   \in Mics
         /\ mic.holds < MaxHolds => [mic EXCEPT !.asks = @ + 1, !.holds = @ + 1] \in Mics
<1> DEFINE n == mic.holds - mic.asks + 1
<1>1. CleanupStream \in Mics
  <2>1. mic.live \ {mic.current} \in SUBSET (1 .. MaxHolds) BY DEF Mics
  <2>2. NoRecording \in 0 .. MaxHolds BY HoldsAssumption DEF NoRecording
  <2>q. QED BY <2>1, <2>2 DEF CleanupStream, Mics
<1>2. ASSUME mic.asks > 0 PROVE mic.asks - 1 \in 0 .. MaxHolds
  BY <1>2, HoldsAssumption DEF Mics
<1>3. ASSUME mic.asks > 0 PROVE n \in 1 .. MaxHolds /\ n \in 0 .. MaxHolds
  BY <1>3, HoldsAssumption DEF Mics
<1>4. ASSUME mic.asks > 0
      PROVE  [mic EXCEPT !.asks = mic.asks - 1, !.live = mic.live \cup {n}, !.current = n] \in Mics
  <2>1. mic.live \cup {n} \in SUBSET (1 .. MaxHolds) BY <1>3, <1>4 DEF Mics
  <2> HIDE DEF n
  <2>q. QED BY <1>2, <1>3, <1>4, <2>1 DEF Mics
<1>5. ASSUME mic.asks > 0 PROVE [mic EXCEPT !.asks = @ - 1] \in Mics BY <1>2, <1>5 DEF Mics
<1>6. ASSUME mic.asks > 0 PROVE [CleanupStream EXCEPT !.asks = @ - 1] \in Mics
  <2>1. CleanupStream.asks = mic.asks BY DEF CleanupStream, Mics
  <2>q. QED BY <1>1, <1>2, <1>6, <2>1 DEF Mics
<1>8. ASSUME mic.asks > 0
      PROVE  [CleanupStream EXCEPT !.asks = mic.asks - 1,
                                   !.live = CleanupStream.live \cup {n}] \in Mics
  <2>1. CleanupStream.live \cup {n} \in SUBSET (1 .. MaxHolds) BY <1>1, <1>3, <1>8 DEF Mics
  <2> HIDE DEF n
  <2>q. QED BY <1>1, <1>2, <1>8, <2>1 DEF Mics
<1>9. CleanupStream.asks = mic.asks BY DEF CleanupStream, Mics
<1>7. ASSUME mic.holds < MaxHolds
      PROVE  [mic EXCEPT !.asks = @ + 1, !.holds = @ + 1] \in Mics
  <2>1. mic.asks + 1 \in 0 .. MaxHolds /\ mic.holds + 1 \in 0 .. MaxHolds
    BY <1>7, HoldsAssumption DEF Mics
  <2>q. QED BY <2>1 DEF Mics
<1>q. QED BY <1>1, <1>3, <1>4, <1>5, <1>6, <1>7, <1>8, <1>9

LEMMA PttStarts == ASSUME PttInit PROVE PttTypeInv /\ HoldInv
<1>1. page \in Pages BY DEF PttInit, Pages, States
<1>2. hand \in Hands BY DEF PttInit, Hands
<1>3. mic \in Mics BY HoldsAssumption DEF PttInit, Mics, NoRecording
<1>4. ending \in Endings BY DEF PttInit, Endings, NotEnding
<1>5. mic.asks <= mic.holds BY DEF PttInit
<1>6. talk \in [turns : Nat, typed : Nat] /\ slipped \in BOOLEAN BY DEF PttInit
<1>7. HoldInv BY DEF PttInit, HoldInv, NotEnding, NoRecording
<1>q. QED BY <1>1, <1>2, <1>3, <1>4, <1>5, <1>6, <1>7, PttTypes DEF PttTypeInv

LEMMA PageTyped == ASSUME PttTypeInv, [PttNext]_pttVars PROVE page' \in Pages
<1>t. page \in Pages BY PttTypes DEF PttTypeInv
<1>s. States = {"idle", "recording", "transcribing", "error"} BY DEF States
<1>1. CASE Render \/ Press \/ Release
  <2>1. page' \in {page, Shown(page), Shown([page EXCEPT !.state = "idle"]),
                   Shown([page EXCEPT !.state = "transcribing"])}
    BY <1>1 DEF Render, Press, Release, StopRecording
  <2>q. QED BY <1>t, <1>s, <2>1, PageEdits
<1>2. CASE Granted \/ NoRecorder \/ Denied \/ RecorderStopped \/ TranscriptionFails
  <2>1. page' \in {page, [page EXCEPT !.state = "recording"], [page EXCEPT !.state = "error"]}
    BY <1>2 DEF Granted, NoRecorder, Denied, RecorderStopped, TranscriptionFails, Fail
  <2>q. QED BY <1>t, <1>s, <2>1, PageEdits
<1>3. CASE Transcribed \/ Type \/ TurnAnswered
  <2>1. page' \in {[page EXCEPT !.state = "idle", !.sending = TRUE],
                   [page EXCEPT !.state = "idle"], Shown([page EXCEPT !.sending = TRUE]),
                   [page EXCEPT !.sending = FALSE]}
    BY <1>3 DEF Transcribed, Type, TurnAnswered
  <2>q. QED BY <1>t, <1>s, <2>1, PageEdits
<1>4. CASE UNCHANGED pttVars BY <1>t, <1>4 DEF pttVars
<1>q. QED BY <1>1, <1>2, <1>3, <1>4 DEF PttNext

LEMMA HandTyped == ASSUME PttTypeInv, [PttNext]_pttVars PROVE hand' \in Hands
<1>t. hand \in Hands BY PttTypes DEF PttTypeInv
<1>1. hand' \in {hand, [hand EXCEPT !.down = TRUE], [hand EXCEPT !.down = FALSE],
                 [down |-> TRUE, hold |-> TRUE], [down |-> FALSE, hold |-> FALSE]}
  <2>1. CASE Press BY <2>1 DEF Press
  <2>2. CASE Release BY <2>2 DEF Release, StopRecording
  <2>3. CASE UNCHANGED hand BY <2>3
  <2>q. QED BY <2>1, <2>2, <2>3 DEF PttNext, Render, Granted, NoRecorder, Denied,
      RecorderStopped, Transcribed, TranscriptionFails, Type, TurnAnswered, pttVars
<1>q. QED BY <1>t, <1>1, HandEdits

LEMMA MicTyped ==
  ASSUME PttTypeInv, [PttNext]_pttVars PROVE mic' \in Mics /\ mic'.asks <= mic'.holds
<1>t. mic \in Mics /\ mic.asks <= mic.holds BY PttTypes DEF PttTypeInv
<1>f. mic.asks \in Nat /\ mic.holds \in Nat BY <1>t, HoldsAssumption DEF Mics
<1>1. CASE Press
  <2>1. \/ mic' = mic
        \/ mic.holds < MaxHolds /\ mic' = [mic EXCEPT !.asks = @ + 1, !.holds = @ + 1]
    BY <1>1 DEF Press
  <2>2. mic' \in Mics BY <1>t, <2>1, MicEdits
  <2>3. \/ mic' = mic
        \/ mic'.asks = mic.asks + 1 /\ mic'.holds = mic.holds + 1
    BY <1>t, <2>1 DEF Mics
  <2>q. QED BY <1>t, <1>f, <2>2, <2>3
<1>2. CASE Granted
  <2>1. \/ mic' = [mic EXCEPT !.asks = @ - 1]
        \/ mic' = [mic EXCEPT !.asks = @ - 1, !.live = @ \cup {mic.holds - mic.asks + 1},
                              !.current = mic.holds - mic.asks + 1]
    BY <1>2 DEF Granted
  <2>2. mic.asks > 0 BY <1>2 DEF Granted
  <2>3. mic' \in Mics BY <1>t, <2>1, <2>2, MicEdits
  <2>4. mic'.asks = mic.asks - 1 /\ mic'.holds = mic.holds BY <1>t, <2>1 DEF Mics
  <2>q. QED BY <1>t, <1>f, <2>3, <2>4
<1>3. CASE Denied
  <2>1. mic' = [CleanupStream EXCEPT !.asks = @ - 1] /\ mic.asks > 0 BY <1>3 DEF Denied
  <2>2. mic' \in Mics BY <1>t, <2>1, MicEdits
  <2>3. mic'.asks = mic.asks - 1 /\ mic'.holds = mic.holds
    BY <1>t, <2>1 DEF CleanupStream, Mics
  <2>q. QED BY <1>t, <1>f, <2>2, <2>3
<1>5. CASE NoRecorder
  <2>1. /\ mic' = [CleanupStream EXCEPT !.asks = @ - 1, !.live = @ \cup {mic.holds - mic.asks + 1}]
        /\ mic.asks > 0
    BY <1>5 DEF NoRecorder
  <2>2. mic' \in Mics BY <1>t, <2>1, MicEdits
  <2>3. mic'.asks = mic.asks - 1 /\ mic'.holds = mic.holds
    BY <1>t, <2>1 DEF CleanupStream, Mics
  <2>q. QED BY <1>t, <1>f, <2>2, <2>3
<1>4. CASE mic' \in {mic, CleanupStream}
  BY <1>t, <1>4, MicEdits DEF CleanupStream, Mics
<1>q. QED
  BY <1>1, <1>2, <1>3, <1>4, <1>5 DEF PttNext, Render, Release, RecorderStopped, Fail,
     Transcribed, TranscriptionFails, Type, TurnAnswered, pttVars

LEMMA EndingTyped == ASSUME PttTypeInv, [PttNext]_pttVars PROVE ending' \in Endings
<1>t. ending \in Endings /\ page \in Pages BY PttTypes DEF PttTypeInv
<1>b. page.shownSending \in BOOLEAN BY <1>t DEF Pages
<1>1. CASE Release
  BY <1>t, <1>b, <1>1, EndingEdits DEF Release, StopRecording
<1>2. CASE Denied \/ NoRecorder
  <2>1. (ending.at = "recorder") \in BOOLEAN OBVIOUS
  <2>q. QED BY <1>t, <1>2, <2>1, EndingEdits DEF Denied, NoRecorder
<1>3. CASE ending' \in {ending, NotEnding, [ending EXCEPT !.at = "transcript"]}
  BY <1>t, <1>3, EndingEdits
<1>q. QED
  BY <1>1, <1>2, <1>3 DEF PttNext, Render, Press, Granted, RecorderStopped,
     Transcribed, TranscriptionFails, Type, TurnAnswered, pttVars

LEMMA PttTypeStep == ASSUME PttTypeInv, [PttNext]_pttVars PROVE PttTypeInv'
<1>1. PttTypeOK' BY PageTyped, HandTyped, MicTyped, EndingTyped
  DEF PttTypeOK, Pages, Hands, Mics, Endings
<1>2. talk' \in [turns : Nat, typed : Nat]
  <2>t. talk \in [turns : Nat, typed : Nat] BY DEF PttTypeInv
  <2>1. CASE Transcribed BY <2>t, <2>1 DEF Transcribed
  <2>2. CASE Type BY <2>t, <2>2 DEF Type
  <2>3. CASE TurnAnswered BY <2>t, <2>3 DEF TurnAnswered
  <2>4. CASE UNCHANGED talk BY <2>t, <2>4
  <2>q. QED BY <2>1, <2>2, <2>3, <2>4 DEF PttNext, Render, Press, Release, Granted, NoRecorder,
      Denied, RecorderStopped, TranscriptionFails, pttVars
<1>3. slipped' \in BOOLEAN
  <2>1. slipped \in BOOLEAN BY DEF PttTypeInv
  <2>2. slipped' \in {slipped, TRUE, slipped \/ mic.asks > 0, slipped \/ page.state = "recording"}
    BY DEF PttNext, Render, Press, Release, Granted, NoRecorder, Denied, RecorderStopped,
      Transcribed, TranscriptionFails, Type, TurnAnswered, pttVars
  <2>q. QED BY <2>1, <2>2
<1>q. QED BY <1>1, <1>2, <1>3, MicTyped DEF PttTypeInv

LEMMA HoldStep == ASSUME PttTypeInv, HoldInv, [PttNext]_pttVars PROVE HoldInv'
<1> SUFFICES ASSUME ~slipped' PROVE HoldInv' BY DEF HoldInv
<1> USE DEF HoldInv, NoRecording
<1>t. /\ page \in Pages /\ hand \in Hands
      /\ mic \in [asks : Nat, live : SUBSET Nat, current : Nat, holds : Nat]
      /\ ending \in Endings /\ talk \in [turns : Nat, typed : Nat]
  BY HoldsAssumption, PttTypes DEF PttTypeInv, Mics
<1> USE DEF Pages, Hands, Endings
<1>1. CASE Render BY <1>1, <1>t DEF Render, Shown
<1>2. CASE Press
  <2>1. CASE page.shown = "recording"
    BY <1>2, <1>t, <2>1 DEF Press, ButtonDisabled
  <2>2. CASE page.shown # "recording"
    <3>1. /\ hand'.down /\ page' = page /\ ending' = ending /\ talk' = talk
          /\ mic' = [mic EXCEPT !.asks = @ + 1, !.holds = @ + 1]
          /\ ~slipped /\ ~(mic.asks > 0) /\ page.shown # "transcribing"
      <4>1. /\ hand' = [down |-> TRUE, hold |-> TRUE] /\ UNCHANGED <<page, ending, talk>>
            /\ mic' = [mic EXCEPT !.asks = @ + 1, !.holds = @ + 1]
            /\ slipped' = (slipped \/ mic.asks > 0) /\ ~ButtonDisabled
        BY <1>2, <2>2 DEF Press
      <4>q. QED BY <4>1 DEF ButtonDisabled
    <3>2. /\ mic'.asks = mic.asks + 1 /\ mic'.live = mic.live /\ mic'.current = mic.current
      BY <1>t, <3>1
    <3>3. mic.asks = 0 /\ mic'.asks = 1 BY <1>t, <3>1, <3>2
    <3>4. page.state # "recording"
      BY <1>2, <1>t, <2>2, <3>1 DEF Press
    <3>q. QED BY <1>t, <2>2, <3>1, <3>2, <3>3, <3>4
  <2>q. QED BY <2>1, <2>2
<1>3. CASE Release
  <2>1. ~slipped BY <1>3 DEF Release
  <2>2. CASE page.shown # "recording"
    BY <1>3, <1>t, <2>1, <2>2 DEF Release, ButtonDisabled
  <2>3. CASE page.shown = "recording" /\ mic.current = NoRecording
    <3>1. /\ page' = Shown([page EXCEPT !.state = "idle"]) /\ ending' = ending
          /\ hand' = [down |-> FALSE, hold |-> FALSE] /\ mic' = mic /\ talk' = talk
      BY <1>3, <2>1, <2>3 DEF Release, StopRecording
    <3>2. /\ page'.state = "idle" /\ page'.shown = "idle"
          /\ page'.sending = page.sending /\ page'.shownSending = page.sending
      BY <1>t, <3>1 DEF Shown
    <3>q. QED BY <1>t, <2>1, <2>3, <3>1, <3>2
  <2>4. CASE page.shown = "recording" /\ mic.current # NoRecording
    <3>1. /\ page' = Shown([page EXCEPT !.state = "transcribing"])
          /\ ending' = [at |-> "recorder", sending |-> page.shownSending, empty |-> FALSE]
          /\ hand' = [down |-> FALSE, hold |-> FALSE] /\ mic' = mic /\ talk' = talk
      BY <1>3, <2>1, <2>4 DEF Release, StopRecording
    <3>2. /\ page'.state = "transcribing" /\ page'.shown = "transcribing"
          /\ page'.sending = page.sending /\ page'.shownSending = page.sending
      BY <1>t, <3>1 DEF Shown
    <3>3. mic.asks = 0 /\ (page.shownSending \/ talk.turns = 0) BY <2>1, <2>4
    <3>q. QED BY <1>t, <2>1, <2>4, <3>1, <3>2, <3>3
  <2>q. QED BY <2>2, <2>3, <2>4
<1>4. CASE Granted
  <2>1. CASE hand.hold
    <3> DEFINE n == mic.holds - mic.asks + 1
    <3>1. /\ mic.asks > 0 /\ page' = [page EXCEPT !.state = "recording"]
          /\ mic' = [mic EXCEPT !.asks = mic.asks - 1, !.live = mic.live \cup {n}, !.current = n]
          /\ UNCHANGED <<hand, ending, talk>> /\ ~slipped
      BY <1>4, <2>1 DEF Granted
    <3>2. n \in 1 .. MaxHolds BY <3>1, MicEdits, PttTypes DEF PttTypeInv
    <3>3. n \in Nat /\ n # 0 BY <3>2, HoldsAssumption
    <3> HIDE DEF n
    <3>4. /\ page'.state = "recording" /\ page'.shown = page.shown
          /\ page'.sending = page.sending /\ page'.shownSending = page.shownSending
      BY <1>t, <3>1
    <3>5. mic.asks = 1 BY <1>t, <3>1
    <3>6. mic'.asks = 0 /\ mic'.live = mic.live \cup {n} /\ mic'.current = n
      BY <1>t, <3>1, <3>5
    <3>7. ending.at = "none" /\ mic.current = 0 /\ mic.live = {} BY <3>1, <3>5
    <3>q. QED BY <1>t, <2>1, <3>1, <3>3, <3>4, <3>6, <3>7
  <2>2. CASE ~hand.hold BY <1>4, <1>t, <2>2 DEF Granted
  <2>q. QED BY <2>1, <2>2
<1>5. CASE Denied BY <1>5, <1>t DEF Denied, CleanupStream
<1>12. CASE NoRecorder BY <1>12 DEF NoRecorder
<1>6. CASE RecorderStopped
  <2>1. /\ mic' = CleanupStream /\ UNCHANGED <<hand, talk>> /\ ~slipped
        /\ ending.at = "recorder"
        /\ \/ ending' = [ending EXCEPT !.at = "transcript"] /\ page' = page
           \/ ending' = NotEnding /\ page' = [page EXCEPT !.state = "error"]
    BY <1>6 DEF RecorderStopped, Fail
  <2>2. mic'.asks = mic.asks /\ mic'.live = mic.live \ {mic.current} /\ mic'.current = 0
    BY <1>t, <2>1 DEF CleanupStream
  <2>3. mic'.live = {} BY <2>1, <2>2
  <2>4. /\ page'.shown = page.shown /\ page'.sending = page.sending
        /\ page'.shownSending = page.shownSending
        /\ \/ page'.state = "transcribing" /\ ending'.sending = ending.sending
           \/ page'.state = "error" /\ ending'.at = "none"
    BY <1>t, <2>1 DEF NotEnding
  <2>q. QED BY <1>t, <2>1, <2>2, <2>3, <2>4
<1>7. CASE Transcribed
  <2>1. /\ ending.at = "transcript" /\ ending' = NotEnding /\ UNCHANGED <<hand, mic>> /\ ~slipped
        /\ \/ /\ ~ending.sending /\ page' = [page EXCEPT !.state = "idle", !.sending = TRUE]
              /\ talk' = [talk EXCEPT !.turns = @ + 1]
           \/ page' = [page EXCEPT !.state = "idle"] /\ talk' = talk
    BY <1>7 DEF Transcribed
  <2>2. /\ page'.state = "idle" /\ page'.shown = page.shown
        /\ page'.shownSending = page.shownSending /\ ending'.at = "none"
    BY ZenonT(40), <1>t, <2>1 DEF NotEnding
  <2>3. \/ ~ending.sending /\ page'.sending /\ talk'.turns = talk.turns + 1
        \/ page'.sending = page.sending /\ talk'.turns = talk.turns
    BY <1>t, <2>1
  <2>q. QED BY <1>t, <2>1, <2>2, <2>3
<1>8. CASE TranscriptionFails BY <1>8, <1>t DEF TranscriptionFails, Fail, CleanupStream, NotEnding
<1>9. CASE Type BY <1>9, <1>t DEF Type, Shown, ButtonDisabled
<1>10. CASE TurnAnswered BY <1>10, <1>t DEF TurnAnswered
<1>11. CASE UNCHANGED pttVars BY <1>11 DEF pttVars
<1>q. QED
  BY <1>1, <1>2, <1>3, <1>4, <1>5, <1>6, <1>7, <1>8, <1>9, <1>10, <1>11, <1>12 DEF PttNext

LEMMA PttInvHolds == PttSpec => [](PttTypeInv /\ HoldInv)
<1>1. PttTypeInv /\ HoldInv /\ [PttNext]_pttVars => (PttTypeInv /\ HoldInv)'
  BY PttTypeStep, HoldStep
<1>q. QED BY PttStarts, <1>1, PTL DEF PttSpec

LEMMA ButtonInSurfaces == SurfacesSpec => PttSpec
<1>1. SurfacesInit => PttInit BY DEF SurfacesInit
<1>2. [SurfacesNext]_surfaceVars => [PttNext]_pttVars
  BY DEF SurfacesNext, surfaceVars, browserVars,
         ChatMoves, ButtonMoves, PanelMoves, PipelineMoves, TagsMove, EarsMove
<1>q. QED BY <1>1, <1>2, PTL DEF SurfacesSpec, PttSpec

\* What is said is not sent while another turn of the chat is in flight: however
\* presses, grants, transcripts and typed turns interleave, and however many of
\* them there are.
THEOREM OneTurnHolds == PttSpec => []OneTurnUnlessSlipped
<1>1. PttTypeInv /\ HoldInv => OneTurnUnlessSlipped
  BY DEF PttTypeInv, HoldInv, OneTurnUnlessSlipped
<1>q. QED BY PttInvHolds, <1>1, PTL

\* The microphone of the chat's button is off when nobody holds it and nothing of
\* it is under way.
LEMMA MicOffHolds == PttSpec => []MicOffUnlessSlipped
<1>1. PttTypeInv /\ HoldInv => MicOffUnlessSlipped
  <2> SUFFICES ASSUME PttTypeInv, HoldInv, ~slipped, ~hand.down, ending.at = "none",
                      page = Shown(page)
               PROVE  mic.live = {}
    BY DEF MicOffUnlessSlipped
  <2>1. mic.current = NoRecording BY DEF HoldInv
  <2>q. QED BY <2>1 DEF HoldInv
<1>q. QED BY PttInvHolds, <1>1, PTL

-----------------------------------------------------------------------------
(* The panel of the spoken companion *)

\* As long as every attempt begins at rest, one attempt at most is on its way, it
\* is alone on its way, and the only open microphone is the one in the refs: so
\* every Disconnect closes it.
PanelInv ==
  ~crossed =>
    /\ live \subseteq {link}
    /\ \A a \in Attempts : attempt[a] \in Waiting =>
         /\ phase = "starting" /\ stop = "none" /\ \A p \in Polls : poll[p] = "none"
         /\ \A b \in Attempts : attempt[b] \in Waiting => b = a
         /\ attempt[a] = "mic" => live = {}
    /\ stop # "none" \/ phase \in {"stopped", "error"} => live = {}

LEMMA PanelStarts == ASSUME SessionInit PROVE SessionTypeOK /\ PanelInv
BY StartsAssumption
   DEF SessionInit, SessionTypeOK, PanelInv, Attempts, Polls, Waiting, NoAttempt

LEMMA DisconnectTyped ==
  ASSUME SessionTypeOK, Disconnect
  PROVE  link' \in Attempts \cup {NoAttempt} /\ live' \subseteq Attempts
BY DEF SessionTypeOK, Disconnect

LEMMA PanelTypeStep ==
  ASSUME SessionTypeOK, [SessionNext]_sessionVars PROVE SessionTypeOK'
<1> USE DEF SessionTypeOK, Waiting
<1>1. CASE Start \/ Stop \/ StopArrives
  BY <1>1, DisconnectTyped DEF Start, Stop, StopArrives
<1>2. CASE StopPipeline \/ CancelPipeline \/ PipelineEnds \/ ConnectionExpires
  BY <1>2 DEF StopPipeline, CancelPipeline, PipelineEnds, ConnectionExpires
<1>3. ASSUME NEW a \in Attempts, MicGranted(a) \/ OfferPosted(a) \/ AttemptFails(a)
      PROVE  SessionTypeOK'
  BY <1>3, DisconnectTyped DEF MicGranted, OfferPosted, AttemptFails
<1>4. ASSUME NEW a \in Attempts, Connected(a) \/ ConnectionDrops(a) \/ StartPipeline(a)
      PROVE  SessionTypeOK'
  BY <1>4, DisconnectTyped DEF Connected, ConnectionDrops, StartPipeline
<1>5. ASSUME NEW p \in Polls, Poll(p) \/ StatusArrives(p) \/ PipelineStatus(p)
      PROVE  SessionTypeOK'
  BY <1>5, DisconnectTyped DEF Poll, StatusArrives, PipelineStatus
<1>6. CASE UNCHANGED sessionVars BY <1>6 DEF sessionVars
<1>q. QED BY <1>1, <1>2, <1>3, <1>4, <1>5, <1>6 DEF SessionNext

LEMMA PanelStep ==
  ASSUME SessionTypeOK, PanelInv, [SessionNext]_sessionVars PROVE PanelInv'
<1> SUFFICES ASSUME ~crossed' PROVE PanelInv' BY DEF PanelInv
<1> USE DEF SessionTypeOK, PanelInv, Waiting
<1>1. CASE Start BY ZenonT(40), <1>1 DEF Start, Disconnect, AtRest
<1>2. CASE Stop BY <1>2 DEF Stop, Disconnect
<1>3. CASE StopArrives BY <1>3 DEF StopArrives
<1>4. CASE StopPipeline \/ CancelPipeline \/ PipelineEnds \/ ConnectionExpires
  BY <1>4 DEF StopPipeline, CancelPipeline, PipelineEnds, ConnectionExpires
<1>5. ASSUME NEW a \in Attempts, MicGranted(a) PROVE PanelInv'
  BY <1>5 DEF MicGranted
<1>6. ASSUME NEW a \in Attempts, OfferPosted(a) PROVE PanelInv'
  BY <1>6 DEF OfferPosted
<1>7. ASSUME NEW a \in Attempts, AttemptFails(a) PROVE PanelInv'
  BY <1>7 DEF AttemptFails, Disconnect
<1>8. ASSUME NEW a \in Attempts, Connected(a) PROVE PanelInv'
  BY <1>8 DEF Connected
<1>9. ASSUME NEW a \in Attempts, ConnectionDrops(a) PROVE PanelInv'
  BY <1>9 DEF ConnectionDrops, Disconnect
<1>10. ASSUME NEW a \in Attempts, StartPipeline(a) PROVE PanelInv'
  BY <1>10 DEF StartPipeline
<1>11. ASSUME NEW p \in Polls, Poll(p) PROVE PanelInv'
  BY <1>11 DEF Poll
<1>12. ASSUME NEW p \in Polls, StatusArrives(p) PROVE PanelInv'
  BY <1>12 DEF StatusArrives, Disconnect
<1>13. ASSUME NEW p \in Polls, PipelineStatus(p) PROVE PanelInv'
  BY <1>13 DEF PipelineStatus
<1>14. CASE UNCHANGED sessionVars BY <1>14 DEF sessionVars
<1>q. QED
  BY <1>1, <1>2, <1>3, <1>4, <1>5, <1>6, <1>7, <1>8, <1>9, <1>10, <1>11, <1>12, <1>13, <1>14
  DEF SessionNext

LEMMA PanelInvHolds == SessionSpec => [](SessionTypeOK /\ PanelInv)
<1>1. SessionTypeOK /\ PanelInv /\ [SessionNext]_sessionVars => (SessionTypeOK /\ PanelInv)'
  BY PanelTypeStep, PanelStep
<1>q. QED BY PanelStarts, <1>1, PTL DEF SessionSpec

LEMMA PanelMicOffHolds == SessionSpec => []MicOffWhenStoppedUnlessCrossed
<1>1. SessionTypeOK /\ PanelInv => MicOffWhenStoppedUnlessCrossed
  BY DEF PanelInv, MicOffWhenStoppedUnlessCrossed
<1>q. QED BY PanelInvHolds, <1>1, PTL

LEMMA PanelInSurfaces == SurfacesSpec => SessionSpec
<1>1. SurfacesInit => SessionInit BY DEF SurfacesInit
<1>2. [SurfacesNext]_surfaceVars => [SessionNext]_sessionVars
  BY DEF SurfacesNext, surfaceVars, browserVars,
         ChatMoves, ButtonMoves, PanelMoves, PipelineMoves, TagsMove, EarsMove
<1>q. QED BY <1>1, <1>2, PTL DEF SurfacesSpec, SessionSpec

\* Whoever opened a microphone, the button of the chat or an attempt of the panel,
\* it is off once nothing of it is used or under way.
THEOREM MicrophoneOffHolds == SurfacesSpec => []MicrophoneOff
<1>1. MicOffUnlessSlipped /\ MicOffWhenStoppedUnlessCrossed => MicrophoneOff BY DEF MicrophoneOff
<1>q. QED BY ButtonInSurfaces, PanelInSurfaces, MicOffHolds, PanelMicOffHolds, <1>1, PTL

-----------------------------------------------------------------------------
(* The services the companion listens with *)

Heard   == [text : Words, on : Sockets]
LastWords == Words \cup {""}
Results == [of : Nat, definite : BOOLEAN]

Remotes == [spoken : Seq(Heard), sent : Nat, results : Seq(Results)]

Services     == [kind : {"recognizer", "dialog"}, connected : BOOLEAN,
                 ws : Sockets \cup {NoSocket}, reader : Sockets \cup {NoSocket}]
SocketStates == {"unused", "open", "dead", "closed"}

EarsTypeInv ==
  /\ EarsTypeOK
  /\ remote \in Remotes
  /\ words \in [last : LastWords, pushed : Seq(Nat)]
  /\ lapsed \in BOOLEAN

\* Until a connect fails or the pipeline stops amid a reconnect, at most one socket
\* is not closed, the one in use, and the steps that should leave nothing do.
SocketInv ==
  ~lapsed =>
    /\ caller["pipeline"] = "rest" \/ caller["reader"] = "rest"
    /\ \A s \in Sockets \ {service.ws} : socket[s] \in {"unused", "closed"}
    /\ \A c \in Callers : caller[c] = "open" => service.ws = NoSocket
    /\ caller["pipeline"] \in {"close", "stopped"} => service.reader = NoSocket
    /\ caller["pipeline"] = "stopped" => service.ws = NoSocket

\* While a socket is new, nothing has been heard on it: nobody is connected.
FreshInv ==
  /\ service.ws # NoSocket => socket[service.ws] # "unused"
  /\ \A i \in DOMAIN remote.spoken : socket[remote.spoken[i].on] # "unused"
  /\ caller["pipeline"] \in {"open", "request"} => ~service.connected /\ caller["reader"] = "rest"
  /\ caller["reader"] # "rest" => ~service.connected
  /\ \A c \in Callers : caller[c] = "request" =>
       \A i \in DOMAIN remote.spoken : remote.spoken[i].on # service.ws

\* The results come in the order of what was heard and behind what was pushed.
ResultsInv ==
  /\ \A i \in DOMAIN remote.results : remote.results[i].of \in 1 .. Len(remote.spoken)
  /\ \A i, j \in DOMAIN remote.results : i < j => remote.results[i].of <= remote.results[j].of
  /\ \A i \in DOMAIN words.pushed :
       /\ words.pushed[i] \in 1 .. Len(remote.spoken)
       /\ \A j \in DOMAIN remote.results : words.pushed[i] <= remote.results[j].of

\* The words of the last transcript are remembered for as long as the socket it
\* came on is read: a repetition of its result is recognized by them.
LastInv ==
  words.pushed # <<>> =>
    LET said == remote.spoken[words.pushed[Len(words.pushed)]]
    IN said.text = words.last \/ said.on # service.reader

EarsInv == SocketInv /\ FreshInv /\ ResultsInv /\ LastInv /\ HeardOnceInOrder

LEMMA NoSocketHolds == NoSocket \notin Sockets BY DEF NoSocket, Sockets

LEMMA NoWordHolds == "" \in LastWords /\ Words \subseteq LastWords BY DEF LastWords

LEMMA EarsStarts == ASSUME EarsInit PROVE EarsTypeInv /\ EarsInv
<1>1. EarsTypeInv
  <2>1. PICK k \in {"recognizer", "dialog"} :
          service = [kind |-> k, connected |-> FALSE, ws |-> NoSocket, reader |-> NoSocket]
    BY DEF EarsInit
  <2>2. <<>> \in Seq(Nat) /\ <<>> \in Seq(Heard) /\ <<>> \in Seq(Results) OBVIOUS
  <2>q. QED BY <2>1, <2>2, NoWordHolds
    DEF EarsInit, EarsTypeInv, EarsTypeOK, Callers, Steps, Remotes
<1>f. /\ service.ws = NoSocket /\ service.reader = NoSocket /\ ~service.connected
      /\ \A s \in Sockets : socket[s] = "unused"
      /\ caller["pipeline"] = "open" /\ caller["reader"] = "rest"
  <2>1. PICK k \in {"recognizer", "dialog"} :
          service = [kind |-> k, connected |-> FALSE, ws |-> NoSocket, reader |-> NoSocket]
    BY DEF EarsInit
  <2>q. QED BY <2>1 DEF EarsInit, Callers
<1>e. remote.spoken = <<>> /\ remote.results = <<>> /\ words.pushed = <<>> BY DEF EarsInit
<1>2. SocketInv BY <1>f DEF SocketInv, Callers
<1>3. FreshInv BY <1>f, <1>e DEF FreshInv, Callers
<1>4. ResultsInv /\ LastInv /\ HeardOnceInOrder
  BY <1>e DEF ResultsInv, LastInv, HeardOnceInOrder
<1>q. QED BY <1>1, <1>2, <1>3, <1>4 DEF EarsInv

\* The services, their sockets and the calls in progress.
LEMMA ServiceTyped ==
  ASSUME EarsTypeInv, [EarsNext]_earsVars
  PROVE  /\ service' \in Services /\ socket' \in [Sockets -> SocketStates]
         /\ caller' \in [Callers -> Steps] /\ lapsed' \in BOOLEAN
<1> DEFINE Typed == /\ service \in Services /\ socket \in [Sockets -> SocketStates]
                    /\ caller \in [Callers -> Steps] /\ lapsed \in BOOLEAN
<1>t. Typed BY DEF EarsTypeInv, EarsTypeOK, Services, SocketStates
<1> USE <1>t DEF Services, SocketStates
<1>f. Failed \in Services BY DEF Failed
<1>1. ASSUME NEW c \in Callers, Opened(c) PROVE Typed' BY <1>1 DEF Opened, Step, Steps
<1>2. ASSUME NEW c \in Callers, ConnectFails(c) PROVE Typed'
  BY <1>f, <1>2 DEF ConnectFails, Steps
<1>3. ASSUME NEW c \in Callers, Ready(c) PROVE Typed' BY <1>3 DEF Ready, Step, Steps
<1>4. ASSUME NEW c \in Callers, Closed(c) PROVE Typed' BY <1>4 DEF Closed, Step, Steps
<1>5. CASE StopAsked BY <1>5 DEF StopAsked, Steps
<1>6. CASE ReaderCancelled
  <2>1. PICK after \in {"rest", caller["reader"]} :
          caller' = [caller EXCEPT !["pipeline"] = "close", !["reader"] = after]
    BY <1>6 DEF ReaderCancelled
  <2>2. after \in Steps BY DEF Steps, Callers
  <2>3. caller' \in [Callers -> Steps] BY <2>1, <2>2 DEF Steps
  <2>q. QED BY <1>6, <2>3 DEF ReaderCancelled
<1>7. CASE CancelsItself BY <1>7 DEF CancelsItself, Steps
<1>8. CASE Reconnect BY <1>8 DEF Reconnect, Step, Steps
<1>9. CASE SendFails BY <1>9 DEF SendFails
<1>10. ASSUME NEW s \in Sockets, SocketDies(s) PROVE Typed' BY <1>10 DEF SocketDies
<1>11. CASE UNCHANGED <<service, socket, caller, lapsed>> BY <1>11
<1>q. QED
  BY <1>1, <1>2, <1>3, <1>4, <1>5, <1>6, <1>7, <1>8, <1>9, <1>10, <1>11
  DEF EarsNext, earsVars, Hears, Sends, HandleMessage

LEMMA EarsTypeStep ==
  ASSUME EarsTypeInv, ResultsInv, [EarsNext]_earsVars PROVE EarsTypeInv'
<1>t. /\ remote \in Remotes /\ remote.spoken \in Seq(Heard) /\ remote.results \in Seq(Results)
      /\ remote.sent \in Nat
      /\ words \in [last : LastWords, pushed : Seq(Nat)] /\ words.pushed \in Seq(Nat)
  BY DEF EarsTypeInv, Remotes
<1>s. service.ws \in Sockets \cup {NoSocket} BY DEF EarsTypeInv, EarsTypeOK
<1>1. ASSUME NEW w \in Words, Hears(w) PROVE remote' \in Remotes /\ words' = words
  <2> DEFINE said == [text |-> w, on |-> service.ws]
  <2>1. said \in Heard BY <1>1, <1>s DEF Hears, Heard
  <2>2. remote' = [remote EXCEPT !.spoken = Append(remote.spoken, said)] /\ words' = words
    BY <1>1 DEF Hears
  <2> HIDE DEF said
  <2>3. Append(remote.spoken, said) \in Seq(Heard) BY <1>t, <2>1
  <2>q. QED BY <1>t, <2>2, <2>3 DEF Remotes
<1>2. ASSUME NEW d \in BOOLEAN, Sends(d) PROVE remote' \in Remotes /\ words' = words
  <2> DEFINE r == [of |-> Len(remote.spoken), definite |-> d]
  <2>1. Len(remote.spoken) \in Nat BY <1>t
  <2>2. r \in Results BY <2>1 DEF Results
  <2>3. /\ remote' = [remote EXCEPT !.sent = remote.sent + 1,
                                    !.results = Append(remote.results, r)]
        /\ words' = words
    BY <1>2 DEF Sends
  <2> HIDE DEF r
  <2>4. Append(remote.results, r) \in Seq(Results) BY <1>t, <2>2
  <2>5. remote.sent + 1 \in Nat BY <1>t
  <2>q. QED BY <1>t, <2>3, <2>4, <2>5 DEF Remotes
<1>3. ASSUME HandleMessage
      PROVE  remote' \in Remotes /\ words' \in [last : LastWords, pushed : Seq(Nat)]
  <2> DEFINE r == Head(remote.results)
             p == Append(words.pushed, r.of)
  <2>1. remote.results # <<>> BY <1>3 DEF HandleMessage, CanRead
  <2>2. r \in Results /\ Tail(remote.results) \in Seq(Results) BY <1>t, <2>1
  <2>3. remote' = [remote EXCEPT !.results = Tail(remote.results)] BY <1>3 DEF HandleMessage
  <2>4. remote' \in Remotes BY <1>t, <2>2, <2>3 DEF Remotes
  <2>5. words' = words \/ words' = [last |-> remote.spoken[r.of].text, pushed |-> p]
    BY <1>3 DEF HandleMessage
  <2>6. r.of \in Nat BY <2>2 DEF Results
  <2>7. 1 \in DOMAIN remote.results /\ r = remote.results[1] BY <1>t, <2>1
  <2>8. r.of \in 1 .. Len(remote.spoken) BY <2>7 DEF ResultsInv
  <2> HIDE DEF r
  <2>9. p \in Seq(Nat) BY <1>t, <2>6
  <2>10. remote.spoken[r.of] \in Heard BY <1>t, <2>8
  <2>11. remote.spoken[r.of].text \in LastWords BY <2>10, NoWordHolds DEF Heard
  <2> HIDE DEF p
  <2>q. QED BY <1>t, <2>4, <2>5, <2>9, <2>11
<1>4. ASSUME NEW c \in Callers, Ready(c)
      PROVE  remote' = remote /\ words' \in [last : LastWords, pushed : Seq(Nat)]
  <2>1. PICK none \in LastWords : words' = [words EXCEPT !.last = none] /\ remote' = remote
    BY <1>4, NoWordHolds DEF Ready
  <2>q. QED BY <1>t, <2>1
<1>5. remote' \in Remotes /\ words' \in [last : LastWords, pushed : Seq(Nat)]
  BY <1>t, <1>1, <1>2, <1>3, <1>4
  DEF EarsNext, earsVars, Opened, ConnectFails, Closed, StopAsked, ReaderCancelled, CancelsItself,
      Reconnect, SendFails, SocketDies
<1>6. words'.pushed \in Seq(Nat) BY <1>5
<1>q. QED BY <1>5, <1>6, ServiceTyped
  DEF EarsTypeInv, EarsTypeOK, Remotes, Services, SocketStates

LEMMA SocketStep == ASSUME EarsTypeInv, SocketInv, [EarsNext]_earsVars PROVE SocketInv'
<1> SUFFICES ASSUME ~lapsed' PROVE SocketInv' BY DEF SocketInv
<1>t. /\ service \in [kind : {"recognizer", "dialog"}, connected : BOOLEAN,
                      ws : Sockets \cup {NoSocket}, reader : Sockets \cup {NoSocket}]
      /\ socket \in [Sockets -> {"unused", "open", "dead", "closed"}]
      /\ caller \in [Callers -> Steps]
  BY DEF EarsTypeInv, EarsTypeOK
<1> USE <1>t DEF SocketInv, Callers, NoSocket
<1>1. ASSUME NEW c \in Callers, Opened(c) PROVE SocketInv'
  <2>1. PICK s \in Sockets : /\ socket[s] = "unused" /\ socket' = [socket EXCEPT ![s] = "open"]
                             /\ service' = [service EXCEPT !.ws = s]
    BY <1>1 DEF Opened
  <2>2. caller[c] = "open" /\ caller' = [caller EXCEPT ![c] = "request"] /\ ~lapsed
    BY <1>1 DEF Opened, Step
  <2>3. service'.ws = s /\ service'.reader = service.reader BY <2>1
  <2>4. \A r \in Sockets \ {s} : socket'[r] \in {"unused", "closed"}
    BY <2>1, <2>2, NoSocketHolds
  <2>5. CASE c = "pipeline" BY <2>2, <2>3, <2>4, <2>5
  <2>6. CASE c = "reader" BY <2>2, <2>3, <2>4, <2>6
  <2>q. QED BY <2>5, <2>6
<1>2. ASSUME NEW c \in Callers, ConnectFails(c) PROVE SocketInv' BY <1>2 DEF ConnectFails
<1>3. ASSUME NEW c \in Callers, Ready(c) PROVE SocketInv' BY <1>3 DEF Ready, Step
<1>4. ASSUME NEW c \in Callers, Closed(c) PROVE SocketInv' BY <1>4 DEF Closed, Step
<1>5. CASE StopAsked BY <1>5 DEF StopAsked
<1>6. CASE ReaderCancelled BY <1>6 DEF ReaderCancelled
<1>7. CASE CancelsItself BY <1>7 DEF CancelsItself
<1>8. CASE Reconnect BY <1>8 DEF Reconnect, Reads, Step
<1>9. CASE SendFails BY <1>9 DEF SendFails
<1>10. ASSUME NEW s \in Sockets, SocketDies(s) PROVE SocketInv' BY <1>10 DEF SocketDies
<1>11. CASE UNCHANGED <<service, socket, caller, lapsed>> BY <1>11
<1>q. QED
  BY <1>1, <1>2, <1>3, <1>4, <1>5, <1>6, <1>7, <1>8, <1>9, <1>10, <1>11
  DEF EarsNext, earsVars, Hears, Sends, HandleMessage

LEMMA FreshStep == ASSUME EarsTypeInv, FreshInv, [EarsNext]_earsVars PROVE FreshInv'
<1>t. /\ service \in [kind : {"recognizer", "dialog"}, connected : BOOLEAN,
                      ws : Sockets \cup {NoSocket}, reader : Sockets \cup {NoSocket}]
      /\ socket \in [Sockets -> {"unused", "open", "dead", "closed"}]
      /\ caller \in [Callers -> Steps]
      /\ remote \in Remotes
  BY DEF EarsTypeInv, EarsTypeOK
<1>o. \A i \in DOMAIN remote.spoken : remote.spoken[i].on \in Sockets
  <2>1. remote.spoken \in Seq(Heard) BY <1>t DEF Remotes
  <2>2. \A i \in DOMAIN remote.spoken : remote.spoken[i] \in Heard BY <2>1
  <2>q. QED BY <2>2 DEF Heard
<1> USE <1>t, <1>o, NoSocketHolds DEF FreshInv, Callers
<1>1. ASSUME NEW c \in Callers, Opened(c) PROVE FreshInv' BY <1>1 DEF Opened, Step
<1>2. ASSUME NEW c \in Callers, ConnectFails(c) PROVE FreshInv'
  BY <1>2 DEF ConnectFails, Failed
<1>3. ASSUME NEW c \in Callers, Ready(c) PROVE FreshInv' BY <1>3 DEF Ready, Step
<1>4. ASSUME NEW c \in Callers, Closed(c) PROVE FreshInv' BY <1>4 DEF Closed, Step
<1>5. CASE StopAsked BY <1>5 DEF StopAsked
<1>6. CASE ReaderCancelled BY <1>6 DEF ReaderCancelled
<1>7. CASE CancelsItself BY <1>7 DEF CancelsItself
<1>8. CASE Reconnect BY <1>8 DEF Reconnect, Reads, Step
<1>9. CASE SendFails BY <1>9 DEF SendFails
<1>10. ASSUME NEW s \in Sockets, SocketDies(s) PROVE FreshInv' BY <1>10 DEF SocketDies
<1>11. ASSUME NEW w \in Words, Hears(w) PROVE FreshInv'
  <2>1. /\ UNCHANGED <<service, socket, caller>> /\ service.connected /\ service.ws # NoSocket
        /\ remote'.spoken = Append(remote.spoken, [text |-> w, on |-> service.ws])
    BY <1>11 DEF Hears
  <2>2. \A i \in DOMAIN remote'.spoken :
          \/ i \in DOMAIN remote.spoken /\ remote'.spoken[i] = remote.spoken[i]
          \/ remote'.spoken[i].on = service.ws
    BY <2>1
  <2>q. QED BY <2>1, <2>2
<1>12. CASE UNCHANGED <<service, socket, caller>> /\ remote'.spoken = remote.spoken BY <1>12
<1>13. CASE \E d \in BOOLEAN : Sends(d) BY <1>12, <1>13 DEF Sends
<1>14. CASE HandleMessage BY <1>12, <1>14 DEF HandleMessage
<1>q. QED
  BY <1>1, <1>2, <1>3, <1>4, <1>5, <1>6, <1>7, <1>8, <1>9, <1>10, <1>11, <1>12, <1>13, <1>14
  DEF EarsNext, earsVars

LEMMA EarsData ==
  ASSUME EarsTypeInv
  PROVE  /\ remote.spoken \in Seq(Heard) /\ remote.results \in Seq(Results)
         /\ words \in [last : LastWords, pushed : Seq(Nat)] /\ words.pushed \in Seq(Nat)
         /\ \A i \in DOMAIN remote.spoken : remote.spoken[i].on \in Sockets
<1>1. remote.spoken \in Seq(Heard) BY DEF EarsTypeInv, Remotes
<1>2. \A i \in DOMAIN remote.spoken : remote.spoken[i] \in Heard BY <1>1
<1>q. QED BY <1>1, <1>2 DEF EarsTypeInv, Remotes, Heard

\* A step of a call only forgets the words of the last transcript or the reader.
LEMMA OtherSteps ==
  ASSUME EarsTypeInv, [EarsNext]_earsVars,
         \A w \in Words : ~Hears(w), \A d \in BOOLEAN : ~Sends(d), ~HandleMessage
  PROVE  /\ remote' = remote /\ words'.pushed = words.pushed
         /\ \/ words' = words /\ service'.reader \in {service.reader, NoSocket}
            \/ \E c \in Callers : caller[c] = "request" /\ service'.reader = service.ws
<1>s. service \in Services BY DEF EarsTypeInv, EarsTypeOK, Services
<1>1. ASSUME NEW c \in Callers, Ready(c)
      PROVE  /\ remote' = remote /\ words'.pushed = words.pushed
             /\ caller[c] = "request" /\ service'.reader = service.ws
  <2>1. PICK none : words' = [words EXCEPT !.last = none] BY <1>1 DEF Ready
  <2>2. words'.pushed = words.pushed BY <2>1, EarsData
  <2>3. service' = [service EXCEPT !.connected = TRUE, !.reader = service.ws]
        /\ remote' = remote /\ caller[c] = "request"
    BY <1>1 DEF Ready, Step
  <2>q. QED BY <1>s, <2>2, <2>3 DEF Services
<1>2. ASSUME \A c \in Callers : ~Ready(c)
      PROVE  UNCHANGED <<remote, words>> /\ service'.reader \in {service.reader, NoSocket}
  <2>1. UNCHANGED <<remote, words>>
    BY <1>2 DEF EarsNext, earsVars, Opened, ConnectFails, Closed, StopAsked, ReaderCancelled,
       CancelsItself, Reconnect, SendFails, SocketDies
  <2>2. service'.reader \in {service.reader, NoSocket}
    <3>1. ASSUME NEW c \in Callers, Opened(c) \/ ConnectFails(c) \/ Closed(c)
          PROVE  service'.reader \in {service.reader, NoSocket}
      BY <1>s, <3>1 DEF Opened, ConnectFails, Closed, Failed, Services
    <3>2. CASE StopAsked \/ ReaderCancelled \/ CancelsItself
      BY <1>s, <3>2 DEF StopAsked, ReaderCancelled, CancelsItself, Services
    <3>3. CASE Reconnect \/ SendFails BY <1>s, <3>3 DEF Reconnect, SendFails, Services
    <3>4. CASE UNCHANGED service BY <3>4
    <3>q. QED BY <1>2, <3>1, <3>2, <3>3, <3>4 DEF EarsNext, earsVars, SocketDies
  <2>q. QED BY <2>1, <2>2
<1>q. QED BY <1>1, <1>2

\* What is said grows at its end; nothing that was heard changes.
LEMMA HearsStep ==
  ASSUME EarsTypeInv, NEW w \in Words, Hears(w)
  PROVE  /\ UNCHANGED <<service, caller, words>> /\ remote'.results = remote.results
         /\ service.connected
         /\ DOMAIN remote'.spoken = 1 .. Len(remote.spoken) + 1
         /\ Len(remote'.spoken) = Len(remote.spoken) + 1
         /\ \A i \in DOMAIN remote.spoken : remote'.spoken[i] = remote.spoken[i]
<1>1. /\ UNCHANGED <<service, caller, words>> /\ service.connected
      /\ remote' = [remote EXCEPT !.spoken = Append(remote.spoken, [text |-> w, on |-> service.ws])]
  BY DEF Hears
<1>2. remote'.spoken = Append(remote.spoken, [text |-> w, on |-> service.ws])
      /\ remote'.results = remote.results
  BY <1>1 DEF EarsTypeInv, Remotes
<1>q. QED BY <1>1, <1>2, EarsData

LEMMA SendsStep ==
  ASSUME EarsTypeInv, NEW d \in BOOLEAN, Sends(d)
  PROVE  /\ UNCHANGED <<service, caller, words>> /\ remote'.spoken = remote.spoken
         /\ Len(remote.spoken) \in Nat \ {0}
         /\ DOMAIN remote'.results = 1 .. Len(remote.results) + 1
         /\ \A i \in DOMAIN remote.results : remote'.results[i] = remote.results[i]
         /\ remote'.results[Len(remote.results) + 1].of = Len(remote.spoken)
<1> DEFINE r == [of |-> Len(remote.spoken), definite |-> d]
<1>1. /\ UNCHANGED <<service, caller, words>> /\ remote.spoken # <<>>
      /\ remote' = [remote EXCEPT !.sent = remote.sent + 1, !.results = Append(remote.results, r)]
  BY DEF Sends
<1>2. r.of = Len(remote.spoken) OBVIOUS
<1> HIDE DEF r
<1>3. remote'.spoken = remote.spoken /\ remote'.results = Append(remote.results, r)
  BY <1>1 DEF EarsTypeInv, Remotes
<1>4. Len(remote.spoken) \in Nat \ {0} BY <1>1, EarsData
<1>q. QED BY <1>1, <1>2, <1>3, <1>4, EarsData

\* The first result is taken, and pushed if it is new.
LEMMA HandleStep ==
  ASSUME EarsTypeInv, ResultsInv, HandleMessage
  PROVE  /\ UNCHANGED <<service, caller>> /\ remote'.spoken = remote.spoken
         /\ remote.results # <<>> /\ remote'.results = Tail(remote.results)
         /\ LET r == remote.results[1]  said == remote.spoken[r.of]
            IN /\ r.of \in 1 .. Len(remote.spoken)
               /\ \/ words' = words
                  \/ /\ said.on = service.reader /\ said.text # words.last
                     /\ words'.last = said.text
                     /\ words'.pushed = Append(words.pushed, r.of)
<1> DEFINE r == remote.results[1]
           said == remote.spoken[r.of]
<1>1. /\ UNCHANGED <<service, caller>> /\ remote.results # <<>>
      /\ remote' = [remote EXCEPT !.results = Tail(remote.results)]
  BY DEF HandleMessage, CanRead
<1>2. remote'.spoken = remote.spoken /\ remote'.results = Tail(remote.results)
  BY <1>1 DEF EarsTypeInv, Remotes
<1>3. Head(remote.results) = r /\ 1 \in DOMAIN remote.results BY <1>1, EarsData
<1>4. r.of \in 1 .. Len(remote.spoken) BY <1>3 DEF ResultsInv
<1>5. \/ words' = words
      \/ /\ said.on = service.reader /\ said.text # words.last
         /\ words' = [last |-> said.text, pushed |-> Append(words.pushed, r.of)]
  BY <1>3 DEF HandleMessage
<1>q. QED BY <1>1, <1>2, <1>4, <1>5

\* A result is sent only of what was heard last, and the oldest is handled first.
LEMMA ResultsStep ==
  ASSUME EarsTypeInv, ResultsInv, LastInv, HeardOnceInOrder, [EarsNext]_earsVars
  PROVE  ResultsInv' /\ HeardOnceInOrder'
<1>d. /\ DOMAIN remote.spoken = 1 .. Len(remote.spoken) /\ Len(remote.spoken) \in Nat
      /\ DOMAIN remote.results = 1 .. Len(remote.results) /\ Len(remote.results) \in Nat
      /\ DOMAIN words.pushed = 1 .. Len(words.pushed) /\ Len(words.pushed) \in Nat
      /\ \A i \in DOMAIN words.pushed : words.pushed[i] \in Nat
  BY EarsData
<1>1. ASSUME NEW w \in Words, Hears(w) PROVE ResultsInv' /\ HeardOnceInOrder'
  <2>1. /\ words' = words /\ remote'.results = remote.results
        /\ Len(remote'.spoken) = Len(remote.spoken) + 1
    BY <1>1, HearsStep
  <2>2. \A k \in 1 .. Len(remote.spoken) : k \in 1 .. Len(remote'.spoken) BY <1>d, <2>1
  <2>3. ResultsInv' BY <2>1, <2>2 DEF ResultsInv
  <2>4. HeardOnceInOrder' BY <2>1 DEF HeardOnceInOrder
  <2>q. QED BY <2>3, <2>4
<1>2. ASSUME NEW d \in BOOLEAN, Sends(d) PROVE ResultsInv' /\ HeardOnceInOrder'
  <2> DEFINE n == Len(remote.results)
  <2>1. /\ remote'.spoken = remote.spoken /\ words' = words
        /\ Len(remote.spoken) \in Nat \ {0} /\ DOMAIN remote'.results = 1 .. n + 1
        /\ \A i \in 1 .. n : remote'.results[i] = remote.results[i]
        /\ remote'.results[n + 1].of = Len(remote.spoken)
    BY <1>2, <1>d, SendsStep
  <2>2. \A i \in 1 .. n + 1 : i \in 1 .. n \/ i = n + 1 BY <1>d
  <2>3. \A i \in 1 .. n : remote.results[i].of \in 1 .. Len(remote.spoken)
    BY <1>d DEF ResultsInv
  <2>4. \A i \in 1 .. n + 1 : remote'.results[i].of \in 1 .. Len(remote.spoken)
    <3>1. Len(remote.spoken) \in 1 .. Len(remote.spoken) BY <2>1
    <3>q. QED BY <2>1, <2>2, <2>3, <3>1
  <2>5. ASSUME NEW i \in 1 .. n + 1, NEW j \in 1 .. n + 1, i < j
        PROVE  remote'.results[i].of <= remote'.results[j].of
    <3>1. i \in 1 .. n BY <1>d, <2>5
    <3>2. CASE j = n + 1 BY <2>1, <2>4, <3>2
    <3>3. CASE j \in 1 .. n BY <1>d, <2>1, <2>5, <3>1, <3>3 DEF ResultsInv
    <3>q. QED BY <2>2, <3>2, <3>3
  <2>6. ASSUME NEW i \in DOMAIN words.pushed, NEW j \in 1 .. n + 1
        PROVE  words.pushed[i] <= remote'.results[j].of
    <3>1. words.pushed[i] \in 1 .. Len(remote.spoken) BY DEF ResultsInv
    <3>2. CASE j = n + 1 BY <2>1, <3>1, <3>2
    <3>3. CASE j \in 1 .. n BY <1>d, <2>1, <3>3 DEF ResultsInv
    <3>q. QED BY <2>2, <3>2, <3>3
  <2>7. \A i \in DOMAIN words.pushed : words.pushed[i] \in 1 .. Len(remote.spoken)
    BY DEF ResultsInv
  <2> HIDE DEF n
  <2>8. ResultsInv' BY <2>1, <2>4, <2>5, <2>6, <2>7 DEF ResultsInv
  <2>9. HeardOnceInOrder' BY <2>1 DEF HeardOnceInOrder
  <2>q. QED BY <2>8, <2>9
<1>3. ASSUME HandleMessage PROVE ResultsInv' /\ HeardOnceInOrder'
  <2> DEFINE n == Len(remote.results)
             m == Len(words.pushed)
             new == remote.results[1].of
  <2>1. /\ remote'.spoken = remote.spoken /\ remote.results # <<>>
        /\ remote'.results = Tail(remote.results) /\ new \in 1 .. Len(remote.spoken)
    BY <1>3, HandleStep
  <2>2. /\ DOMAIN remote'.results = 1 .. n - 1 /\ n \in Nat \ {0}
        /\ \A i \in 1 .. n - 1 : remote'.results[i] = remote.results[i + 1]
    BY <2>1, EarsData
  <2>3. \A i \in 1 .. n - 1 : i + 1 \in 1 .. n BY <2>2
  <2>4. /\ \A i \in 1 .. n - 1 : remote'.results[i].of \in 1 .. Len(remote.spoken)
        /\ \A i, j \in 1 .. n - 1 : i < j => remote'.results[i].of <= remote'.results[j].of
        /\ \A i \in 1 .. m, j \in 1 .. n - 1 : words.pushed[i] <= remote'.results[j].of
        /\ \A j \in 1 .. n - 1 : new <= remote'.results[j].of
        /\ \A i \in 1 .. m : words.pushed[i] \in 1 .. Len(remote.spoken) /\ words.pushed[i] <= new
    <3>1. \A i \in 1 .. n - 1 : i + 1 \in 1 .. n /\ 1 < i + 1 BY <2>2
    <3>2. \A i, j \in 1 .. n - 1 : i < j => i + 1 < j + 1 BY <2>2
    <3>3. 1 \in 1 .. n BY <2>2
    <3>q. QED BY <1>d, <2>2, <3>1, <3>2, <3>3 DEF ResultsInv
  <2>5. CASE words' = words
    BY <1>d, <2>1, <2>2, <2>4, <2>5 DEF ResultsInv, HeardOnceInOrder
  <2>6. CASE words' # words
    <3>1. /\ remote.spoken[new].on = service.reader /\ remote.spoken[new].text # words.last
          /\ words'.pushed = Append(words.pushed, new)
      BY <1>3, <2>6, HandleStep
    <3>2. \A i \in 1 .. m : words.pushed[i] < new
      <4>1. CASE m = 0 BY <4>1
      <4>2. CASE m # 0
        <5>1. m \in 1 .. m /\ words.pushed # <<>> BY <1>d, <4>2
        <5>2. words.pushed[m] # new BY <3>1, <5>1 DEF LastInv
        <5>3. words.pushed[m] \in Nat /\ new \in Nat /\ words.pushed[m] <= new
          BY <1>d, <2>1, <2>4, <5>1
        <5>4. words.pushed[m] < new BY <5>2, <5>3
        <5>5. \A i \in 1 .. m : i < m => words.pushed[i] < words.pushed[m]
          BY <1>d, <5>1 DEF HeardOnceInOrder
        <5>q. QED BY SMTT(30), <1>d, <5>3, <5>4, <5>5
      <4>q. QED BY <4>1, <4>2
    <3>3. /\ DOMAIN words'.pushed = 1 .. m + 1 /\ words'.pushed[m + 1] = new
          /\ \A i \in 1 .. m : words'.pushed[i] = words.pushed[i]
      BY <1>d, <3>1, EarsData
    <3>4. \A i \in 1 .. m + 1 : i \in 1 .. m \/ i = m + 1 BY <1>d
    <3>5. \A i, j \in 1 .. m + 1 : i < j => i \in 1 .. m BY <1>d
    <3> HIDE DEF n, m, new
    <3>6. ResultsInv' BY <2>1, <2>2, <2>4, <3>3, <3>4 DEF ResultsInv
    <3>7. \A i, j \in 1 .. m : i < j => words.pushed[i] < words.pushed[j]
      BY <1>d DEF HeardOnceInOrder, m
    <3>8. HeardOnceInOrder' BY <3>2, <3>3, <3>4, <3>5, <3>7 DEF HeardOnceInOrder
    <3>q. QED BY <3>6, <3>8
  <2>q. QED BY <2>5, <2>6
<1>4. CASE /\ \A w \in Words : ~Hears(w)
           /\ \A d \in BOOLEAN : ~Sends(d)
           /\ ~HandleMessage
  <2>1. remote' = remote /\ words'.pushed = words.pushed BY <1>4, OtherSteps
  <2>q. QED BY <2>1 DEF ResultsInv, HeardOnceInOrder
<1>q. QED BY <1>1, <1>2, <1>3, <1>4

LEMMA LastStep ==
  ASSUME EarsTypeInv, FreshInv, ResultsInv, LastInv, [EarsNext]_earsVars PROVE LastInv'
<1> DEFINE m == Len(words.pushed)
           p == words.pushed[m]
           said == remote.spoken[p]
<1>d. /\ DOMAIN remote.spoken = 1 .. Len(remote.spoken)
      /\ Len(words.pushed) \in Nat /\ DOMAIN words.pushed = 1 .. m
  BY EarsData
<1>p. ASSUME words.pushed # <<>>
      PROVE  /\ m \in 1 .. m /\ p \in DOMAIN remote.spoken /\ said.on \in Sockets
             /\ said.text = words.last \/ said.on # service.reader
  <2>1. m \in 1 .. m BY <1>p, <1>d, EarsData
  <2>2. p \in DOMAIN remote.spoken BY <1>d, <2>1 DEF ResultsInv
  <2>q. QED BY <1>p, <2>1, <2>2, EarsData DEF LastInv
<1>1. ASSUME NEW w \in Words, Hears(w) PROVE LastInv'
  <2>1. /\ UNCHANGED <<service, words>>
        /\ \A i \in DOMAIN remote.spoken : remote'.spoken[i] = remote.spoken[i]
    BY <1>1, HearsStep
  <2>2. ASSUME words.pushed # <<>> PROVE remote'.spoken[p] = said BY <1>p, <2>1, <2>2
  <2>q. QED BY <1>p, <2>1, <2>2 DEF LastInv
<1>2. ASSUME NEW d \in BOOLEAN, Sends(d) PROVE LastInv'
  <2>1. UNCHANGED <<service, words>> /\ remote'.spoken = remote.spoken BY <1>2, SendsStep
  <2>q. QED BY <2>1 DEF LastInv
<1>3. ASSUME HandleMessage PROVE LastInv'
  <2> DEFINE new == remote.results[1].of
  <2>1. service' = service /\ remote'.spoken = remote.spoken BY <1>3, HandleStep
  <2>2. CASE words' = words BY <2>1, <2>2 DEF LastInv
  <2>3. CASE words' # words
    <3>1. /\ words'.last = remote.spoken[new].text /\ words'.pushed = Append(words.pushed, new)
      BY <1>3, <2>3, HandleStep
    <3>2. words'.pushed[Len(words'.pushed)] = new BY <3>1, EarsData
    <3>q. QED BY <2>1, <3>1, <3>2 DEF LastInv
  <2>q. QED BY <2>2, <2>3
<1>4. CASE /\ \A w \in Words : ~Hears(w)
           /\ \A d \in BOOLEAN : ~Sends(d)
           /\ ~HandleMessage
  <2>1. remote' = remote /\ words'.pushed = words.pushed BY <1>4, OtherSteps
  <2>2. CASE words' = words /\ service'.reader \in {service.reader, NoSocket}
    <3>1. ASSUME words.pushed # <<>> PROVE said.text = words.last \/ said.on # service'.reader
      BY <1>p, <2>2, <3>1, NoSocketHolds
    <3>q. QED BY <2>1, <2>2, <3>1 DEF LastInv
  <2>3. CASE \E c \in Callers : caller[c] = "request" /\ service'.reader = service.ws
    <3>1. ASSUME words.pushed # <<>> PROVE said.on # service'.reader
      BY <1>p, <2>3, <3>1 DEF FreshInv
    <3>q. QED BY <2>1, <3>1 DEF LastInv
  <2>q. QED BY <1>4, <2>2, <2>3, OtherSteps
<1>q. QED BY <1>1, <1>2, <1>3, <1>4

LEMMA EarsInvHolds == EarsSpec => [](EarsTypeInv /\ EarsInv)
<1>1. EarsTypeInv /\ EarsInv /\ [EarsNext]_earsVars => (EarsTypeInv /\ EarsInv)'
  BY EarsTypeStep, SocketStep, FreshStep, ResultsStep, LastStep DEF EarsInv
<1>q. QED BY EarsStarts, <1>1, PTL DEF EarsSpec

LEMMA EarsInSurfaces == SurfacesSpec => EarsSpec
<1>1. SurfacesInit => EarsInit BY DEF SurfacesInit
<1>2. [SurfacesNext]_surfaceVars => [EarsNext]_earsVars
  BY DEF SurfacesNext, surfaceVars, voiceVars,
         ChatMoves, ButtonMoves, PanelMoves, PipelineMoves, TagsMove, EarsMove
<1>q. QED BY <1>1, <1>2, PTL DEF SurfacesSpec, EarsSpec

\* A stopped pipeline leaves no reader and no open socket, whatever calls, deaths
\* of sockets and reconnects came before.
THEOREM NothingListensHolds == EarsSpec => []NothingListensUnlessSlipped
<1>1. EarsTypeInv /\ EarsInv => NothingListensUnlessSlipped
  BY NoSocketHolds DEF EarsInv, SocketInv, NothingListensUnlessSlipped
<1>q. QED BY EarsInvHolds, <1>1, PTL

\* No utterance becomes two transcripts and none overtakes another, for any number
\* of utterances, repeated results and sockets.
THEOREM HeardOnceHolds == EarsSpec => []HeardOnceInOrder
<1>1. EarsInv => HeardOnceInOrder BY DEF EarsInv
<1>q. QED BY EarsInvHolds, <1>1, PTL

-----------------------------------------------------------------------------
(* The chat *)

Bubbles      == [id : Nat, of : {"history", "user", "reply", "error"} \cup Ticks]
TurnStates   == [pc : {"none", "stream", "complete", "speaking"}, current : BOOLEAN,
                 bubble : Nat, talking : BOOLEAN, server : {"none", "running", "stored"},
                 stored : Nat, cut : BOOLEAN]
Faces        == [avatar : {"rest", "thinking", "talking", "annoyed", "cue"}, timers : Nat,
                 overtaken : BOOLEAN]
TtsStates    == [on : BOOLEAN, muted : BOOLEAN, speaking : BOOLEAN, active : BOOLEAN,
                 current : BOOLEAN]
SpeechStates == [pc : {"none", "evaluate", "stream", "synthesize", "clip", "aborted", "detached"},
                 fresh : BOOLEAN]
TickStates   == [pc : {"none", "asked", "speaking", "done"},
                 row : Nat, line : {"none", "proactive", "mutter"}]

Playing(s) == speech[s].fresh /\ speech[s].pc \in {"stream", "synthesize", "clip"}

\* One call of speakReply at most is of the session that is on, and nothing else
\* can be heard.
OneFresh ==
  /\ \A s, r \in Speakers : speech[s].fresh /\ speech[r].fresh => s = r
  /\ \A s \in Speakers : Audible(s) => speech[s].fresh

UnderWay(s) == speech[s].pc \notin {"none", "detached"}

\* A face that comes to rest of itself, or has been overtaken.
AtEase(f) == f.avatar = "rest" \/ f.timers > 0 \/ f.overtaken
Settled   == AtEase(face)

\* While a call plays the client says that it speaks, and the call will hand the
\* avatar back if somebody has to.
PlaysWhatItSays == \A s \in Speakers : Playing(s) => tts.speaking /\ (tts.current \/ Settled)

\* What a turn has to itself: none of the lines is fresh until one comes in, its call
\* is under way only while it speaks, and if it cannot hand the avatar back any more
\* a line's call will, if somebody has to.
TurnAlone ==
  /\ turn.pc # "none" /\ turn.current => \A k \in Ticks : ~speech[k].fresh
  /\ UnderWay(Turn) => turn.pc = "speaking"
  /\ turn.pc = "speaking" /\ ~turn.current => Settled \/ \E k \in Ticks : UnderWay(k)

SpeechInv == OneFresh /\ PlaysWhatItSays /\ TurnAlone

\* The ids of the bubbles are below the counter that gives out the next.
BubblesInv ==
  ~late => \A b \in shown : b.id < nextId

\* What has been stored of a turn whose stream was not cut off.
StoredInv ==
  /\ ~turn.cut => turn.stored <= 1 /\ (turn.server # "stored" => turn.stored = 0)
  /\ turn.pc = "stream" => ~turn.cut

ClientInv == /\ SpeechInv /\ AvatarComesBackUnlessOvertaken
             /\ BubblesInv /\ BubblesDistinctUnlessLate /\ StoredInv

LEMMA ClientTypes ==
  TypeOK <=> /\ nextId \in Nat \ {0} /\ rows \in Nat /\ late \in BOOLEAN /\ shown \subseteq Bubbles
             /\ paused \in BOOLEAN /\ turn \in TurnStates
             /\ boot \in {"health", "reading", "ready", "offline"}
             /\ face \in Faces /\ tts \in TtsStates /\ speech \in [Speakers -> SpeechStates]
             /\ ticks \in [Ticks -> TickStates]
             /\ clicks \in [turns : 0 .. MaxTurns, mutes : 0 .. MaxMutes, clears : 0 .. MaxClears]
BY DEF TypeOK, Bubbles, TurnStates, Faces, TtsStates, SpeechStates, TickStates

LEMMA ClientTypesNext ==
  TypeOK' <=> /\ nextId' \in Nat \ {0} /\ rows' \in Nat /\ late' \in BOOLEAN
              /\ paused' \in BOOLEAN /\ shown' \subseteq Bubbles /\ turn' \in TurnStates
              /\ boot' \in {"health", "reading", "ready", "offline"}
              /\ face' \in Faces /\ tts' \in TtsStates /\ speech' \in [Speakers -> SpeechStates]
              /\ ticks' \in [Ticks -> TickStates]
              /\ clicks' \in [turns : 0 .. MaxTurns, mutes : 0 .. MaxMutes, clears : 0 .. MaxClears]
BY DEF TypeOK, Bubbles, TurnStates, Faces, TtsStates, SpeechStates, TickStates

LEMMA NoTurnTyped == NoTurn \in TurnStates /\ NoSpeech \in SpeechStates /\ NoTick \in TickStates
<1>1. NoTurn \in TurnStates BY DEF NoTurn, TurnStates
<1>2. NoSpeech \in SpeechStates BY DEF NoSpeech, SpeechStates
<1>3. NoTick \in TickStates BY DEF NoTick, TickStates
<1>q. QED BY <1>1, <1>2, <1>3

LEMMA TickValues ==
  ASSUME NEW pc \in {"none", "asked", "speaking", "done"}, NEW row \in Nat,
         NEW line \in {"none", "proactive", "mutter"}
  PROVE  /\ [NoTick EXCEPT !.pc = pc] \in TickStates
         /\ [pc |-> pc, row |-> row, line |-> line] \in TickStates
<1>1. [NoTick EXCEPT !.pc = pc] \in TickStates BY NoTurnTyped DEF TickStates
<1>2. [pc |-> pc, row |-> row, line |-> line] \in TickStates BY DEF TickStates
<1>q. QED BY <1>1, <1>2

LEMMA FaceValues ==
  ASSUME face \in Faces, NEW state \in {"rest", "thinking", "talking", "annoyed", "cue"}
  PROVE  /\ SetManualState(state) \in Faces /\ ScheduleReturn(state) \in Faces
         /\ AddReturn(state) \in Faces /\ FaceAfterSpeech \in Faces
         /\ [face EXCEPT !.avatar = "rest"] \in Faces
         /\ \A b \in BOOLEAN : [SetManualState(state) EXCEPT !.overtaken = b] \in Faces
         /\ face.timers > 0 => TimerReturns \in Faces
<1>t. face.timers \in Nat BY DEF Faces
<1>p. \A n \in Nat : Pose(state, n) \in Faces BY DEF Pose, Faces
<1>1. SetManualState(state) \in Faces BY <1>p DEF SetManualState
<1>2. ScheduleReturn(state) \in Faces BY <1>p DEF ScheduleReturn
<1>3. AddReturn(state) \in Faces BY <1>t, <1>p DEF AddReturn
<1>4. FaceAfterSpeech \in Faces BY DEF FaceAfterSpeech, SetManualState, Pose, Faces
<1>5. [face EXCEPT !.avatar = "rest"] \in Faces BY DEF Faces
<1>6. \A b \in BOOLEAN : [SetManualState(state) EXCEPT !.overtaken = b] \in Faces
  BY <1>1 DEF Faces
<1>7. ASSUME face.timers > 0 PROVE TimerReturns \in Faces
  <2>1. face.timers - 1 \in Nat BY <1>t, <1>7
  <2>q. QED BY <2>1 DEF TimerReturns, Pose, Faces
<1>q. QED BY <1>1, <1>2, <1>3, <1>4, <1>5, <1>6, <1>7

LEMMA OvertakenTyped == ASSUME TypeOK PROVE Overtaken \in Faces
<1>1. face \in Faces /\ tts \in TtsStates BY ClientTypes
<1>2. (face.overtaken \/ tts.speaking \/ turn.pc = "speaking") \in BOOLEAN
  BY <1>1 DEF Faces, TtsStates
<1>q. QED BY <1>1, <1>2 DEF Overtaken, Faces

LEMMA TtsValues ==
  ASSUME NEW t \in TtsStates, NEW b \in BOOLEAN
  PROVE  /\ StopSpeaking(t) \in TtsStates /\ OnSpeakingEnd(t) \in TtsStates
         /\ [t EXCEPT !.active = FALSE] \in TtsStates /\ [t EXCEPT !.current = FALSE] \in TtsStates
         /\ [t EXCEPT !.muted = b] \in TtsStates
         /\ [t EXCEPT !.speaking = TRUE, !.active = TRUE, !.current = TRUE] \in TtsStates
<1> USE DEF TtsStates
<1>1. StopSpeaking(t) \in TtsStates BY DEF StopSpeaking
<1>2. OnSpeakingEnd(t) \in TtsStates BY DEF OnSpeakingEnd
<1>4. [t EXCEPT !.active = FALSE] \in TtsStates /\ [t EXCEPT !.current = FALSE] \in TtsStates OBVIOUS
<1>5. [t EXCEPT !.muted = b] \in TtsStates OBVIOUS
<1>6. [t EXCEPT !.speaking = TRUE, !.active = TRUE, !.current = TRUE] \in TtsStates OBVIOUS
<1> HIDE DEF TtsStates
<1>q. QED BY <1>1, <1>2, <1>4, <1>5, <1>6

\* What a new session makes of the calls: none is fresh, a stream resumes its call
\* and a clip never does.
LEMMA NewSessionValues ==
  ASSUME speech \in [Speakers -> SpeechStates]
  PROVE  /\ NewSession \in [Speakers -> SpeechStates]
         /\ \A s \in Speakers :
              /\ ~NewSession[s].fresh
              /\ NewSession[s].pc = IF speech[s].pc = "stream" THEN "aborted"
                                    ELSE IF speech[s].pc = "clip" THEN "detached" ELSE speech[s].pc
<1>1. ASSUME NEW s \in Speakers
      PROVE  /\ NewSession[s] \in SpeechStates /\ ~NewSession[s].fresh
             /\ NewSession[s].pc = IF speech[s].pc = "stream" THEN "aborted"
                                   ELSE IF speech[s].pc = "clip" THEN "detached" ELSE speech[s].pc
  <2>1. speech[s].pc \in {"none", "evaluate", "stream", "synthesize", "clip", "aborted", "detached"}
    BY DEF SpeechStates
  <2>2. CASE speech[s].pc = "stream" BY <2>2 DEF NewSession, SpeechStates
  <2>3. CASE speech[s].pc = "clip" BY <2>3 DEF NewSession, SpeechStates
  <2>4. CASE speech[s].pc \notin {"stream", "clip"} BY <2>1, <2>4 DEF NewSession, SpeechStates
  <2>q. QED BY <2>2, <2>3, <2>4
<1>2. NewSession = [s \in Speakers |-> NewSession[s]] BY DEF NewSession
<1>q. QED BY <1>1, <1>2

LEMMA SpeakReplyValues ==
  ASSUME speech \in [Speakers -> SpeechStates], NEW s \in Speakers
  PROVE  /\ SpeakReply(s) \in [Speakers -> SpeechStates]
         /\ SpeakReply(s)[s] = [pc |-> "evaluate", fresh |-> TRUE]
         /\ \A r \in Speakers \ {s} : SpeakReply(s)[r] = NewSession[r]
<1>1. [pc |-> "evaluate", fresh |-> TRUE] \in SpeechStates BY DEF SpeechStates
<1>q. QED BY <1>1, NewSessionValues DEF SpeakReply

-----------------------------------------------------------------------------
LEMMA ClientStarts == ASSUME Init PROVE TypeOK /\ ClientInv
<1>1. PICK on \in BOOLEAN :
        tts = [on |-> on, muted |-> FALSE, speaking |-> FALSE, active |-> FALSE,
               current |-> TRUE]
  BY DEF Init
<1>2. tts \in TtsStates BY <1>1 DEF TtsStates
<1>3. face \in Faces /\ face.avatar = "rest" BY DEF Init, SetManualState, Pose, Faces
<1>4. rows \in Nat BY ClientAssumption DEF Init
<1>5. /\ speech \in [Speakers -> SpeechStates] /\ ticks \in [Ticks -> TickStates]
      /\ turn \in TurnStates
  BY NoTurnTyped DEF Init
<1>6. clicks \in [turns : 0 .. MaxTurns, mutes : 0 .. MaxMutes, clears : 0 .. MaxClears]
  BY ClientAssumption DEF Init
<1>n. nextId \in Nat \ {0} /\ shown \subseteq Bubbles BY DEF Init
<1>b. late \in BOOLEAN /\ paused \in BOOLEAN /\ boot \in {"health", "reading", "ready", "offline"} BY DEF Init
<1>7. TypeOK BY <1>n, <1>b, <1>2, <1>3, <1>4, <1>5, <1>6, ClientTypes
<1>8. /\ turn = NoTurn /\ shown = {}
      /\ \A s \in Speakers : ~speech[s].fresh /\ speech[s].pc = "none"
      /\ \A k \in Ticks : ticks[k].pc = "none"
  BY DEF Init, NoSpeech, NoTick
<1>9. turn.pc = "none" /\ turn.stored = 0 BY <1>8 DEF NoTurn
<1>10. SpeechInv
  BY <1>8, <1>9 DEF SpeechInv, OneFresh, PlaysWhatItSays, TurnAlone, Audible, Playing, UnderWay,
                     Speakers
<1>q. QED BY <1>3, <1>7, <1>8, <1>9, <1>10
  DEF ClientInv, AvatarComesBackUnlessOvertaken, BubblesInv, BubblesDistinctUnlessLate, StoredInv

\* The return of a call leaves values of their types.
LEMMA ReturnTyped ==
  ASSUME TypeOK, NEW s \in Speakers, NEW spoke \in BOOLEAN,
         NEW f \in Faces, NEW t \in TtsStates, Return(s, spoke, f, t)
  PROVE  /\ turn' \in TurnStates /\ face' \in Faces /\ tts' \in TtsStates
         /\ speech' \in [Speakers -> SpeechStates] /\ ticks' \in [Ticks -> TickStates]
<1>t. /\ turn \in TurnStates /\ face \in Faces /\ speech \in [Speakers -> SpeechStates]
      /\ ticks \in [Ticks -> TickStates]
  BY ClientTypes
<1>1. speech' \in [Speakers -> SpeechStates] BY <1>t, NoTurnTyped DEF Return
<1>2. turn' \in TurnStates BY <1>t, NoTurnTyped DEF Return
<1>3. tts' \in TtsStates
  <2>1. tts' \in {t, [t EXCEPT !.active = FALSE]} BY DEF Return
  <2>q. QED BY <2>1, TtsValues
<1>4. face' \in Faces
  <2>1. face' \in {f, ScheduleReturn("talking"), ScheduleReturn("cue")} BY DEF Return
  <2>q. QED BY <1>t, <2>1, FaceValues
<1>5. ticks' \in [Ticks -> TickStates]
  <2>1. Handled \in TickStates BY TickValues DEF Handled
  <2>2. ticks' = ticks \/ ticks' = [ticks EXCEPT ![s] = Handled] BY DEF Return
  <2>q. QED BY <1>t, <2>1, <2>2
<1>q. QED BY <1>1, <1>2, <1>3, <1>4, <1>5

LEMMA PlaybackTyped ==
  ASSUME TypeOK, NEW s \in Speakers, NEW played \in BOOLEAN, PlaybackEnds(s, played)
  PROVE  /\ turn' \in TurnStates /\ face' \in Faces /\ tts' \in TtsStates
         /\ speech' \in [Speakers -> SpeechStates] /\ ticks' \in [Ticks -> TickStates]
<1>1. FaceAfterSpeech \in Faces /\ face \in Faces /\ tts \in TtsStates
  BY ClientTypes, FaceValues
<1>2. OnSpeakingEnd(tts) \in TtsStates BY <1>1, TtsValues
<1>3. CASE speech[s].fresh BY <1>1, <1>2, <1>3, ReturnTyped DEF PlaybackEnds
<1>4. CASE ~speech[s].fresh BY <1>1, <1>4, ReturnTyped DEF PlaybackEnds
<1>q. QED BY <1>3, <1>4

\* The steps of a call that reads something aloud.
LEMMA SpeakerTyped ==
  ASSUME TypeOK, NEW s \in Speakers,
         Evaluated(s) \/ StreamPlayed(s) \/ StreamUnplayable(s) \/ Aborted(s)
           \/ Synthesized(s) \/ ClipEnds(s)
  PROVE  TypeOK'
<1>t. /\ turn \in TurnStates /\ face \in Faces /\ tts \in TtsStates
      /\ speech \in [Speakers -> SpeechStates] /\ ticks \in [Ticks -> TickStates]
  BY ClientTypes
<1>u. UNCHANGED <<chat, rows, user>>
  BY DEF Evaluated, StreamPlayed, StreamUnplayable, Aborted, Synthesized, ClipEnds
<1>m. \A pc \in {"stream", "synthesize", "clip"} :
        [speech EXCEPT ![s].pc = pc] \in [Speakers -> SpeechStates]
  BY <1>t DEF SpeechStates
<1>1. /\ turn' \in TurnStates /\ face' \in Faces /\ tts' \in TtsStates
      /\ speech' \in [Speakers -> SpeechStates] /\ ticks' \in [Ticks -> TickStates]
  <2>1. CASE Evaluated(s)
    <3>1. CASE Return(s, FALSE, face, tts) BY <1>t, <3>1, ReturnTyped
    <3>2. CASE ~Return(s, FALSE, face, tts)
      <4>1. /\ speech' = [speech EXCEPT ![s].pc = "stream"] /\ turn' = turn
            /\ tts' = [tts EXCEPT !.speaking = TRUE, !.active = TRUE, !.current = TRUE]
            /\ face' = [SetManualState("talking") EXCEPT !.overtaken = s = Turn /\ ~turn.current]
            /\ ticks' = ticks
        BY <2>1, <3>2 DEF Evaluated
      <4>2. (s = Turn /\ ~turn.current) \in BOOLEAN OBVIOUS
      <4>3. face' \in Faces BY <1>t, <4>1, <4>2, FaceValues
      <4>q. QED BY <1>t, <1>m, <4>1, <4>3, TtsValues
    <3>q. QED BY <3>1, <3>2
  <2>2. CASE \E played \in BOOLEAN : PlaybackEnds(s, played) BY <2>2, PlaybackTyped
  <2>3. CASE StreamUnplayable(s) BY <1>t, <1>m, <2>3 DEF StreamUnplayable
  <2>4. CASE Synthesized(s)
    <3> DEFINE failed == IF speech[s].fresh THEN StopSpeaking(tts) ELSE tts
    <3>1. failed \in TtsStates BY <1>t, TtsValues
    <3>2. \/ PlaybackEnds(s, FALSE)
          \/ speech' = [speech EXCEPT ![s].pc = "clip"] /\ UNCHANGED <<turn, face, tts, ticks>>
          \/ Return(s, FALSE, face, failed)
      BY <2>4 DEF Synthesized
    <3> HIDE DEF failed
    <3>q. QED BY <1>t, <1>m, <3>1, <3>2, PlaybackTyped, ReturnTyped
  <2>q. QED BY <2>1, <2>2, <2>3, <2>4 DEF StreamPlayed, Aborted, ClipEnds
<1>q. QED BY <1>u, <1>1, ClientTypes, ClientTypesNext DEF chat, user

LEMMA ReplyTyped ==
  ASSUME TypeOK, NEW empty \in BOOLEAN, ReplyReady(empty)
  PROVE  /\ turn' \in TurnStates /\ face' \in Faces /\ tts' \in TtsStates
         /\ speech' \in [Speakers -> SpeechStates]
<1>t. /\ turn \in TurnStates /\ face \in Faces /\ tts \in TtsStates
      /\ speech \in [Speakers -> SpeechStates] /\ Turn \in Speakers
  BY ClientTypes DEF Speakers
<1>1. turn' \in {NoTurn, [turn EXCEPT !.pc = "speaking"]} BY DEF ReplyReady
<1>2. [turn EXCEPT !.pc = "speaking"] \in TurnStates BY <1>t DEF TurnStates
<1>3. face' \in {face, AddReturn("talking"), ScheduleReturn("talking")} BY DEF ReplyReady
<1>4. tts' \in {tts, [tts EXCEPT !.active = FALSE]} BY DEF ReplyReady
<1>5. speech' \in {speech, SpeakReply(Turn)} BY DEF ReplyReady
<1>6. face' \in Faces BY <1>t, <1>3, FaceValues
<1>7. tts' \in TtsStates BY <1>t, <1>4, TtsValues
<1>8. speech' \in [Speakers -> SpeechStates] BY <1>t, <1>5, SpeakReplyValues
<1>q. QED BY <1>1, <1>2, <1>6, <1>7, <1>8, NoTurnTyped

LEMMA BubbleTyped ==
  ASSUME NEW id \in Nat, NEW of \in {"history", "user", "reply", "error"} \cup Ticks
  PROVE  Bubble(id, of) \in Bubbles
BY DEF Bubble, Bubbles

\* The steps of a turn.
LEMMA TurnTyped ==
  ASSUME TypeOK,
         (\E withText \in BOOLEAN : Submit(withText)) \/ RunEmptySubmitSequence \/ OnDelta
           \/ ServerStores \/ StreamDone \/ StreamFails \/ CompleteAnswers \/ CompleteFails
  PROVE  TypeOK'
<1>t. /\ nextId \in Nat \ {0} /\ rows \in Nat /\ late \in BOOLEAN /\ paused \in BOOLEAN
      /\ shown \subseteq Bubbles /\ turn \in TurnStates
      /\ boot \in {"health", "reading", "ready", "offline"}
      /\ face \in Faces /\ tts \in TtsStates /\ speech \in [Speakers -> SpeechStates]
      /\ ticks \in [Ticks -> TickStates]
      /\ clicks \in [turns : 0 .. MaxTurns, mutes : 0 .. MaxMutes, clears : 0 .. MaxClears]
  BY ClientTypes
<1>s. OnSpeakingEnd(tts) \in TtsStates /\ NewSession \in [Speakers -> SpeechStates]
  BY <1>t, TtsValues, NewSessionValues
<1>1. ASSUME NEW withText \in BOOLEAN, Submit(withText) PROVE TypeOK'
  <2> DEFINE bubble == IF withText THEN nextId + 1 ELSE nextId
  <2>1. bubble \in Nat \ {0} /\ bubble + 1 \in Nat \ {0} BY <1>t
  <2>2. /\ shown' = shown \cup {Bubble(bubble, "reply")}
                         \cup (IF withText THEN {Bubble(nextId, "user")} ELSE {})
        /\ nextId' = bubble + 1
        /\ turn' = [NoTurn EXCEPT !.pc = "stream", !.current = TRUE, !.bubble = bubble,
                                  !.server = "running"]
    BY <1>1 DEF Submit
  <2>3. /\ clicks' = [clicks EXCEPT !.turns = @ + 1] /\ clicks.turns < MaxTurns
        /\ tts' = [OnSpeakingEnd(tts) EXCEPT !.current = FALSE]
        /\ speech' = NewSession /\ face' = SetManualState("thinking")
        /\ UNCHANGED <<ticks, rows, boot, paused, late>>
    BY <1>1 DEF Submit
  <2> HIDE DEF bubble
  <2>4. shown' \subseteq Bubbles BY <1>t, <2>1, <2>2, BubbleTyped
  <2>5. turn' \in TurnStates BY <2>1, <2>2, NoTurnTyped DEF TurnStates
  <2>6. clicks' \in [turns : 0 .. MaxTurns, mutes : 0 .. MaxMutes, clears : 0 .. MaxClears]
    <3>1. clicks.turns + 1 \in 0 .. MaxTurns BY <1>t, <2>3, ClientAssumption
    <3>q. QED BY <1>t, <2>3, <3>1
  <2>7. tts' \in TtsStates BY <1>s, <2>3, TtsValues
  <2>8. face' \in Faces BY <1>t, <2>3, FaceValues
  <2>q. QED BY <1>t, <1>s, <2>1, <2>2, <2>3, <2>4, <2>5, <2>6, <2>7, <2>8, ClientTypesNext
<1>2. CASE RunEmptySubmitSequence
  <2>1. face' \in Faces BY <1>t, <1>2, FaceValues DEF RunEmptySubmitSequence
  <2>q. QED BY <1>t, <1>2, <2>1, ClientTypesNext DEF RunEmptySubmitSequence, chat, user
<1>3. CASE OnDelta
  <2>1. face' \in Faces BY <1>t, <1>3, FaceValues DEF OnDelta
  <2>2. turn' \in TurnStates BY <1>t, <1>3 DEF OnDelta, TurnStates
  <2>q. QED BY <1>t, <1>3, <2>1, <2>2, ClientTypesNext DEF OnDelta, chat, user
<1>4. CASE ServerStores
  <2>1. turn' = [turn EXCEPT !.server = "stored", !.stored = @ + 1] BY <1>4 DEF ServerStores
  <2>2. turn.stored + 1 \in Nat BY <1>t DEF TurnStates
  <2>3. turn' \in TurnStates BY <1>t, <2>1, <2>2 DEF TurnStates
  <2>4. rows' \in Nat BY <1>t, <1>4 DEF ServerStores
  <2>q. QED BY <1>t, <1>4, <2>3, <2>4, ClientTypesNext DEF ServerStores, chat, user
<1>5. CASE StreamDone
  <2>1. PICK empty \in BOOLEAN : ReplyReady(empty) BY <1>5 DEF StreamDone
  <2>q. QED BY <1>t, <1>5, <2>1, ReplyTyped, ClientTypesNext DEF StreamDone, chat, user
<1>6. CASE StreamFails
  <2>1. PICK committing \in BOOLEAN :
          /\ rows' = IF committing THEN rows + 2 ELSE rows
          /\ turn' = [turn EXCEPT !.pc = "complete", !.server = "running",
                                  !.cut = committing \/ turn.server = "stored",
                                  !.stored = IF committing THEN @ + 1 ELSE @]
    BY <1>6 DEF StreamFails
  <2>2. rows' \in Nat BY <1>t, <2>1
  <2>3. turn' \in TurnStates
    <3> DEFINE n == IF committing THEN turn.stored + 1 ELSE turn.stored
               c == committing \/ turn.server = "stored"
    <3>1. n \in Nat BY <1>t DEF TurnStates
    <3>2. c \in BOOLEAN OBVIOUS
    <3>3. turn' = [turn EXCEPT !.pc = "complete", !.server = "running", !.cut = c, !.stored = n]
      BY <2>1
    <3> HIDE DEF n, c
    <3>q. QED BY <1>t, <3>1, <3>2, <3>3 DEF TurnStates
  <2>4. shown' \subseteq Bubbles BY <1>t, <1>6 DEF StreamFails
  <2>5. tts' = OnSpeakingEnd(tts) /\ speech' = NewSession /\ UNCHANGED <<nextId, face, ticks, user>>
    BY <1>6 DEF StreamFails
  <2>q. QED BY <1>t, <1>s, <2>2, <2>3, <2>4, <2>5, ClientTypesNext DEF user
<1>7. CASE CompleteAnswers
  <2>1. PICK empty \in BOOLEAN :
          /\ ReplyReady(empty)
          /\ \/ UNCHANGED chat
             \/ shown' = shown \cup {Bubble(nextId, "reply")} /\ nextId' = nextId + 1
    BY <1>7 DEF CompleteAnswers
  <2>2. shown' \subseteq Bubbles /\ nextId' \in Nat \ {0} BY <1>t, <2>1, BubbleTyped DEF chat
  <2>q. QED BY <1>t, <1>7, <2>1, <2>2, ReplyTyped, ClientTypesNext DEF CompleteAnswers, user
<1>8. CASE CompleteFails
  <2>1. shown' \subseteq Bubbles /\ nextId' \in Nat \ {0}
    BY <1>t, <1>8, BubbleTyped DEF CompleteFails
  <2>2. face' \in Faces BY <1>t, <1>8, FaceValues DEF CompleteFails
  <2>q. QED BY <1>t, <1>8, <2>1, <2>2, NoTurnTyped, ClientTypesNext DEF CompleteFails, user
<1>q. QED BY <1>1, <1>2, <1>3, <1>4, <1>5, <1>6, <1>7, <1>8

\* The clicks, the ticks and their lines, and the clocks.
LEMMA OthersTyped ==
  ASSUME TypeOK,
         HealthAnswers \/ HistoryArrives \/ ClearChatView \/ ToggleMuted \/ TicksEffect
           \/ TimerFires \/ MoodPolled
           \/ \E k \in Ticks :
                TickAsks(k) \/ ProactiveArrives(k) \/ MutterArrives(k) \/ ObserveArrives(k)
  PROVE  TypeOK'
<1>t. /\ nextId \in Nat \ {0} /\ rows \in Nat /\ late \in BOOLEAN /\ paused \in BOOLEAN
      /\ shown \subseteq Bubbles /\ turn \in TurnStates
      /\ boot \in {"health", "reading", "ready", "offline"}
      /\ face \in Faces /\ tts \in TtsStates /\ speech \in [Speakers -> SpeechStates]
      /\ ticks \in [Ticks -> TickStates]
      /\ clicks \in [turns : 0 .. MaxTurns, mutes : 0 .. MaxMutes, clears : 0 .. MaxClears]
  BY ClientTypes
<1>s. OnSpeakingEnd(tts) \in TtsStates /\ NewSession \in [Speakers -> SpeechStates]
  BY <1>t, TtsValues, NewSessionValues
<1>1. CASE HealthAnswers
  BY <1>t, <1>1, ClientTypesNext DEF HealthAnswers, chat
<1>2. CASE HistoryArrives
  <2>1. CASE UNCHANGED <<chat, late>>
    BY <1>t, <1>2, <2>1, ClientTypesNext DEF HistoryArrives, chat
  <2>2. CASE ~UNCHANGED <<chat, late>>
    <3>1. PICK upTo \in OldRows .. rows :
            /\ shown' = {Bubble(id, "history") : id \in 1 .. upTo} /\ nextId' = upTo + 1
            /\ late' = (shown # {} \/ turn.pc # "none")
      BY <1>2, <2>2 DEF HistoryArrives
    <3>2. upTo \in Nat BY <1>t, ClientAssumption
    <3>3. \A id \in 1 .. upTo : id \in Nat BY <3>2
    <3>4. shown' \subseteq Bubbles BY <3>1, <3>3, BubbleTyped
    <3>5. late' \in BOOLEAN BY <3>1
    <3>6. nextId' \in Nat \ {0} BY <3>1, <3>2
    <3>q. QED BY <1>t, <1>2, <3>4, <3>5, <3>6, ClientTypesNext DEF HistoryArrives
  <2>q. QED BY <2>1, <2>2
<1>3. CASE ClearChatView
  <2>1. clicks.clears + 1 \in 0 .. MaxClears BY <1>t, <1>3, ClientAssumption DEF ClearChatView
  <2>2. clicks' \in [turns : 0 .. MaxTurns, mutes : 0 .. MaxMutes, clears : 0 .. MaxClears]
    BY <1>t, <1>3, <2>1 DEF ClearChatView
  <2>q. QED BY <1>t, <1>3, <2>2, ClientTypesNext DEF ClearChatView
<1>4. CASE ToggleMuted
  <2>1. clicks.mutes + 1 \in 0 .. MaxMutes BY <1>t, <1>4, ClientAssumption DEF ToggleMuted
  <2>2. clicks' \in [turns : 0 .. MaxTurns, mutes : 0 .. MaxMutes, clears : 0 .. MaxClears]
    BY <1>t, <1>4, <2>1 DEF ToggleMuted
  <2>3. \/ tts' = [tts EXCEPT !.muted = FALSE] \/ tts' = [tts EXCEPT !.muted = TRUE]
        \/ tts' = [OnSpeakingEnd(tts) EXCEPT !.muted = TRUE]
    BY <1>4 DEF ToggleMuted
  <2>4. tts' \in TtsStates BY <1>t, <1>s, <2>3, TtsValues
  <2>5. face' \in {face, FaceAfterSpeech} /\ speech' \in {speech, NewSession}
    BY <1>4 DEF ToggleMuted
  <2>6. face' \in Faces BY <1>t, <2>5, FaceValues
  <2>q. QED BY <1>t, <1>s, <1>4, <2>2, <2>4, <2>5, <2>6, ClientTypesNext DEF ToggleMuted, chat
<1>5. CASE TimerFires
  <2>1. face' \in Faces BY <1>t, <1>5, FaceValues DEF TimerFires
  <2>q. QED BY <1>t, <1>5, <2>1, ClientTypesNext DEF TimerFires, chat, user
<1>6. CASE MoodPolled
  <2>1. face' \in Faces BY <1>t, <1>6, FaceValues DEF MoodPolled
  <2>q. QED BY <1>t, <1>6, <2>1, ClientTypesNext DEF MoodPolled, chat, user
<1>7. ASSUME NEW k \in Ticks, TickAsks(k) PROVE TypeOK'
  <2>1. PICK line \in {"none", "proactive", "mutter"} :
          /\ ticks' = [ticks EXCEPT ![k] = [pc |-> "asked", line |-> line, row |->
                                              IF line = "none" THEN 0 ELSE rows + 1]]
          /\ rows' = IF line = "none" THEN rows ELSE rows + 1
    BY <1>7 DEF TickAsks
  <2>2. (IF line = "none" THEN 0 ELSE rows + 1) \in Nat /\ rows' \in Nat BY <1>t, <2>1
  <2>3. ticks' \in [Ticks -> TickStates] BY <1>t, <2>1, <2>2, TickValues
  <2>q. QED BY <1>t, <1>7, <2>2, <2>3, ClientTypesNext DEF TickAsks, chat, user
<1>l. ASSUME NEW k \in Ticks, AppendLine(k)
      PROVE  /\ nextId' \in Nat \ {0} /\ shown' \subseteq Bubbles
             /\ turn' \in TurnStates /\ tts' \in TtsStates
  <2>1. ticks[k].row \in Nat BY <1>t DEF TickStates
  <2>2. ticks[k].row + 1 \in Nat \ {0} BY <2>1
  <2>3. Bubble(ticks[k].row, k) \in Bubbles BY <2>1, BubbleTyped
  <2>4. nextId' \in Nat \ {0} BY <1>t, <1>l, <2>2 DEF AppendLine
  <2>5. shown' \subseteq Bubbles BY <1>t, <1>l, <2>3 DEF AppendLine
  <2>6. turn' \in TurnStates BY <1>t, <1>l DEF AppendLine, TurnStates
  <2>7. tts' \in TtsStates BY <1>t, <1>l, TtsValues DEF AppendLine
  <2>q. QED BY <2>4, <2>5, <2>6, <2>7
<1>k. ASSUME NEW k \in Ticks, NEW speak \in BOOLEAN, SpeakLine(k, speak)
      PROVE  speech' \in [Speakers -> SpeechStates] /\ ticks' \in [Ticks -> TickStates]
  <2>1. k \in Speakers BY DEF Speakers
  <2>2. [NoTick EXCEPT !.pc = "speaking"] \in TickStates /\ Handled \in TickStates
    BY TickValues DEF Handled
  <2>3. \/ ticks' = [ticks EXCEPT ![k] = [NoTick EXCEPT !.pc = "speaking"]]
        \/ ticks' = [ticks EXCEPT ![k] = Handled]
    BY <1>k DEF SpeakLine
  <2>4. speech' \in {speech, SpeakReply(k)} BY <1>k DEF SpeakLine
  <2>q. QED BY ZenonT(40), <1>t, <2>1, <2>2, <2>3, <2>4, SpeakReplyValues
<1>a. MayBeRead \subseteq BOOLEAN BY <1>t DEF MayBeRead, ShouldAttemptTts, TtsStates
<1>8. ASSUME NEW k \in Ticks, ProactiveArrives(k) PROVE TypeOK'
  <2>1. PICK speak \in BOOLEAN : SpeakLine(k, speak) BY <1>8, <1>a DEF ProactiveArrives
  <2>2. face' \in {Overtaken, ScheduleReturn("cue")} BY <1>8 DEF ProactiveArrives
  <2>3. face' \in Faces BY <1>t, <2>2, FaceValues, OvertakenTyped
  <2>q. QED BY <1>t, <1>8, <1>l, <1>k, <2>1, <2>3, ClientTypesNext DEF ProactiveArrives, user
<1>9. ASSUME NEW k \in Ticks, MutterArrives(k) PROVE TypeOK'
  <2>1. PICK speak \in BOOLEAN : SpeakLine(k, speak) BY <1>9, <1>a DEF MutterArrives
  <2>2. face' \in {SetManualState("cue"), ScheduleReturn("cue")} BY <1>9 DEF MutterArrives
  <2>3. face' \in Faces BY <1>t, <2>2, FaceValues
  <2>q. QED BY <1>t, <1>9, <1>l, <1>k, <2>1, <2>3, ClientTypesNext DEF MutterArrives, user
<1>10. ASSUME NEW k \in Ticks, ObserveArrives(k) PROVE TypeOK'
  <2>1. Handled \in TickStates BY TickValues DEF Handled
  <2>2. ticks' \in [Ticks -> TickStates] BY <1>t, <1>10, <2>1 DEF ObserveArrives
  <2>3. face' \in Faces BY <1>t, <1>10, FaceValues DEF ObserveArrives
  <2>q. QED BY <1>t, <1>10, <2>2, <2>3, ClientTypesNext DEF ObserveArrives, chat, user
<1>11. CASE TicksEffect
  <2>1. Handled \in TickStates BY TickValues DEF Handled
  <2>2. ticks' \in [Ticks -> TickStates] BY <1>t, <1>11, <2>1 DEF TicksEffect
  <2>3. paused' \in BOOLEAN BY <1>t, <1>11 DEF TicksEffect, Paused, TtsStates
  <2>q. QED BY <1>t, <1>11, <2>2, <2>3, ClientTypesNext DEF TicksEffect, chat
<1>q. QED BY <1>1, <1>2, <1>3, <1>4, <1>5, <1>6, <1>7, <1>8, <1>9, <1>10, <1>11

LEMMA ClientTypeStep == ASSUME TypeOK, [Next]_vars PROVE TypeOK'
<1>1. CASE UNCHANGED vars BY <1>1 DEF vars, chat, user, TypeOK
<1>q. QED BY <1>1, SpeakerTyped, TurnTyped, OthersTyped DEF Next

-----------------------------------------------------------------------------
\* What is settled stays so unless somebody takes another pose.
LEMMA EaseValues ==
  ASSUME TypeOK
  PROVE  /\ \A state : AtEase(ScheduleReturn(state)) /\ AtEase(AddReturn(state))
         /\ AtEase(FaceAfterSpeech) <=> tts.current \/ Settled
         /\ AtEase(Overtaken) <=> Settled \/ tts.speaking \/ turn.pc = "speaking"
<1>t. face \in Faces BY ClientTypes
<1>1. \A state : AtEase(ScheduleReturn(state)) BY DEF AtEase, ScheduleReturn, Pose
<1>2. \A state : AtEase(AddReturn(state))
  <2>1. face.timers + 1 > 0 BY <1>t DEF Faces
  <2>q. QED BY <2>1 DEF AtEase, AddReturn, Pose
<1>3. AtEase(FaceAfterSpeech) <=> tts.current \/ Settled
  <2>1. CASE tts.current BY <2>1 DEF AtEase, FaceAfterSpeech, SetManualState, Pose
  <2>2. CASE ~tts.current BY <2>2 DEF AtEase, FaceAfterSpeech, Settled
  <2>q. QED BY <2>1, <2>2
<1>4. /\ Overtaken.avatar = face.avatar /\ Overtaken.timers = face.timers
      /\ Overtaken.overtaken = (face.overtaken \/ tts.speaking \/ turn.pc = "speaking")
  BY <1>t DEF Overtaken, Faces
<1>5. AtEase(Overtaken) <=> Settled \/ tts.speaking \/ turn.pc = "speaking"
  BY <1>4 DEF AtEase, Settled
<1>q. QED BY <1>1, <1>2, <1>3, <1>5

\* The invariant while the calls stay as they are and the avatar settles: a turn may
\* end, and an epoch go by.
LEMMA SettledStep ==
  ASSUME SpeechInv, Settled', speech' = speech, tts'.speaking = tts.speaking,
         turn'.pc = turn.pc \/ (turn'.pc = "none" /\ turn.pc # "speaking"),
         turn'.pc # "none" /\ turn'.current => turn.current
  PROVE  SpeechInv' /\ AvatarComesBackUnlessOvertaken'
<1>1. OneFresh' BY DEF SpeechInv, OneFresh, Audible
<1>2. PlaysWhatItSays' BY DEF SpeechInv, PlaysWhatItSays, Playing
<1>3. TurnAlone' BY DEF SpeechInv, TurnAlone, UnderWay
<1>q. QED BY <1>1, <1>2, <1>3 DEF SpeechInv, AvatarComesBackUnlessOvertaken, Settled, AtEase

\* And while nothing moves but what it does not speak of.
LEMMA SameStep ==
  ASSUME SpeechInv, AvatarComesBackUnlessOvertaken, Settled => Settled', speech' = speech,
         tts'.speaking = tts.speaking, tts'.current = tts.current,
         turn'.pc = turn.pc, turn'.current = turn.current
  PROVE  SpeechInv' /\ AvatarComesBackUnlessOvertaken'
<1>1. OneFresh' BY DEF SpeechInv, OneFresh, Audible
<1>2. PlaysWhatItSays' BY DEF SpeechInv, PlaysWhatItSays, Playing
<1>3. TurnAlone' BY DEF SpeechInv, TurnAlone, UnderWay
<1>q. QED BY <1>1, <1>2, <1>3 DEF SpeechInv, AvatarComesBackUnlessOvertaken, Settled, AtEase

\* A call that returns leaves the others alone; if it changes the speech state it was
\* the fresh one. It settles the avatar, unless another call still will.
LEMMA ReturnStep ==
  ASSUME TypeOK, SpeechInv, NEW s \in Speakers, NEW spoke \in BOOLEAN,
         NEW f \in Faces, NEW t \in TtsStates, Return(s, spoke, f, t),
         UnderWay(s), t = tts \/ speech[s].fresh,
         Settled => AtEase(f), spoke => AtEase(f)
  PROVE  /\ SpeechInv' /\ AvatarComesBackUnlessOvertaken'
         /\ turn' \in {turn, NoTurn}
<1>t. /\ turn \in TurnStates /\ face \in Faces /\ tts \in TtsStates
      /\ speech \in [Speakers -> SpeechStates] /\ ticks \in [Ticks -> TickStates]
      /\ \A k \in Ticks : k \in Speakers /\ k # Turn
      /\ \A r \in Speakers : r # Turn => r \in Ticks
      /\ Turn \in Speakers
  BY ClientTypes, ClientAssumption DEF Speakers
<1>n. NoSpeech.pc = "none" /\ ~NoSpeech.fresh /\ NoTurn.pc = "none"
  BY DEF NoSpeech, NoTurn
<1>1. /\ speech'[s] = NoSpeech /\ \A r \in Speakers \ {s} : speech'[r] = speech[r]
  BY <1>t DEF Return
<1>2. OneFresh' BY <1>n, <1>1 DEF SpeechInv, OneFresh, Audible
<1>3. face' \in {f, ScheduleReturn("talking"), ScheduleReturn("cue")} BY DEF Return
<1>4. Settled => Settled' BY <1>3, EaseValues DEF Settled, AtEase
<1>5. t.speaking = tts'.speaking /\ t.current = tts'.current BY <1>t DEF Return, TtsStates
<1>6. PlaysWhatItSays'
  <2>1. ASSUME NEW r \in Speakers, Playing(r)' PROVE Playing(r) /\ t = tts
    <3>1. r # s BY <1>n, <1>1, <2>1 DEF Playing
    <3>2. Playing(r) BY <1>1, <2>1, <3>1 DEF Playing
    <3>3. ~speech[s].fresh BY <3>1, <3>2 DEF Playing, SpeechInv, OneFresh
    <3>q. QED BY <3>2, <3>3
  <2>q. QED BY <1>4, <1>5, <2>1 DEF PlaysWhatItSays, SpeechInv
<1>7. CASE s = Turn
  <2>1. turn' = NoTurn /\ face' = IF ~spoke /\ turn.current THEN ScheduleReturn("talking") ELSE f
    BY <1>7 DEF Return
  <2>2. TurnAlone' BY <1>n, <1>1, <1>7, <2>1 DEF TurnAlone, UnderWay
  <2>3. AvatarComesBackUnlessOvertaken'
    <3>1. CASE spoke \/ turn.current
      <4>1. Settled' BY <2>1, <3>1, EaseValues DEF Settled, AtEase
      <4>q. QED BY <4>1 DEF AvatarComesBackUnlessOvertaken, Settled, AtEase
    <3>2. CASE ~turn.current
      <4>1. turn.pc = "speaking" BY <1>7 DEF SpeechInv, TurnAlone
      <4>2. CASE Settled
        BY <1>4, <4>2 DEF AvatarComesBackUnlessOvertaken, Settled, AtEase
      <4>3. ASSUME NEW k \in Ticks, UnderWay(k) PROVE AvatarComesBackUnlessOvertaken'
        <5>1. k \in Speakers /\ speech'[k] = speech[k] BY <1>t, <1>1, <1>7
        <5>q. QED BY <4>3, <5>1 DEF AvatarComesBackUnlessOvertaken, UnderWay
      <4>q. QED BY <3>2, <4>1, <4>2, <4>3 DEF SpeechInv, TurnAlone
    <3>q. QED BY <3>1, <3>2
  <2>q. QED BY <1>2, <1>6, <2>1, <2>2, <2>3 DEF SpeechInv
<1>8. CASE s # Turn
  <2>1. turn' = turn /\ face' = IF spoke THEN f ELSE ScheduleReturn("cue")
    BY <1>8 DEF Return
  <2>2. Settled' BY <2>1, EaseValues DEF Settled, AtEase
  <2>3. \A k \in Ticks : speech'[k].fresh => speech[k].fresh BY <1>t, <1>n, <1>1
  <2>4. speech'[Turn] = speech[Turn] BY <1>t, <1>1, <1>8
  <2>5. TurnAlone' BY <2>1, <2>2, <2>3, <2>4 DEF SpeechInv, TurnAlone, UnderWay
  <2>q. QED BY <1>2, <1>6, <2>1, <2>2, <2>5
            DEF SpeechInv, AvatarComesBackUnlessOvertaken, Settled, AtEase
<1>q. QED BY <1>7, <1>8

LEMMA PlaybackStep ==
  ASSUME TypeOK, SpeechInv, NEW s \in Speakers, NEW played \in BOOLEAN, PlaybackEnds(s, played),
         UnderWay(s), played => Playing(s) \/ ~speech[s].fresh
  PROVE  /\ SpeechInv' /\ AvatarComesBackUnlessOvertaken'
         /\ turn' \in {turn, NoTurn}
<1>t. tts \in TtsStates /\ face \in Faces /\ FaceAfterSpeech \in Faces
  BY ClientTypes, FaceValues
<1>1. CASE ~speech[s].fresh
  <2>1. Return(s, FALSE, face, tts) BY <1>1 DEF PlaybackEnds
  <2>2. Settled => AtEase(face) BY DEF Settled
  <2>q. QED BY <1>t, <2>1, <2>2, ReturnStep
<1>2. CASE speech[s].fresh
  <2>1. Return(s, played, FaceAfterSpeech, OnSpeakingEnd(tts)) BY <1>2 DEF PlaybackEnds
  <2>2. OnSpeakingEnd(tts) \in TtsStates BY <1>t, TtsValues
  <2>3. ASSUME played PROVE AtEase(FaceAfterSpeech)
    <3>1. tts.current \/ Settled BY <1>2, <2>3 DEF SpeechInv, PlaysWhatItSays
    <3>q. QED BY <3>1, EaseValues
  <2>4. Settled => AtEase(FaceAfterSpeech) BY EaseValues
  <2>q. QED BY <1>t, <1>2, <2>1, <2>2, <2>3, <2>4, ReturnStep
<1>q. QED BY <1>1, <1>2

\* When nothing that was said is fresh, the speech says nothing false.
LEMMA SilenceStep ==
  ASSUME TypeOK, SpeechInv, speech' = NewSession
  PROVE  /\ OneFresh' /\ PlaysWhatItSays' /\ \A s \in Speakers : ~speech'[s].fresh
         /\ \A s \in Speakers : UnderWay(s)' => UnderWay(s)
         /\ \A s \in Speakers : UnderWay(s) => UnderWay(s)' \/ speech[s].pc = "clip"
<1>1. speech \in [Speakers -> SpeechStates] BY ClientTypes
<1>2. \A s \in Speakers : ~speech'[s].fresh /\ speech'[s].pc \notin {"stream", "clip"}
  BY <1>1, NewSessionValues
<1>3. \A s \in Speakers :
        (UnderWay(s)' => UnderWay(s)) /\ (UnderWay(s) => UnderWay(s)' \/ speech[s].pc = "clip")
  BY <1>1, NewSessionValues DEF UnderWay
<1>q. QED BY <1>2, <1>3 DEF OneFresh, Audible, PlaysWhatItSays, Playing

LEMMA SpeakerStep ==
  ASSUME TypeOK, SpeechInv, AvatarComesBackUnlessOvertaken, NEW s \in Speakers,
         Evaluated(s) \/ StreamPlayed(s) \/ StreamUnplayable(s) \/ Aborted(s)
           \/ Synthesized(s) \/ ClipEnds(s)
  PROVE  SpeechInv' /\ AvatarComesBackUnlessOvertaken' /\ turn' \in {turn, NoTurn}
<1>t. /\ turn \in TurnStates /\ face \in Faces /\ tts \in TtsStates
      /\ speech \in [Speakers -> SpeechStates] /\ ticks \in [Ticks -> TickStates]
      /\ Turn \in Speakers /\ \A k \in Ticks : k \in Speakers
  BY ClientTypes DEF Speakers
<1>e. Settled => AtEase(face) BY DEF Settled
\* A call that goes on is still under way.
<1>m. ASSUME NEW pc \in {"stream", "synthesize", "clip"}, speech' = [speech EXCEPT ![s].pc = pc],
             UnderWay(s), speech[s].fresh \/ pc = "synthesize"
      PROVE  /\ OneFresh' /\ AvatarComesBackUnlessOvertaken'
             /\ speech'[s].pc = pc
             /\ \A r \in Speakers : speech'[r].fresh = speech[r].fresh
             /\ \A r \in Speakers \ {s} : speech'[r] = speech[r]
             /\ \A r \in Speakers : UnderWay(r)' <=> UnderWay(r)
  <2>1. /\ speech'[s].pc = pc /\ speech'[s].fresh = speech[s].fresh
        /\ \A r \in Speakers \ {s} : speech'[r] = speech[r]
    BY <1>t, <1>m DEF SpeechStates
  <2>2. \A r \in Speakers : speech'[r].fresh = speech[r].fresh BY <2>1
  <2>3. OneFresh' BY <1>m, <2>1, <2>2 DEF SpeechInv, OneFresh, Audible
  <2>4. AvatarComesBackUnlessOvertaken' BY <2>1 DEF AvatarComesBackUnlessOvertaken
  <2>5. \A r \in Speakers : UnderWay(r)' <=> UnderWay(r) BY <1>m, <2>1 DEF UnderWay
  <2>q. QED BY <2>1, <2>2, <2>3, <2>4, <2>5
\* A call that goes on in the same face, and was playing if it plays.
<1>g. ASSUME NEW pc \in {"synthesize", "clip"}, speech' = [speech EXCEPT ![s].pc = pc],
             UNCHANGED <<turn, face, tts>>, speech[s].pc \in {"stream", "synthesize"},
             speech[s].fresh
      PROVE  SpeechInv' /\ AvatarComesBackUnlessOvertaken'
  <2>1. UnderWay(s) BY <1>g DEF UnderWay
  <2>2. \A r \in Speakers : Playing(r)' => Playing(r) BY <1>g, <1>m, <2>1 DEF Playing
  <2>3. Settled' <=> Settled BY <1>g DEF Settled, AtEase
  <2>4. PlaysWhatItSays' BY <1>g, <2>2, <2>3 DEF SpeechInv, PlaysWhatItSays
  <2>5. TurnAlone' BY <1>t, <1>g, <1>m, <2>1, <2>3 DEF SpeechInv, TurnAlone
  <2>q. QED BY <1>g, <1>m, <2>1, <2>4, <2>5 DEF SpeechInv
<1>1. CASE StreamUnplayable(s)
  <2>1. /\ speech' = [speech EXCEPT ![s].pc = "synthesize"] /\ UNCHANGED <<turn, face, tts>>
        /\ speech[s].pc = "stream"
    BY <1>1 DEF StreamUnplayable
  <2>2. speech[s].fresh BY <2>1 DEF SpeechInv, OneFresh, Audible
  <2>q. QED BY <1>g, <2>1, <2>2
<1>2. ASSUME NEW played \in BOOLEAN, PlaybackEnds(s, played),
             \/ speech[s].pc \in {"stream", "synthesize", "clip"}
             \/ speech[s].pc = "aborted" /\ ~played
      PROVE  SpeechInv' /\ AvatarComesBackUnlessOvertaken' /\ turn' \in {turn, NoTurn}
  BY <1>2, PlaybackStep DEF Playing, UnderWay
<1>3. CASE Evaluated(s)
  <2>u. UnderWay(s) BY <1>3 DEF Evaluated, UnderWay
  <2>1. CASE Return(s, FALSE, face, tts)
    BY <1>t, <1>e, <2>u, <2>1, ReturnStep
  <2>2. CASE ~Return(s, FALSE, face, tts)
    <3>1. /\ speech' = [speech EXCEPT ![s].pc = "stream"] /\ turn' = turn
          /\ tts' = [tts EXCEPT !.speaking = TRUE, !.active = TRUE, !.current = TRUE]
          /\ face' = [SetManualState("talking") EXCEPT !.overtaken = s = Turn /\ ~turn.current]
          /\ speech[s].fresh
      BY <1>3, <2>2 DEF Evaluated
    <3>2. tts'.speaking /\ tts'.current BY <1>t, <3>1 DEF TtsStates
    <3>3. PlaysWhatItSays' BY <3>2 DEF PlaysWhatItSays
    <3>4. s = Turn /\ ~turn.current => Settled'
      BY <3>1 DEF Settled, AtEase, SetManualState, Pose
    <3>5. s # Turn => s \in Ticks /\ UnderWay(s)' BY <1>m, <2>u, <3>1 DEF Speakers
    <3>6. /\ \A k \in Ticks : speech'[k].fresh = speech[k].fresh
          /\ UnderWay(Turn)' <=> UnderWay(Turn)
      BY <1>t, <1>m, <2>u, <3>1
    <3>7. TurnAlone' BY <3>1, <3>4, <3>5, <3>6 DEF SpeechInv, TurnAlone
    <3>q. QED BY <1>m, <2>u, <3>1, <3>3, <3>7 DEF SpeechInv
  <2>q. QED BY <2>1, <2>2
<1>4. CASE Synthesized(s)
  <2> DEFINE failed == IF speech[s].fresh THEN StopSpeaking(tts) ELSE tts
  <2>1. failed \in TtsStates BY <1>t, TtsValues
  <2>2. failed = tts \/ speech[s].fresh OBVIOUS
  <2>3. speech[s].pc = "synthesize"
        /\ \/ PlaybackEnds(s, FALSE)
           \/ /\ speech[s].fresh /\ speech' = [speech EXCEPT ![s].pc = "clip"]
              /\ UNCHANGED <<turn, face, tts, ticks>>
           \/ Return(s, FALSE, face, failed)
    BY <1>4 DEF Synthesized
  <2> HIDE DEF failed
  <2>4. CASE PlaybackEnds(s, FALSE) BY <1>2, <2>3, <2>4
  <2>5. CASE Return(s, FALSE, face, failed)
    <3>1. UnderWay(s) BY <2>3 DEF UnderWay
    <3>q. QED BY <1>t, <1>e, <2>1, <2>2, <2>5, <3>1, ReturnStep
  <2>6. CASE /\ speech[s].fresh /\ speech' = [speech EXCEPT ![s].pc = "clip"]
             /\ UNCHANGED <<turn, face, tts, ticks>>
    BY <1>g, <2>3, <2>6
  <2>q. QED BY <2>3, <2>4, <2>5, <2>6
<1>5. CASE StreamPlayed(s)
  <2>1. PlaybackEnds(s, TRUE) /\ speech[s].pc = "stream" BY <1>5 DEF StreamPlayed
  <2>q. QED BY <1>2, <2>1
<1>6. CASE Aborted(s) BY <1>2, <1>6 DEF Aborted
<1>7. CASE ClipEnds(s)
  <2>1. PICK played \in BOOLEAN : PlaybackEnds(s, played) BY <1>7 DEF ClipEnds
  <2>2. speech[s].pc = "clip" BY <1>7 DEF ClipEnds
  <2>q. QED BY <1>2, <2>1, <2>2
<1>q. QED BY <1>1, <1>3, <1>4, <1>5, <1>6, <1>7

LEMMA ReplyStep ==
  ASSUME TypeOK, SpeechInv, NEW empty \in BOOLEAN, ReplyReady(empty),
         turn.pc \in {"stream", "complete"}
  PROVE  SpeechInv' /\ AvatarComesBackUnlessOvertaken'
<1>t. /\ turn \in TurnStates /\ face \in Faces /\ tts \in TtsStates
      /\ speech \in [Speakers -> SpeechStates]
  BY ClientTypes
<1>n. NoTurn.pc = "none" BY DEF NoTurn
<1>1. CASE /\ turn' = NoTurn /\ face' = AddReturn("talking") /\ UNCHANGED <<tts, speech>>
  <2>1. Settled' BY <1>1, EaseValues DEF Settled, AtEase
  <2>q. QED BY <1>n, <1>1, <2>1, SettledStep
<1>2. CASE /\ turn' = [turn EXCEPT !.pc = "speaking"] /\ speech' = SpeakReply(Turn)
           /\ turn.current
  <2>1. turn'.pc = "speaking" /\ turn'.current BY <1>t, <1>2 DEF TurnStates
  <2>2. Turn \in Speakers /\ \A k \in Ticks : k \in Speakers \ {Turn}
    BY ClientAssumption DEF Speakers
  <2>3. /\ speech'[Turn] = [pc |-> "evaluate", fresh |-> TRUE]
        /\ \A r \in Speakers \ {Turn} : ~speech'[r].fresh /\ speech'[r].pc \notin {"stream", "clip"}
    BY <1>t, <1>2, <2>2, SpeakReplyValues, NewSessionValues
  <2>4. OneFresh' BY <2>3 DEF OneFresh, Audible
  <2>5. PlaysWhatItSays' BY <2>3 DEF PlaysWhatItSays, Playing
  <2>6. TurnAlone' BY <2>1, <2>2, <2>3 DEF TurnAlone
  <2>q. QED BY <2>1, <2>4, <2>5, <2>6 DEF SpeechInv, AvatarComesBackUnlessOvertaken
<1>3. CASE /\ turn' = NoTurn /\ face' = ScheduleReturn("talking") /\ UNCHANGED speech
           /\ tts' = [tts EXCEPT !.active = FALSE]
  <2>1. Settled' BY <1>3, EaseValues DEF Settled, AtEase
  <2>2. tts'.speaking = tts.speaking BY <1>t, <1>3 DEF TtsStates
  <2>q. QED BY <1>n, <1>3, <2>1, <2>2, SettledStep
<1>q. QED BY <1>1, <1>2, <1>3 DEF ReplyReady

LEMMA TurnStep ==
  ASSUME TypeOK, SpeechInv, AvatarComesBackUnlessOvertaken,
         (\E withText \in BOOLEAN : Submit(withText)) \/ RunEmptySubmitSequence \/ OnDelta
           \/ ServerStores \/ StreamDone \/ StreamFails \/ CompleteAnswers \/ CompleteFails
  PROVE  SpeechInv' /\ AvatarComesBackUnlessOvertaken'
<1>t. /\ turn \in TurnStates /\ face \in Faces /\ tts \in TtsStates
      /\ speech \in [Speakers -> SpeechStates] /\ ticks \in [Ticks -> TickStates]
      /\ Turn \in Speakers /\ \A k \in Ticks : k \in Speakers
  BY ClientTypes DEF Speakers
<1>n. NoTurn.pc = "none" BY DEF NoTurn
<1>s. ASSUME speech' = NewSession, turn'.pc \in {"stream", "complete"}, turn.pc # "speaking"
      PROVE  SpeechInv' /\ AvatarComesBackUnlessOvertaken'
  <2>1. ~UnderWay(Turn) BY <1>s DEF SpeechInv, TurnAlone
  <2>2. TurnAlone' BY <1>t, <1>s, <2>1, SilenceStep DEF TurnAlone
  <2>q. QED BY <1>s, <2>2, SilenceStep DEF SpeechInv, AvatarComesBackUnlessOvertaken
<1>1. ASSUME NEW withText \in BOOLEAN, Submit(withText)
      PROVE  SpeechInv' /\ AvatarComesBackUnlessOvertaken'
  <2>1. PICK bubble : turn' = [NoTurn EXCEPT !.pc = "stream", !.current = TRUE, !.bubble = bubble,
                                             !.server = "running"]
    BY <1>1 DEF Submit
  <2>2. turn'.pc = "stream" BY <2>1 DEF NoTurn
  <2>3. speech' = NewSession /\ turn.pc = "none" BY <1>1 DEF Submit
  <2>q. QED BY <1>s, <2>2, <2>3
<1>2. CASE RunEmptySubmitSequence
  <2>1. UNCHANGED <<turn, tts, speech>> /\ face' = ScheduleReturn("annoyed")
    BY <1>2 DEF RunEmptySubmitSequence
  <2>2. Settled' BY <2>1, EaseValues DEF Settled, AtEase
  <2>q. QED BY <2>1, <2>2, SettledStep
<1>3. CASE OnDelta
  <2>1. turn'.pc = "stream" /\ turn.pc = "stream" /\ turn.current /\ turn'.current
    BY <1>t, <1>3 DEF OnDelta, TurnStates
  <2>2. UNCHANGED <<tts, speech>> BY <1>3 DEF OnDelta
  <2>3. OneFresh' BY <2>2 DEF SpeechInv, OneFresh, Audible
  <2>4. \A r \in Speakers : ~Playing(r)
    BY <2>1 DEF SpeechInv, TurnAlone, UnderWay, Playing, Speakers
  <2>5. PlaysWhatItSays' BY <2>2, <2>4 DEF PlaysWhatItSays, Playing
  <2>6. TurnAlone' BY <2>1, <2>2 DEF SpeechInv, TurnAlone, UnderWay
  <2>q. QED BY <2>1, <2>3, <2>5, <2>6 DEF SpeechInv, AvatarComesBackUnlessOvertaken
<1>4. CASE ServerStores
  <2>1. turn'.pc = turn.pc /\ turn'.current = turn.current
    BY <1>t, <1>4 DEF ServerStores, TurnStates
  <2>2. UNCHANGED <<face, tts, speech>> BY <1>4 DEF ServerStores
  <2>3. Settled => Settled' BY <2>2 DEF Settled, AtEase
  <2>q. QED BY <2>1, <2>2, <2>3, SameStep
<1>5. CASE StreamDone
  <2>1. PICK empty \in BOOLEAN : ReplyReady(empty) BY <1>5 DEF StreamDone
  <2>2. turn.pc = "stream" BY <1>5 DEF StreamDone
  <2>q. QED BY <2>1, <2>2, ReplyStep
<1>6. CASE StreamFails
  <2>1. turn.pc = "stream" /\ speech' = NewSession BY <1>6 DEF StreamFails
  <2>2. turn'.pc = "complete" BY <1>t, <1>6 DEF StreamFails, TurnStates
  <2>q. QED BY <1>s, <2>1, <2>2
<1>7. CASE CompleteAnswers
  <2>1. PICK empty \in BOOLEAN : ReplyReady(empty) BY <1>7 DEF CompleteAnswers
  <2>2. turn.pc = "complete" BY <1>7 DEF CompleteAnswers
  <2>q. QED BY <2>1, <2>2, ReplyStep
<1>8. CASE CompleteFails
  <2>1. /\ turn' = NoTurn /\ face' = AddReturn("annoyed") /\ UNCHANGED <<tts, speech>>
        /\ turn.pc = "complete"
    BY <1>8 DEF CompleteFails
  <2>2. Settled' BY <2>1, EaseValues DEF Settled, AtEase
  <2>q. QED BY <1>n, <2>1, <2>2, SettledStep
<1>q. QED BY <1>1, <1>2, <1>3, <1>4, <1>5, <1>6, <1>7, <1>8

\* A line comes in. It is read in the pose of a cue, or it takes the pose for a while,
\* or it leaves the pose to whoever has it.
LEMMA LineStep ==
  ASSUME TypeOK, SpeechInv, AvatarComesBackUnlessOvertaken, NEW k \in Ticks, NEW speak \in BOOLEAN,
         AppendLine(k), SpeakLine(k, speak),
         \/ speak \/ Settled'
         \/ face' = Overtaken
  PROVE  SpeechInv' /\ AvatarComesBackUnlessOvertaken'
<1>t. /\ turn \in TurnStates /\ tts \in TtsStates /\ k \in Speakers /\ k # Turn /\ Turn \in Speakers
      /\ speech \in [Speakers -> SpeechStates]
  BY ClientTypes, ClientAssumption DEF Speakers
<1>1. turn'.pc = turn.pc /\ ~turn'.current BY <1>t DEF AppendLine, TurnStates
<1>2. tts'.speaking = tts.speaking BY <1>t DEF AppendLine, TtsStates
<1>3. CASE speak
  <2>1. speech' = SpeakReply(k) BY <1>3 DEF SpeakLine
  <2>2. speech'[k] = [pc |-> "evaluate", fresh |-> TRUE]
    BY ZenonT(40), <1>t, <2>1, SpeakReplyValues
  <2>3. \A r \in Speakers \ {k} : speech'[r] = NewSession[r]
    BY ZenonT(40), <1>t, <2>1, SpeakReplyValues
  <2>4. \A r \in Speakers \ {k} : /\ ~speech'[r].fresh /\ speech'[r].pc \notin {"stream", "clip"}
                                  /\ UnderWay(r)' => UnderWay(r)
    BY <1>t, <2>3, NewSessionValues DEF UnderWay
  <2>5. OneFresh' BY <2>2, <2>4 DEF OneFresh, Audible
  <2>6. PlaysWhatItSays' BY <2>2, <2>4 DEF PlaysWhatItSays, Playing
  <2>7. UnderWay(k)' BY <2>2 DEF UnderWay
  <2>8. TurnAlone' BY <1>t, <1>1, <2>4, <2>7 DEF SpeechInv, TurnAlone
  <2>9. AvatarComesBackUnlessOvertaken'
    BY <1>t, <2>7 DEF AvatarComesBackUnlessOvertaken, UnderWay
  <2>q. QED BY <2>5, <2>6, <2>8, <2>9 DEF SpeechInv
<1>4. CASE ~speak /\ Settled'
  <2>1. speech' = speech BY <1>4 DEF SpeakLine
  <2>q. QED BY <1>1, <1>2, <1>4, <2>1, SettledStep
<1>5. CASE ~speak /\ face' = Overtaken
  <2>1. speech' = speech BY <1>5 DEF SpeakLine
  <2>2. CASE Settled \/ tts.speaking \/ turn.pc = "speaking"
    <3>1. Settled' BY <1>5, <2>2, EaseValues DEF Settled, AtEase
    <3>q. QED BY <1>1, <1>2, <2>1, <3>1, SettledStep
  <2>3. CASE ~(Settled \/ tts.speaking \/ turn.pc = "speaking")
    <3>1. OneFresh' BY <2>1 DEF SpeechInv, OneFresh, Audible
    <3>2. PlaysWhatItSays' BY <2>1, <2>3 DEF SpeechInv, PlaysWhatItSays, Playing
    <3>3. TurnAlone' BY <1>1, <2>1, <2>3 DEF SpeechInv, TurnAlone, UnderWay
    <3>4. AvatarComesBackUnlessOvertaken'
      BY <1>1, <2>1, <2>3 DEF AvatarComesBackUnlessOvertaken, Settled, AtEase
    <3>q. QED BY <3>1, <3>2, <3>3, <3>4 DEF SpeechInv
  <2>q. QED BY <2>2, <2>3
<1>q. QED BY <1>3, <1>4, <1>5

LEMMA OthersStep ==
  ASSUME TypeOK, SpeechInv, AvatarComesBackUnlessOvertaken,
         HealthAnswers \/ HistoryArrives \/ ClearChatView \/ ToggleMuted \/ TicksEffect
           \/ TimerFires \/ MoodPolled
           \/ \E k \in Ticks :
                TickAsks(k) \/ ProactiveArrives(k) \/ MutterArrives(k) \/ ObserveArrives(k)
  PROVE  SpeechInv' /\ AvatarComesBackUnlessOvertaken'
<1>t. /\ turn \in TurnStates /\ face \in Faces /\ tts \in TtsStates
      /\ speech \in [Speakers -> SpeechStates] /\ ticks \in [Ticks -> TickStates]
      /\ Turn \in Speakers /\ \A k \in Ticks : k \in Speakers
  BY ClientTypes DEF Speakers
<1>k. ASSUME UNCHANGED <<turn, face, tts, speech>>
      PROVE  SpeechInv' /\ AvatarComesBackUnlessOvertaken'
  <2>1. Settled => Settled' BY <1>k DEF Settled, AtEase
  <2>q. QED BY <1>k, <2>1, SameStep
<1>1. CASE HealthAnswers \/ HistoryArrives \/ ClearChatView \/ TicksEffect
             \/ \E k \in Ticks : TickAsks(k)
  <2>1. UNCHANGED <<turn, face, tts, speech>>
    BY <1>1 DEF HealthAnswers, HistoryArrives, ClearChatView, TicksEffect, TickAsks
  <2>q. QED BY <1>k, <2>1
<1>2. CASE TimerFires \/ MoodPolled
  <2>1. UNCHANGED <<turn, tts, speech>> /\ face'.avatar = "rest"
    BY <1>t, <1>2 DEF TimerFires, TimerReturns, Pose, MoodPolled, Faces
  <2>2. Settled' BY <2>1 DEF Settled, AtEase
  <2>q. QED BY <2>1, <2>2, SettledStep
<1>3. CASE ToggleMuted /\ tts.muted
  <2>1. UNCHANGED <<turn, face, speech>> /\ tts' = [tts EXCEPT !.muted = FALSE]
    BY <1>3 DEF ToggleMuted
  <2>2. tts'.speaking = tts.speaking /\ tts'.current = tts.current BY <1>t, <2>1 DEF TtsStates
  <2>3. Settled => Settled' BY <2>1 DEF Settled, AtEase
  <2>q. QED BY <2>1, <2>2, <2>3, SameStep
<1>4. CASE ToggleMuted /\ ~tts.muted
  <2>1. /\ UNCHANGED turn /\ speech' = NewSession
        /\ face' = IF tts.speaking THEN FaceAfterSpeech ELSE face
    BY <1>4 DEF ToggleMuted
  <2>2. Settled => Settled' BY <2>1, EaseValues DEF Settled, AtEase
  <2>3. ASSUME NEW s \in Speakers, speech[s].pc = "clip" PROVE Settled'
    <3>1. tts.speaking /\ (tts.current \/ Settled)
      BY <2>3 DEF SpeechInv, OneFresh, PlaysWhatItSays, Audible, Playing
    <3>q. QED BY <2>1, <3>1, EaseValues DEF Settled, AtEase
  <2>4. \A s \in Speakers : /\ UnderWay(s)' => UnderWay(s)
                            /\ UnderWay(s) => UnderWay(s)' \/ Settled'
    BY <2>1, <2>3, SilenceStep
  <2>5. TurnAlone' BY <1>t, <2>1, <2>2, <2>4, SilenceStep DEF SpeechInv, TurnAlone
  <2>6. AvatarComesBackUnlessOvertaken'
    <3>1. (turn.pc = "none" /\ \A s \in Speakers : ~UnderWay(s)) => Settled
      BY DEF AvatarComesBackUnlessOvertaken, UnderWay, Settled, AtEase
    <3>2. (turn'.pc = "none" /\ \A s \in Speakers : ~UnderWay(s)') => Settled'
      BY <2>1, <2>2, <2>4, <3>1
    <3>q. QED BY <3>2 DEF AvatarComesBackUnlessOvertaken, UnderWay, Settled, AtEase
  <2>q. QED BY <2>1, <2>5, <2>6, SilenceStep DEF SpeechInv
<1>6. ASSUME NEW k \in Ticks, ObserveArrives(k)
      PROVE  SpeechInv' /\ AvatarComesBackUnlessOvertaken'
  <2>1. /\ UNCHANGED <<turn, tts, speech>>
        /\ face' \in {ScheduleReturn("cue"), SetManualState("rest"), face}
    BY <1>6 DEF ObserveArrives
  <2>2. AtEase(SetManualState("rest")) BY DEF AtEase, SetManualState, Pose
  <2>3. Settled => Settled' BY <2>1, <2>2, EaseValues DEF Settled, AtEase
  <2>q. QED BY <2>1, <2>3, SameStep
<1>a. MayBeRead \subseteq BOOLEAN BY <1>t DEF MayBeRead, ShouldAttemptTts, TtsStates
<1>7. ASSUME NEW k \in Ticks, ProactiveArrives(k)
      PROVE  SpeechInv' /\ AvatarComesBackUnlessOvertaken'
  <2>1. AppendLine(k) BY <1>7 DEF ProactiveArrives
  <2>2. CASE SpeakLine(k, FALSE) /\ face' = Overtaken BY <2>1, <2>2, LineStep
  <2>3. ASSUME NEW speak \in BOOLEAN, SpeakLine(k, speak), face' = ScheduleReturn("cue")
        PROVE  SpeechInv' /\ AvatarComesBackUnlessOvertaken'
    <3>1. Settled' BY <2>3, EaseValues DEF Settled, AtEase
    <3>q. QED BY <2>1, <2>3, <3>1, LineStep
  <2>q. QED BY <1>7, <1>a, <2>2, <2>3 DEF ProactiveArrives
<1>8. ASSUME NEW k \in Ticks, MutterArrives(k)
      PROVE  SpeechInv' /\ AvatarComesBackUnlessOvertaken'
  <2>1. PICK speak \in BOOLEAN :
          SpeakLine(k, speak) /\ (~speak => face' = ScheduleReturn("cue"))
    BY <1>8, <1>a DEF MutterArrives
  <2>2. AppendLine(k) BY <1>8 DEF MutterArrives
  <2>3. speak \/ Settled' BY <2>1, EaseValues DEF Settled, AtEase
  <2>q. QED BY <2>1, <2>2, <2>3, LineStep
<1>q. QED BY <1>1, <1>2, <1>3, <1>4, <1>6, <1>7, <1>8

-----------------------------------------------------------------------------
(* The bubbles, and what is stored of a turn. *)

\* What the two invariants of the bubbles rest on, in one name.
ChatInv == BubblesInv /\ BubblesDistinctUnlessLate

LEMMA ChatKept ==
  ASSUME ChatInv, UNCHANGED <<chat, late>>,
         turn'.pc = "stream" => turn.pc = "stream" /\ turn'.bubble = turn.bubble
  PROVE  ChatInv'
BY DEF ChatInv, BubblesInv, BubblesDistinctUnlessLate, chat

LEMMA BubbleAdded ==
  ASSUME TypeOK, ChatInv, NEW id \in Nat, NEW of, nextId' \in Nat, late' = late,
         shown' = shown \cup {Bubble(id, of)}, id < nextId', nextId <= nextId',
         ~late => \A b \in shown : b.id # id,
         turn'.pc = "stream" => turn.pc = "stream" /\ turn'.bubble = turn.bubble
  PROVE  ChatInv'
<1>1. nextId \in Nat /\ shown \subseteq Bubbles BY ClientTypes
<1>2. \A b \in shown : b.id \in Nat BY <1>1 DEF Bubbles
<1>3. Bubble(id, of).id = id BY DEF Bubble
<1>4. ASSUME ~late PROVE \A b \in shown' : b.id < nextId'
  BY <1>1, <1>2, <1>3, <1>4 DEF ChatInv, BubblesInv
<1>5. ASSUME ~late PROVE \A a, b \in shown' : a.id = b.id => a = b
  BY <1>3, <1>5 DEF ChatInv, BubblesDistinctUnlessLate
<1>q. QED BY <1>4, <1>5 DEF ChatInv, BubblesInv, BubblesDistinctUnlessLate

\* An id the counter has not given out yet belongs to no bubble.
LEMMA NextIdFree ==
  ASSUME TypeOK, ChatInv
  PROVE  /\ nextId \in Nat /\ nextId < nextId + 1 /\ nextId + 1 \in Nat
         /\ ~late => \A b \in shown : b.id # nextId
<1>1. nextId \in Nat /\ shown \subseteq Bubbles BY ClientTypes
<1>2. \A b \in shown : b.id \in Nat BY <1>1 DEF Bubbles
<1>q. QED BY <1>1, <1>2 DEF ChatInv, BubblesInv

LEMMA SubmitBubbles ==
  ASSUME TypeOK, ChatInv, NEW withText \in BOOLEAN, Submit(withText) PROVE ChatInv'
<1> DEFINE bubble == IF withText THEN nextId + 1 ELSE nextId
<1>1. /\ shown' = shown \cup {Bubble(bubble, "reply")}
                        \cup (IF withText THEN {Bubble(nextId, "user")} ELSE {})
      /\ nextId' = bubble + 1 /\ late' = late
      /\ turn' = [NoTurn EXCEPT !.pc = "stream", !.current = TRUE, !.bubble = bubble,
                                !.server = "running"]
  BY DEF Submit
<1>2. nextId \in Nat /\ shown \subseteq Bubbles BY ClientTypes
<1>3. \A b \in shown : b.id \in Nat BY <1>2 DEF Bubbles
<1>4. bubble \in Nat /\ nextId <= bubble /\ (withText => nextId < bubble) BY <1>2
<1> HIDE DEF bubble
<1>5. turn'.bubble = bubble BY <1>1 DEF NoTurn
<1>6. Bubble(bubble, "reply").id = bubble /\ Bubble(nextId, "user").id = nextId BY DEF Bubble
<1>7. ASSUME ~late PROVE \A b \in shown : b.id < nextId BY <1>7 DEF ChatInv, BubblesInv
<1>8. ASSUME ~late PROVE \A b \in shown' : b.id < nextId'
  BY <1>1, <1>2, <1>3, <1>4, <1>6, <1>7, <1>8
<1>9. ASSUME ~late PROVE \A a, b \in shown' : a.id = b.id => a = b
  BY <1>1, <1>2, <1>3, <1>4, <1>6, <1>7, <1>9 DEF ChatInv, BubblesDistinctUnlessLate
<1>10. Bubble(turn'.bubble, "reply") \in shown' BY <1>1, <1>5
<1>q. QED BY <1>1, <1>8, <1>9, <1>10 DEF ChatInv, BubblesInv, BubblesDistinctUnlessLate

LEMMA HistoryBubbles == ASSUME TypeOK, ChatInv, HistoryArrives PROVE ChatInv'
<1>1. CASE UNCHANGED <<chat, late>> BY <1>1, ChatKept DEF HistoryArrives
<1>2. ASSUME NEW upTo \in OldRows .. rows,
             shown' = {Bubble(id, "history") : id \in 1 .. upTo}, nextId' = upTo + 1,
             late' = (shown # {} \/ turn.pc # "none")
      PROVE  ChatInv'
  <2>1. upTo \in Int BY <1>2
  <2>2. \A id \in 1 .. upTo : Bubble(id, "history").id = id BY DEF Bubble
  <2>3. \A b \in shown' : b.id \in 1 .. upTo /\ b = Bubble(b.id, "history") BY <1>2, <2>2
  <2>4. \A b \in shown' : b.id < nextId' BY <1>2, <2>1, <2>3
  <2>5. \A a, b \in shown' : a.id = b.id => a = b BY <2>3
  <2>6. ~late' => turn'.pc # "stream" BY <1>2 DEF HistoryArrives
  <2>q. QED BY <2>4, <2>5, <2>6 DEF ChatInv, BubblesInv, BubblesDistinctUnlessLate
<1>q. QED BY <1>1, <1>2 DEF HistoryArrives

\* The line of a tick whose id the chat has not got.
LEMMA LineBubbles ==
  ASSUME TypeOK, ChatInv, NEW k \in Ticks, AppendLine(k), late' = late
  PROVE  ChatInv'
<1> DEFINE row == ticks[k].row
<1>1. /\ shown' = IF Duplicate(k) THEN shown ELSE shown \cup {Bubble(row, k)}
      /\ nextId' = IF nextId > row THEN nextId ELSE row + 1
      /\ turn' = [turn EXCEPT !.current = FALSE]
  BY DEF AppendLine
<1>2. nextId \in Nat /\ shown \subseteq Bubbles /\ turn \in TurnStates /\ row \in Nat
  BY ClientTypes DEF TickStates
<1>3. ~Duplicate(k) => \A b \in shown : b.id # row BY DEF Duplicate
<1> HIDE DEF row
<1>4. nextId' \in Nat /\ nextId <= nextId' /\ row < nextId' BY <1>1, <1>2
<1>5. turn'.pc = turn.pc /\ turn'.bubble = turn.bubble BY <1>1, <1>2 DEF TurnStates
<1>6. CASE Duplicate(k)
  <2>1. \A b \in shown : b.id \in Nat BY <1>2 DEF Bubbles
  <2>q. QED BY <1>1, <1>2, <1>4, <1>5, <1>6, <2>1
            DEF ChatInv, BubblesInv, BubblesDistinctUnlessLate
<1>7. CASE ~Duplicate(k) BY <1>1, <1>2, <1>3, <1>4, <1>5, <1>7, BubbleAdded
<1>q. QED BY <1>6, <1>7

LEMMA ReplyTurn ==
  ASSUME TypeOK, NEW empty \in BOOLEAN, ReplyReady(empty)
  PROVE  turn' \in {NoTurn, [turn EXCEPT !.pc = "speaking"]} /\ turn'.pc # "stream"
<1>1. turn \in TurnStates BY ClientTypes
<1>2. turn' \in {NoTurn, [turn EXCEPT !.pc = "speaking"]} BY DEF ReplyReady
<1>q. QED BY <1>1, <1>2 DEF TurnStates, NoTurn

LEMMA ChatStep ==
  ASSUME TypeOK, SpeechInv, AvatarComesBackUnlessOvertaken, ChatInv, [Next]_vars PROVE ChatInv'
<1>t. turn \in TurnStates /\ shown \subseteq Bubbles BY ClientTypes
<1>n. NoTurn.pc = "none" BY DEF NoTurn
<1>0. CASE UNCHANGED vars BY <1>0, ChatKept DEF vars, user
<1>1. CASE HealthAnswers \/ TicksEffect \/ TimerFires \/ MoodPolled
             \/ RunEmptySubmitSequence \/ ToggleMuted
  BY <1>1, ChatKept
     DEF HealthAnswers, TicksEffect, TimerFires, MoodPolled, RunEmptySubmitSequence,
         ToggleMuted, user
<1>2. CASE HistoryArrives BY <1>2, HistoryBubbles
<1>3. CASE ClearChatView
  BY <1>3 DEF ClearChatView, ChatInv, BubblesInv, BubblesDistinctUnlessLate
<1>4. ASSUME NEW withText \in BOOLEAN, Submit(withText) PROVE ChatInv'
  BY <1>4, SubmitBubbles
<1>5. CASE OnDelta
  <2>1. UNCHANGED <<chat, late>> BY <1>5 DEF OnDelta, user
  <2>2. turn' = [turn EXCEPT !.talking = TRUE] BY <1>5 DEF OnDelta
  <2>q. QED BY <1>t, <2>1, <2>2, ChatKept DEF TurnStates
<1>6. CASE ServerStores
  <2>1. UNCHANGED <<chat, late>> BY <1>6 DEF ServerStores, user
  <2>2. turn' = [turn EXCEPT !.server = "stored", !.stored = @ + 1] BY <1>6 DEF ServerStores
  <2>q. QED BY <1>t, <2>1, <2>2, ChatKept DEF TurnStates
<1>7. CASE StreamDone
  <2>1. PICK empty \in BOOLEAN : ReplyReady(empty) BY <1>7 DEF StreamDone
  <2>2. ticks' = ticks /\ turn.pc = "stream" /\ UNCHANGED <<chat, late>>
    BY <1>7 DEF StreamDone, user
  <2>q. QED BY <2>1, <2>2, ReplyTurn, ChatKept
<1>8. CASE StreamFails
  <2>1. /\ shown' = {b \in shown : b.id # turn.bubble} /\ nextId' = nextId /\ late' = late
        /\ turn'.pc = "complete"
    BY <1>t, <1>8 DEF StreamFails, user, TurnStates
  <2>q. QED BY <2>1 DEF ChatInv, BubblesInv, BubblesDistinctUnlessLate
<1>9. CASE CompleteAnswers
  <2>1. PICK empty \in BOOLEAN :
          /\ ReplyReady(empty)
          /\ IF empty \/ ~turn.current THEN UNCHANGED chat
             ELSE shown' = shown \cup {Bubble(nextId, "reply")} /\ nextId' = nextId + 1
    BY <1>9 DEF CompleteAnswers
  <2>2. ticks' = ticks /\ turn.pc = "complete" /\ late' = late BY <1>9 DEF CompleteAnswers, user
  <2>3. turn'.pc # "stream" BY <2>1, <2>2, ReplyTurn
  <2>4. CASE UNCHANGED chat BY <2>2, <2>3, <2>4, ChatKept
  <2>5. CASE shown' = shown \cup {Bubble(nextId, "reply")} /\ nextId' = nextId + 1
    BY <2>2, <2>3, <2>5, NextIdFree, BubbleAdded
  <2>q. QED BY <2>1, <2>4, <2>5
<1>10. CASE CompleteFails
  <2>1. /\ shown' = shown \cup {Bubble(nextId, "error")} /\ nextId' = nextId + 1
        /\ late' = late /\ turn' = NoTurn
    BY <1>10 DEF CompleteFails, user
  <2>q. QED BY <1>n, <2>1, NextIdFree, BubbleAdded
<1>11. ASSUME NEW s \in Speakers,
              Evaluated(s) \/ StreamPlayed(s) \/ StreamUnplayable(s) \/ Aborted(s)
                \/ Synthesized(s) \/ ClipEnds(s)
       PROVE  ChatInv'
  <2>1. UNCHANGED <<chat, late>>
    BY <1>11 DEF Evaluated, StreamPlayed, StreamUnplayable, Aborted, Synthesized, ClipEnds, user
  <2>2. turn' \in {turn, NoTurn} BY <1>11, SpeakerStep
  <2>q. QED BY <1>n, <2>1, <2>2, ChatKept
<1>12. ASSUME NEW k \in Ticks, TickAsks(k) \/ ObserveArrives(k) PROVE ChatInv'
  BY <1>12, ChatKept DEF TickAsks, ObserveArrives, user
<1>13. ASSUME NEW k \in Ticks, ProactiveArrives(k) \/ MutterArrives(k) PROVE ChatInv'
  <2>1. AppendLine(k) /\ late' = late
    BY <1>13 DEF ProactiveArrives, MutterArrives, user
  <2>q. QED BY <2>1, LineBubbles
<1>q. QED BY <1>0, <1>1, <1>2, <1>3, <1>4, <1>5, <1>6, <1>7, <1>8, <1>9, <1>10, <1>11, <1>12,
             <1>13 DEF Next

LEMMA StoredStep ==
  ASSUME TypeOK, SpeechInv, AvatarComesBackUnlessOvertaken, StoredInv, [Next]_vars PROVE StoredInv'
<1>t. turn \in TurnStates BY ClientTypes
<1>k. ASSUME \/ turn' \in {turn, NoTurn, [turn EXCEPT !.talking = TRUE],
                           [turn EXCEPT !.current = FALSE], [turn EXCEPT !.pc = "speaking"]}
      PROVE  StoredInv'
  <2>1. CASE turn' = turn BY <2>1 DEF StoredInv
  <2>2. CASE turn' = NoTurn BY <2>2 DEF StoredInv, NoTurn
  <2>3. CASE turn' = [turn EXCEPT !.talking = TRUE] BY <1>t, <2>3 DEF StoredInv, TurnStates
  <2>4. CASE turn' = [turn EXCEPT !.current = FALSE] BY <1>t, <2>4 DEF StoredInv, TurnStates
  <2>5. CASE turn' = [turn EXCEPT !.pc = "speaking"] BY <1>t, <2>5 DEF StoredInv, TurnStates
  <2>q. QED BY <1>k, <2>1, <2>2, <2>3, <2>4, <2>5
<1>0. CASE UNCHANGED vars BY <1>0, <1>k DEF vars
<1>1. CASE HealthAnswers \/ TicksEffect \/ TimerFires \/ MoodPolled
             \/ RunEmptySubmitSequence \/ ToggleMuted
             \/ HistoryArrives \/ ClearChatView
  BY <1>1, <1>k DEF HealthAnswers, TicksEffect, TimerFires, MoodPolled, RunEmptySubmitSequence,
         ToggleMuted,
                    HistoryArrives, ClearChatView
<1>2. ASSUME NEW withText \in BOOLEAN, Submit(withText) PROVE StoredInv'
  <2>1. PICK bubble : turn' = [NoTurn EXCEPT !.pc = "stream", !.current = TRUE, !.bubble = bubble,
                                             !.server = "running"]
    BY <1>2 DEF Submit
  <2>q. QED BY <2>1 DEF NoTurn, StoredInv
<1>3. CASE OnDelta BY <1>3, <1>k DEF OnDelta
<1>4. CASE ServerStores
  <2>1. turn' = [turn EXCEPT !.server = "stored", !.stored = @ + 1] /\ turn.server = "running"
    BY <1>4 DEF ServerStores
  <2>2. /\ turn'.server = "stored" /\ turn'.stored = turn.stored + 1
        /\ turn'.cut = turn.cut /\ turn'.pc = turn.pc
    BY <1>t, <2>1 DEF TurnStates
  <2>q. QED BY <1>t, <2>1, <2>2 DEF StoredInv, TurnStates
<1>5. CASE StreamDone
  <2>1. PICK empty \in BOOLEAN : ReplyReady(empty) BY <1>5 DEF StreamDone
  <2>2. ticks' = ticks /\ turn.pc = "stream" BY <1>5 DEF StreamDone
  <2>q. QED BY <1>k, <2>1, <2>2, ReplyTurn
<1>6. CASE StreamFails
  <2>1. PICK committing \in BOOLEAN :
          /\ committing => turn.server = "running"
          /\ turn' = [turn EXCEPT !.pc = "complete", !.server = "running",
                                  !.cut = committing \/ turn.server = "stored",
                                  !.stored = IF committing THEN @ + 1 ELSE @]
    BY <1>6 DEF StreamFails
  <2>2. /\ turn'.pc = "complete" /\ turn'.cut = (committing \/ turn.server = "stored")
        /\ turn'.stored = IF committing THEN turn.stored + 1 ELSE turn.stored
    BY <1>t, <2>1 DEF TurnStates
  <2>3. ~turn.cut BY <1>6 DEF StreamFails, StoredInv
  <2>q. QED BY <2>2, <2>3 DEF StoredInv
<1>7. CASE CompleteAnswers
  <2>1. PICK empty \in BOOLEAN : ReplyReady(empty) BY <1>7 DEF CompleteAnswers
  <2>2. ticks' = ticks /\ turn.pc = "complete" BY <1>7 DEF CompleteAnswers
  <2>q. QED BY <1>k, <2>1, <2>2, ReplyTurn
<1>8. CASE CompleteFails BY <1>8, <1>k DEF CompleteFails
<1>9. ASSUME NEW s \in Speakers,
             Evaluated(s) \/ StreamPlayed(s) \/ StreamUnplayable(s) \/ Aborted(s)
               \/ Synthesized(s) \/ ClipEnds(s)
      PROVE  StoredInv'
  BY <1>9, <1>k, SpeakerStep
<1>10. ASSUME NEW k \in Ticks, TickAsks(k) \/ ObserveArrives(k) PROVE StoredInv'
  BY <1>10, <1>k DEF TickAsks, ObserveArrives
<1>11. ASSUME NEW k \in Ticks, ProactiveArrives(k) \/ MutterArrives(k) PROVE StoredInv'
  BY <1>11, <1>k DEF ProactiveArrives, MutterArrives, AppendLine
<1>q. QED BY <1>0, <1>1, <1>2, <1>3, <1>4, <1>5, <1>6, <1>7, <1>8, <1>9, <1>10, <1>11 DEF Next

LEMMA SpeechStep ==
  ASSUME TypeOK, SpeechInv, AvatarComesBackUnlessOvertaken, [Next]_vars
  PROVE  SpeechInv' /\ AvatarComesBackUnlessOvertaken'
<1>1. CASE UNCHANGED vars
  <2>1. UNCHANGED <<turn, face, tts, speech>> BY <1>1 DEF vars
  <2>2. Settled => Settled' BY <2>1 DEF Settled, AtEase
  <2>q. QED BY <2>1, <2>2, SameStep
<1>q. QED BY <1>1, SpeakerStep, TurnStep, OthersStep DEF Next

LEMMA ClientInvHolds == Spec => [](TypeOK /\ ClientInv)
<1>1. Init => TypeOK /\ ClientInv BY ClientStarts
<1>2. TypeOK /\ ClientInv /\ [Next]_vars => TypeOK' /\ ClientInv'
  <2>1. ASSUME TypeOK, ClientInv, [Next]_vars PROVE TypeOK' /\ SpeechInv' /\ AvatarComesBackUnlessOvertaken'
    BY <2>1, ClientTypeStep, SpeechStep DEF ClientInv
  <2>2. ASSUME TypeOK, ClientInv, [Next]_vars PROVE ChatInv' /\ StoredInv'
    BY <2>2, ChatStep, StoredStep DEF ClientInv, ChatInv
  <2>q. QED BY <2>1, <2>2 DEF ClientInv, ChatInv
<1>q. QED BY <1>1, <1>2, PTL DEF Spec

LEMMA ClientInSurfaces == SurfacesSpec => Spec
<1>1. SurfacesInit => Init BY DEF SurfacesInit
<1>2. [SurfacesNext]_surfaceVars => [Next]_vars
  BY DEF SurfacesNext, ChatMoves, ButtonMoves, PanelMoves, PipelineMoves, TagsMove, EarsMove,
         surfaceVars, browserVars
<1>q. QED BY <1>1, <1>2, PTL DEF SurfacesSpec, Spec

\* Every value the chat client keeps is one its hooks can hold.
THEOREM ClientTypeCorrect == Spec => []TypeOK
BY ClientInvHolds, PTL

\* Whatever the order of turns, lines, aborted speech and clicks, with nothing under
\* way the avatar rests or a timer of useAvatarState will make it rest, unless a line
\* that took no pose of its own has overtaken the one that was to be handed back.
THEOREM AvatarComesBackHolds == SurfacesSpec => []AvatarComesBackUnlessOvertaken
<1>1. ClientInv => AvatarComesBackUnlessOvertaken BY DEF ClientInv
<1>q. QED BY <1>1, ClientInSurfaces, ClientInvHolds, PTL

\* At most one call of speakReply can be heard, and it is of the playback session
\* that is on.
THEOREM OneVoiceHolds == SurfacesSpec => []OneVoice
<1>1. ClientInv => OneVoice BY DEF ClientInv, SpeechInv, OneFresh, OneVoice
<1>q. QED BY <1>1, ClientInSurfaces, ClientInvHolds, PTL

\* No two bubbles of the chat share an id, and the one a stream writes into is there,
\* unless the history came in over a chat that had already begun.
THEOREM BubblesDistinctHolds == SurfacesSpec => []BubblesDistinctUnlessLate
<1>1. ClientInv => BubblesDistinctUnlessLate BY DEF ClientInv
<1>q. QED BY <1>1, ClientInSurfaces, ClientInvHolds, PTL

\* The request behind the stream has a message stored a second time only when the
\* stream's own turn had been committed and its "done" did not arrive.
THEOREM StoredOnceUnlessCutHolds == SurfacesSpec => []StoredOnceUnlessCut
<1>1. ClientInv => StoredOnceUnlessCut BY DEF ClientInv, StoredInv, StoredOnceUnlessCut
<1>q. QED BY <1>1, ClientInSurfaces, ClientInvHolds, PTL

-----------------------------------------------------------------------------
(* The surfaces together *)

LEMMA PipelineInSurfaces == SurfacesSpec => PipeSpec
<1>1. SurfacesInit => PipeInit BY DEF SurfacesInit
<1>2. [SurfacesNext]_surfaceVars => [PipeNext]_pipeVars
  BY DEF SurfacesNext, ChatMoves, ButtonMoves, PanelMoves, PipelineMoves, TagsMove, EarsMove,
         surfaceVars, voiceVars
<1>q. QED BY <1>1, <1>2, PTL DEF SurfacesSpec, PipeSpec

\* The other components start with nothing to say.
LEMMA TagsStartInSurfaces == SurfacesInit => TagInv
<1>1. CASE TagInit BY <1>1, TagStarts
<1>2. CASE /\ text = <<>> /\ path = "stream" /\ taken = 0
           /\ buffer = <<>> /\ calls = <<>> /\ ended = "no"
  <2>1. <<>> \in Seq(Plain) OBVIOUS
  <2>2. text \in Seq(Plain) BY <1>2, <2>1, Zenon
  <2>q. QED BY <1>2, <2>2, NothingSent
<1>q. QED BY <1>1, <1>2 DEF SurfacesInit

LEMMA TagsInSurfaces == [SurfacesNext]_surfaceVars => [TagNext]_tagVars
BY DEF SurfacesNext, ChatMoves, ButtonMoves, PanelMoves, PipelineMoves, TagsMove, EarsMove,
       surfaceVars, voiceVars

\* Beside the other surfaces too, the tagger only adds.
THEOREM TagsOnlyAddHolds == SurfacesSpec => []TagsOnlyAdd
<1>1. SurfacesInit => TagInv BY TagsStartInSurfaces
<1>2. TagInv /\ [SurfacesNext]_surfaceVars => TagInv' BY TagStep, TagsInSurfaces
<1>3. TagInv => TagsOnlyAdd BY TagsEnough
<1>q. QED BY <1>1, <1>2, <1>3, PTL DEF SurfacesSpec

OnePart == part \in {"chat", "button", "panel", "pipeline", "tags", "ears"}

\* Every value a surface keeps is one its code can hold.
THEOREM SurfacesTypeCorrect == SurfacesSpec => []TypesOK
<1>1. SurfacesInit => OnePart BY DEF SurfacesInit, OnePart
<1>2. OnePart /\ [SurfacesNext]_surfaceVars => OnePart'
  BY DEF SurfacesNext, ChatMoves, ButtonMoves, PanelMoves, PipelineMoves, TagsMove, EarsMove,
         surfaceVars, OnePart
<1>3. PttTypeInv => PttTypeOK BY DEF PttTypeInv
<1>4. EarsTypeInv => EarsTypeOK BY DEF EarsTypeInv
<1>5. PipeTypes => PipeTypeOK BY PipeTypesEnough
<1>6. OnePart /\ TypeOK /\ PttTypeOK /\ SessionTypeOK /\ PipeTypeOK /\ EarsTypeOK => TypesOK
  BY DEF OnePart, TypesOK
<1>q. QED
  BY <1>1, <1>2, <1>3, <1>4, <1>5, <1>6, ClientInSurfaces, ClientInvHolds, ButtonInSurfaces,
     PttInvHolds, PanelInSurfaces, PanelInvHolds, PipelineInSurfaces, PipeHolds, EarsInSurfaces,
     EarsInvHolds, PTL
  DEF SurfacesSpec

=============================================================================
