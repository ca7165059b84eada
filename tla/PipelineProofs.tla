---------------------------- MODULE PipelineProofs ----------------------------
(***************************************************************************)
(* Theorems about the pipeline of the spoken companion: brain, tap, tagger *)
(* and synthesizer with the queues between them.  They are proved for any  *)
(* number of replies and of sentences in them, any number of interruptions *)
(* and of connections that break.                                          *)
(***************************************************************************)
EXTENDS VoicePipeline, SequenceTheorems, TLAPS

-----------------------------------------------------------------------------
(* Types *)

AnyFrames == [kind : {"start", "text", "end", "cut"}, turn : MaybeTurn, flag : BOOLEAN]
Bots      == [talking : BOOLEAN, enabled : BOOLEAN, bot : BOOLEAN, pending : BOOLEAN]
Brains    == [task : MaybeTurn, last : MaybeTurn, hint : MaybeTurn]
Tasks     == [pc : {"none", "created", "running", "done", "cancelled"},
              said : 0 .. MaxSentences, open : BOOLEAN, hint : MaybeTurn]
Taps      == [collecting : BOOLEAN, buffer : SUBSET Turns, shown : SUBSET SUBSET Turns]
Taggers   == [collecting : BOOLEAN, id : MaybeTurn, own : MaybeTurn, fragment : BOOLEAN,
              finishing : MaybeTurn, aborting : MaybeTurn, unwinding : SUBSET Turns]
Items     == [kind : {"sentence", "sentinel"}, turn : MaybeTurn, id : MaybeTurn, half : BOOLEAN]
Drains    == [live : BOOLEAN, queue : Seq(Items)]
Messages  == [of : Sentences, last : BOOLEAN]
Synths    == [reading : Sentences, unread : Seq(Messages)]
Sounds    == [asked : Sentences, heard : Sentences]
Cuts      == {"none", "brain", "tap", "tagger", "tts", "output"}
Counts    == [heard : 0 .. MaxReplies, cuts : 0 .. MaxCuts, breaks : 0 .. MaxBreaks]
Pasts     == [got : [Turns -> Nat], released : [Turns -> Nat], ended : SUBSET MaybeTurn,
              silenced : SUBSET Turns, lastOut : Sentences, strayAudio : BOOLEAN]

Has(queue, x) == \E i \in DOMAIN queue : queue[i] = x

\* The interruption is in the queue of the stage that handles it next.
CutInv ==
  /\ cut = "brain"  => Has(heard, None)
  /\ cut = "tap"    => Has(toTap, CutFrame)
  /\ cut = "tagger" => tagger.aborting # None \/ Has(toTagger, CutFrame)
  /\ cut = "tts"    => Has(toTts, NoSentence)

PipeTypes ==
  /\ speaker \in Bots /\ heard \in Seq(MaybeTurn) /\ brain \in Brains
  /\ turns \in [Turns -> Tasks]
  /\ toTap \in Seq(Frames) /\ toTagger \in Seq(Frames) /\ toTts \in Seq(Sentences)
  /\ tap \in Taps /\ tagger \in Taggers /\ drains \in [Turns -> Drains]
  /\ synth \in Synths /\ out \in Seq(Sounds) /\ cut \in Cuts /\ count \in Counts
  /\ past \in Pasts

LEMMA PipeTypesEnough == PipeTypes => PipeTypeOK
<1> SUFFICES ASSUME PipeTypes PROVE PipeTypeOK OBVIOUS
<1>1. \A t \in Turns : drains[t].live \in BOOLEAN BY DEF PipeTypes, Drains
<1>2. synth.reading \in Sentences BY DEF PipeTypes, Synths
<1>3. \A m \in ToSet(synth.unread) : m.of \in Sentences
  <2>1. synth.unread \in Seq(Messages) BY DEF PipeTypes, Synths
  <2>2. \A i \in DOMAIN synth.unread : synth.unread[i] \in Messages BY <2>1
  <2>q. QED BY <2>2 DEF ToSet, Messages
<1>q. QED BY <1>1, <1>2, <1>3
          DEF PipeTypes, PipeTypeOK, Bots, Brains, Tasks, Taps, Taggers, Cuts

-----------------------------------------------------------------------------
(* Queues *)

LEMMA QueueAdd ==
  ASSUME NEW S, NEW q \in Seq(S), NEW x \in S
  PROVE  /\ Append(q, x) \in Seq(S) /\ Len(Append(q, x)) = Len(q) + 1
         /\ DOMAIN Append(q, x) = 1 .. Len(q) + 1
         /\ Append(q, x)[Len(q) + 1] = x /\ Append(q, x) # <<>>
         /\ \A i \in 1 .. Len(q) : Append(q, x)[i] = q[i]
OBVIOUS

LEMMA QueueTake ==
  ASSUME NEW S, NEW q \in Seq(S), q # <<>>
  PROVE  /\ Head(q) = q[1] /\ Head(q) \in S /\ Tail(q) \in Seq(S) /\ 1 \in DOMAIN q
         /\ Len(q) \in Nat /\ Len(q) > 0 /\ Len(Tail(q)) = Len(q) - 1
         /\ DOMAIN Tail(q) = 1 .. Len(q) - 1
         /\ \A i \in 1 .. Len(q) - 1 : Tail(q)[i] = q[i + 1]
OBVIOUS

LEMMA QueueCut ==
  ASSUME NEW S, NEW q \in Seq(S), NEW x, Has(q, x)
  PROVE  /\ Behind(q, x) \in Seq(S)
         /\ \E k \in 1 .. Len(q) :
              /\ q[k] = x /\ Len(Behind(q, x)) = Len(q) - k
              /\ DOMAIN Behind(q, x) = 1 .. Len(q) - k
              /\ \A i \in 1 .. Len(q) - k : Behind(q, x)[i] = q[i + k]
<1> DEFINE k == CHOOSE i \in DOMAIN q : q[i] = x
<1>1. k \in DOMAIN q /\ q[k] = x BY DEF Has
<1>2. Behind(q, x) = SubSeq(q, 1 + k, Len(q)) BY DEF Behind
<1>3. DOMAIN q = 1 .. Len(q) /\ Len(q) \in Nat OBVIOUS
<1> HIDE DEF k
<1>4. k \in 1 .. Len(q) BY <1>1, <1>3
<1> DEFINE b == SubSeq(q, 1 + k, Len(q))
<1>5. /\ b \in Seq(S) /\ Len(b) = IF 1 + k <= Len(q) THEN Len(q) - (1 + k) + 1 ELSE 0
      /\ \A i \in 1 .. Len(q) - (1 + k) + 1 : b[i] = q[1 + k + i - 1]
  <2>1. \A i \in 1 + k .. Len(q) : q[i] \in S BY <1>3, <1>4
  <2>2. 1 + k \in Int /\ Len(q) \in Int BY <1>3, <1>4
  <2>q. QED BY <2>1, <2>2, SubSeqProperties
<1>6. Behind(q, x) = b BY <1>2
<1> HIDE DEF b
<1>n. Len(q) \in Nat OBVIOUS
<1>c. 1 + k <= Len(q) \/ k = Len(q) BY <1>4, <1>n
<1>7. Len(b) = Len(q) - k
  <2>1. CASE 1 + k <= Len(q)
    <3>1. Len(b) = Len(q) - (1 + k) + 1 BY <1>5, <2>1
    <3>2. Len(q) - (1 + k) + 1 = Len(q) - k BY <1>3, <1>4
    <3>q. QED BY <3>1, <3>2
  <2>2. CASE k = Len(q)
    <3>1. ~(1 + k <= Len(q)) /\ Len(q) - k = 0 BY <1>3, <2>2
    <3>q. QED BY <1>5, <3>1
  <2>q. QED BY <1>c, <2>1, <2>2
<1>8. DOMAIN b = 1 .. Len(q) - k BY <1>5, <1>7
<1>9. ASSUME NEW i \in 1 .. Len(q) - k PROVE b[i] = q[i + k]
  <2>1. 1 + k + i - 1 = i + k /\ i \in 1 .. Len(q) - (1 + k) + 1 BY <1>3, <1>4
  <2>q. QED BY <1>5, <2>1
<1>q. QED BY <1>1, <1>4, <1>5, <1>6, <1>7, <1>8, <1>9

\* What is in a queue stays there when something is added, or another thing taken.
LEMMA HasKept ==
  ASSUME NEW S, NEW q \in Seq(S), NEW x, Has(q, x)
  PROVE  /\ \A y \in S : Has(Append(q, y), x)
         /\ \A r \in Seq(S) : Has(q \o r, x)
         /\ Head(q) # x => Has(Tail(q), x)
<1>0. PICK k \in 1 .. Len(q) : q[k] = x BY DEF Has
<1>1. ASSUME NEW y \in S PROVE Has(Append(q, y), x)
  BY <1>0, QueueAdd DEF Has
<1>2. ASSUME NEW r \in Seq(S) PROVE Has(q \o r, x)
  <2>1. k \in DOMAIN (q \o r) /\ (q \o r)[k] = x BY <1>0
  <2>q. QED BY <2>1 DEF Has
<1>3. ASSUME Head(q) # x PROVE Has(Tail(q), x)
  <2>1. q # <<>> BY <1>0
  <2>2. k # 1 /\ k - 1 \in 1 .. Len(q) - 1 BY <1>0, <1>3, <2>1, QueueTake
  <2>3. Tail(q)[k - 1] = q[(k - 1) + 1] BY <2>1, <2>2, QueueTake
  <2>4. Tail(q)[k - 1] = x /\ k - 1 \in DOMAIN Tail(q) BY <1>0, <2>1, <2>2, <2>3, QueueTake
  <2>q. QED BY <2>4 DEF Has
<1>q. QED BY <1>1, <1>2, <1>3

LEMMA HasAdded ==
  ASSUME NEW S, NEW q \in Seq(S), NEW x \in S
  PROVE  Has(Append(q, x), x)
<1>1. Len(q) + 1 \in DOMAIN Append(q, x) BY QueueAdd
<1>q. QED BY <1>1, QueueAdd DEF Has

LEMMA FrameValues ==
  /\ \A t \in Turns : StartFrame(t) \in Frames
  /\ \A t \in Turns, b \in BOOLEAN : TextFrame(t, b) \in Frames /\ EndFrame(t, b) \in Frames
  /\ CutFrame \in Frames
  /\ \A f \in Frames : f # CutFrame => f.turn \in Turns /\ f.kind \in {"start", "text", "end"}
  /\ \A f \in Frames : f.kind \in {"start", "text", "end", "cut"} /\ f.flag \in BOOLEAN
  /\ \A f \in Frames : f.kind = "start" => f.turn \in Turns
  /\ CutFrame.kind = "cut"
<1>1. \A t \in Turns : StartFrame(t) \in Frames BY DEF Frames, StartFrame
<1>2. \A t \in Turns, b \in BOOLEAN : TextFrame(t, b) \in Frames /\ EndFrame(t, b) \in Frames
  BY DEF Frames, TextFrame, EndFrame
<1>3. CutFrame \in Frames BY DEF Frames
<1>4. \A f \in Frames : f # CutFrame => f.turn \in Turns /\ f.kind \in {"start", "text", "end"}
  BY DEF Frames
<1>5. CutFrame.kind = "cut" /\ CutFrame.flag \in BOOLEAN BY DEF CutFrame
<1>6. \A f \in Frames : f # CutFrame => f.flag \in BOOLEAN BY DEF Frames
<1>q. QED BY <1>1, <1>2, <1>3, <1>4, <1>5, <1>6

LEMMA SentenceValues ==
  /\ NoSentence \in Sentences
  /\ \A t \in Turns, n \in Nat, b \in BOOLEAN :
       [turn |-> t, n |-> n, half |-> b] \in Sentences /\ [turn |-> t, n |-> n, half |-> b] # NoSentence
  /\ \A s \in Sentences : s.turn \in MaybeTurn /\ s.n \in Nat
BY DEF Sentences, NoSentence, MaybeTurn, None, Turns

LEMMA PipeStarts == PipeInit => PipeTypes /\ CutInv
<1> SUFFICES ASSUME PipeInit PROVE PipeTypes /\ CutInv OBVIOUS
<1>1. 0 \in MaybeTurn /\ None \in MaybeTurn /\ NoSentence \in Sentences
  BY SentenceValues DEF MaybeTurn, None
<1>2. speaker \in Bots /\ heard \in Seq(MaybeTurn) /\ brain \in Brains
  BY <1>1 DEF PipeInit, Bots, Brains
<1>3. turns \in [Turns -> Tasks] BY <1>1, PipelineAssumption DEF PipeInit, Tasks
<1>4. toTap \in Seq(Frames) /\ toTagger \in Seq(Frames) /\ toTts \in Seq(Sentences)
  BY DEF PipeInit
<1>5. tap \in Taps /\ tagger \in Taggers BY <1>1 DEF PipeInit, Taps, Taggers
<1>6. drains \in [Turns -> Drains] BY DEF PipeInit, Drains
<1>7. synth \in Synths /\ out \in Seq(Sounds) /\ cut \in Cuts
  BY <1>1 DEF PipeInit, Synths, FreshSocket, Cuts
<1>8. count \in Counts BY PipelineAssumption DEF PipeInit, Counts
<1>9. past \in Pasts BY <1>1 DEF PipeInit, Pasts
<1>10. CutInv BY DEF PipeInit, CutInv
<1>q. QED BY <1>2, <1>3, <1>4, <1>5, <1>6, <1>7, <1>8, <1>9, <1>10 DEF PipeTypes

LEMMA MaybeTurns ==
  /\ None \in MaybeTurn /\ None \notin Turns /\ Turns \subseteq Nat
  /\ \A t \in MaybeTurn : t # None => t \in Turns
  /\ \A t \in Turns : t \in MaybeTurn
BY PipelineAssumption DEF MaybeTurn, None, Turns

LEMMA CancelledValues ==
  ASSUME PipeTypes
  PROVE  /\ \A tail \in BOOLEAN : CancelledEnd(brain.task, tail) \in Seq(Frames)
         /\ Cancelled \in [Turns -> Tasks]
<1>1. brain.task \in MaybeTurn /\ turns \in [Turns -> Tasks] BY DEF PipeTypes, Brains
<1>2. ASSUME NEW tail \in BOOLEAN PROVE CancelledEnd(brain.task, tail) \in Seq(Frames)
  <2> DEFINE t == brain.task
             e == EndFrame(t, FALSE)
             x == TextFrame(t, FALSE)
  <2>1. CASE t # None
    <3>1. t \in Turns BY <1>1, <2>1, MaybeTurns
    <3>2. e \in Frames /\ x \in Frames BY <3>1, FrameValues
    <3> HIDE DEF e, x
    <3>3. <<>> \o <<e>> \in Seq(Frames) /\ <<x>> \o <<e>> \in Seq(Frames) /\ <<>> \in Seq(Frames)
      BY <3>2
    <3>4. CancelledEnd(t, tail) \in {<<>> \o <<e>>, <<x>> \o <<e>>, <<>>}
      BY DEF CancelledEnd, e, x
    <3>q. QED BY <3>3, <3>4
  <2>2. CASE t = None BY <2>2 DEF CancelledEnd
  <2>q. QED BY <2>1, <2>2
<1>3. Cancelled \in [Turns -> Tasks]
  <2>1. CASE brain.task = None BY <1>1, <2>1 DEF Cancelled
  <2>2. CASE brain.task # None
    <3>1. brain.task \in Turns BY <1>1, <2>2, MaybeTurns
    <3>2. [turns[brain.task] EXCEPT !.pc = "cancelled"] \in Tasks BY <1>1, <3>1 DEF Tasks
    <3>3. Cancelled = [turns EXCEPT ![brain.task] = [turns[brain.task] EXCEPT !.pc = "cancelled"]]
      BY <1>1, <2>2, <3>1 DEF Cancelled, Tasks
    <3>q. QED BY <1>1, <3>1, <3>2, <3>3
  <2>q. QED BY <2>1, <2>2
<1>q. QED BY <1>2, <1>3

LEMMA DrainValues ==
  ASSUME PipeTypes
  PROVE  /\ \A t \in Turns : drains[t].queue \in Seq(Items) /\ drains[t].live \in BOOLEAN
         /\ Sentinel \in Items /\ Stopped \in Drains
         /\ \A half \in BOOLEAN : Scheduled(half) \in [Turns -> Drains]
         /\ Collected \in Pasts
<1>1. /\ drains \in [Turns -> Drains] /\ past \in Pasts /\ tagger \in Taggers
      /\ tagger.own \in MaybeTurn /\ tagger.id \in MaybeTurn
  BY DEF PipeTypes, Taggers
<1>2. \A t \in Turns : drains[t].queue \in Seq(Items) /\ drains[t].live \in BOOLEAN
  BY <1>1 DEF Drains
<1>3. Sentinel \in Items /\ Stopped \in Drains
  BY MaybeTurns DEF Sentinel, Items, Stopped, Drains, None
<1>4. ASSUME NEW half \in BOOLEAN PROVE Scheduled(half) \in [Turns -> Drains]
  <2> DEFINE item == [kind |-> "sentence", turn |-> tagger.own, id |-> tagger.id, half |-> half]
  <2>1. item \in Items BY <1>1 DEF Items
  <2>2. CASE tagger.own = None BY <1>1, <2>2 DEF Scheduled
  <2>3. CASE tagger.own # None
    <3>1. tagger.own \in Turns BY <1>1, <2>3, MaybeTurns
    <3>2. Scheduled(half) = [drains EXCEPT ![tagger.own].queue = Append(@, item)]
      BY <2>3 DEF Scheduled
    <3> HIDE DEF item
    <3>3. Append(drains[tagger.own].queue, item) \in Seq(Items) BY <1>2, <2>1, <3>1
    <3>q. QED BY <1>1, <3>1, <3>2, <3>3 DEF Drains
  <2>q. QED BY <2>2, <2>3
<1>5. Collected \in Pasts
  <2>1. CASE tagger.id = None BY <1>1, <2>1 DEF Collected
  <2>2. CASE tagger.id # None
    <3>0. tagger.id \in Turns /\ past.got \in [Turns -> Nat] BY <1>1, <2>2, MaybeTurns DEF Pasts
    <3>1. tagger.id \in Turns /\ past.got[tagger.id] + 1 \in Nat BY <3>0
    <3>2. Collected = [past EXCEPT !.got[tagger.id] = @ + 1] BY <2>2 DEF Collected
    <3>q. QED BY <1>1, <3>1, <3>2 DEF Pasts
  <2>q. QED BY <2>1, <2>2
<1>q. QED BY <1>2, <1>3, <1>4, <1>5

\* The speaker and the brain.
LEMMA BrainTyped ==
  ASSUME PipeTypes, CutInv,
         \/ UserStartsSpeaking \/ UserStopsSpeaking \/ BotReported \/ DebounceEnds \/ Hear
         \/ TakeTranscript \/ InterruptBrain
         \/ \E t \in Turns : \/ TurnStarts(t) \/ \E ends \in BOOLEAN : TurnSays(t, ends)
                             \/ \E truncated \in BOOLEAN : TurnEnds(t, truncated)
  PROVE  PipeTypes' /\ CutInv'
<1>t. /\ speaker \in Bots /\ heard \in Seq(MaybeTurn) /\ brain \in Brains /\ turns \in [Turns -> Tasks]
      /\ toTap \in Seq(Frames) /\ cut \in Cuts /\ count \in Counts
  BY DEF PipeTypes
<1>1. CASE UserStartsSpeaking
  <2>1. speaker' \in Bots BY <1>t, <1>1 DEF UserStartsSpeaking, Bots
  <2>q. QED BY <1>1, <2>1 DEF UserStartsSpeaking, sound, PipeTypes, CutInv
<1>2. CASE UserStopsSpeaking
  <2>1. speaker' \in Bots BY <1>t, <1>2 DEF UserStopsSpeaking, Bots
  <2>q. QED BY <1>2, <2>1 DEF UserStopsSpeaking, sound, PipeTypes, CutInv
<1>3. CASE BotReported
  <2>1. speaker' \in Bots BY <1>t, <1>3 DEF BotReported, Bots
  <2>q. QED BY <1>3, <2>1 DEF BotReported, sound, PipeTypes, CutInv
<1>4. CASE DebounceEnds
  <2>1. speaker' \in Bots /\ cut' = "brain" /\ cut' \in Cuts
    BY <1>t, <1>4 DEF DebounceEnds, Bots, Cuts
  <2>2. heard' \in Seq(MaybeTurn) /\ Has(heard', None)
    BY <1>t, <1>4, MaybeTurns, HasAdded DEF DebounceEnds
  <2>3. count' \in Counts BY <1>t, <1>4, PipelineAssumption DEF DebounceEnds, Counts
  <2>q. QED BY <1>4, <2>1, <2>2, <2>3 DEF DebounceEnds, sound, PipeTypes, CutInv
<1>5. CASE Hear
  <2>1. count.heard + 1 \in MaybeTurn
    BY <1>t, <1>5, PipelineAssumption DEF Hear, Counts, MaybeTurn, Turns
  <2>2. heard' \in Seq(MaybeTurn) /\ (Has(heard, None) => Has(heard', None))
    BY <1>t, <1>5, <2>1, HasKept DEF Hear
  <2>3. count' \in Counts BY <1>t, <1>5, PipelineAssumption DEF Hear, Counts
  <2>q. QED BY <1>5, <2>2, <2>3 DEF Hear, sound, PipeTypes, CutInv
<1>6. CASE TakeTranscript
  <2>1. heard # <<>> /\ Head(heard) # None /\ heard' = Tail(heard) BY <1>6 DEF TakeTranscript
  <2>2. /\ heard' \in Seq(MaybeTurn) /\ (Has(heard, None) => Has(heard', None)) /\ Head(heard) \in Turns
    BY <1>t, <2>1, HasKept, QueueTake, MaybeTurns
  <2>3. PICK tail \in BOOLEAN : toTap' = toTap \o CancelledEnd(brain.task, tail)
    BY <1>6 DEF TakeTranscript
  <2>4. toTap' \in Seq(Frames) /\ (Has(toTap, CutFrame) => Has(toTap', CutFrame))
    BY <1>t, <2>3, CancelledValues, HasKept, ConcatProperties
  <2>5. brain' \in Brains BY <1>t, <1>6, <2>2, MaybeTurns DEF TakeTranscript, Brains
  <2>6. turns' \in [Turns -> Tasks]
    <3>1. turns' = [Cancelled EXCEPT ![Head(heard)].pc = "created"] BY <1>6 DEF TakeTranscript
    <3>2. Cancelled \in [Turns -> Tasks] BY CancelledValues
    <3>q. QED BY <2>2, <3>1, <3>2 DEF Tasks
  <2>q. QED BY <1>6, <2>2, <2>4, <2>5, <2>6 DEF TakeTranscript, sound, input, PipeTypes, CutInv
<1>7. CASE InterruptBrain
  <2>1. heard' \in Seq(MaybeTurn) BY <1>t, <1>7, QueueCut DEF InterruptBrain, CutInv
  <2>2. PICK tail \in BOOLEAN : toTap' = Append(toTap \o CancelledEnd(brain.task, tail), CutFrame)
    BY <1>7 DEF InterruptBrain
  <2>3. toTap \o CancelledEnd(brain.task, tail) \in Seq(Frames)
    BY <1>t, CancelledValues, ConcatProperties
  <2>4. toTap' \in Seq(Frames) /\ Has(toTap', CutFrame)
    BY <2>2, <2>3, FrameValues, QueueAdd, HasAdded
  <2>5. brain' \in Brains BY <1>t, <1>7, MaybeTurns DEF InterruptBrain, Brains
  <2>6. turns' \in [Turns -> Tasks] BY <1>7, CancelledValues DEF InterruptBrain
  <2>7. cut' = "tap" /\ cut' \in Cuts BY <1>7 DEF InterruptBrain, Cuts
  <2>q. QED BY <1>7, <2>1, <2>4, <2>5, <2>6, <2>7 DEF InterruptBrain, sound, PipeTypes, CutInv
<1>8. ASSUME NEW t \in Turns, TurnStarts(t) PROVE PipeTypes' /\ CutInv'
  <2>1. turns' \in [Turns -> Tasks] /\ brain' \in Brains
    BY <1>t, <1>8, MaybeTurns DEF TurnStarts, Tasks, Brains
  <2>2. StartFrame(t) \in Frames BY FrameValues
  <2>3. toTap' \in Seq(Frames) /\ (Has(toTap, CutFrame) => Has(toTap', CutFrame))
    BY <1>t, <1>8, <2>2, HasKept, QueueAdd DEF TurnStarts
  <2>q. QED BY <1>8, <2>1, <2>3 DEF TurnStarts, sound, input, PipeTypes, CutInv
<1>9. ASSUME NEW t \in Turns, NEW ends \in BOOLEAN, TurnSays(t, ends) PROVE PipeTypes' /\ CutInv'
  <2>1. turns' \in [Turns -> Tasks]
    <3> DEFINE n == IF ends THEN turns[t].said + 1 ELSE turns[t].said
    <3>1. turns[t].said \in 0 .. MaxSentences /\ turns[t].said < MaxSentences
      BY <1>t, <1>9 DEF TurnSays, Tasks
    <3>2. n \in 0 .. MaxSentences BY <3>1, PipelineAssumption
    <3>3. turns' = [turns EXCEPT ![t].open = ~ends, ![t].said = n] BY <1>t, <1>9 DEF TurnSays
    <3> HIDE DEF n
    <3>q. QED BY <1>t, <3>2, <3>3 DEF Tasks
  <2>2. brain' \in Brains BY <1>t, <1>9, MaybeTurns DEF TurnSays, Brains
  <2>3. TextFrame(t, ends) \in Frames BY FrameValues
  <2>4. toTap' \in Seq(Frames) /\ (Has(toTap, CutFrame) => Has(toTap', CutFrame))
    BY <1>t, <1>9, <2>3, HasKept, QueueAdd DEF TurnSays
  <2>q. QED BY <1>9, <2>1, <2>2, <2>4 DEF TurnSays, sound, input, PipeTypes, CutInv
<1>10. ASSUME NEW t \in Turns, NEW truncated \in BOOLEAN, TurnEnds(t, truncated)
       PROVE  PipeTypes' /\ CutInv'
  <2>1. turns' \in [Turns -> Tasks] BY <1>t, <1>10 DEF TurnEnds, Tasks
  <2>2. brain' \in Brains BY <1>t, <1>10, MaybeTurns DEF TurnEnds, Brains
  <2>3. EndFrame(t, truncated) \in Frames BY FrameValues
  <2>4. toTap' \in Seq(Frames) /\ (Has(toTap, CutFrame) => Has(toTap', CutFrame))
    BY <1>t, <1>10, <2>3, HasKept, QueueAdd DEF TurnEnds
  <2>q. QED BY <1>10, <2>1, <2>2, <2>4 DEF TurnEnds, sound, input, PipeTypes, CutInv
<1>q. QED BY <1>1, <1>2, <1>3, <1>4, <1>5, <1>6, <1>7, <1>8, <1>9, <1>10

LEMMA TtsAdded ==
  ASSUME toTts \in Seq(Sentences), NEW s \in Sentences, toTts' \in {toTts, Append(toTts, s)}
  PROVE  toTts' \in Seq(Sentences) /\ (Has(toTts, NoSentence) => Has(toTts', NoSentence))
<1>1. CASE toTts' = toTts BY <1>1
<1>2. CASE toTts' = Append(toTts, s)
  <2>1. Append(toTts, s) \in Seq(Sentences) BY QueueAdd
  <2>2. Has(toTts, NoSentence) => Has(Append(toTts, s), NoSentence) BY HasKept
  <2>q. QED BY <1>2, <2>1, <2>2
<1>q. QED BY <1>1, <1>2

\* The tap and the tagger.
LEMMA TaggerTyped ==
  ASSUME PipeTypes, CutInv,
         \/ TapPasses \/ InterruptTap \/ TaggerTakes \/ FinishTurn \/ InterruptTagger \/ AbortDone
         \/ \E t \in Turns : Drain(t) \/ Unwind(t)
  PROVE  PipeTypes' /\ CutInv'
<1>t. /\ toTap \in Seq(Frames) /\ toTagger \in Seq(Frames) /\ toTts \in Seq(Sentences)
      /\ tap \in Taps /\ tagger \in Taggers /\ drains \in [Turns -> Drains] /\ past \in Pasts
      /\ cut \in Cuts
  BY DEF PipeTypes
<1>f. /\ tagger.own \in MaybeTurn /\ tagger.id \in MaybeTurn /\ tagger.finishing \in MaybeTurn
      /\ tagger.aborting \in MaybeTurn /\ tagger.collecting \in BOOLEAN
      /\ tagger.unwinding \in SUBSET Turns
  BY <1>t DEF Taggers
<1>p. /\ past.ended \in SUBSET MaybeTurn /\ past.silenced \in SUBSET Turns
      /\ past.released \in [Turns -> Nat] /\ past.got \in [Turns -> Nat]
  BY <1>t DEF Pasts
<1>n. NoSentence \in Sentences BY SentenceValues
<1>1. CASE TapPasses
  <2>1. /\ toTap # <<>> /\ Head(toTap) # CutFrame /\ toTap' = Tail(toTap)
        /\ toTagger' = Append(toTagger, Head(toTap))
    BY <1>1 DEF TapPasses
  <2>2. Head(toTap) \in Frames /\ Head(toTap).turn \in Turns BY <1>t, <2>1, QueueTake, FrameValues
  <2>3. /\ toTap' \in Seq(Frames) /\ toTagger' \in Seq(Frames)
        /\ (Has(toTap, CutFrame) => Has(toTap', CutFrame))
        /\ (Has(toTagger, CutFrame) => Has(toTagger', CutFrame))
    BY <1>t, <2>1, <2>2, QueueTake, QueueAdd, HasKept
  <2>4. tap' \in Taps
    <3> DEFINE f == Head(toTap)
    <3>1. \/ tap' = [tap EXCEPT !.collecting = TRUE, !.buffer = {}]
          \/ tap' = [tap EXCEPT !.buffer = @ \cup {f.turn}]
          \/ tap' = [collecting |-> FALSE, buffer |-> {},
                     shown |-> tap.shown \cup (IF tap.buffer = {} THEN {} ELSE {tap.buffer})]
          \/ tap' = tap
      BY <1>1 DEF TapPasses
    <3>2. f.turn \in Turns BY <2>2
    <3> HIDE DEF f
    <3>3. CASE tap' = [tap EXCEPT !.collecting = TRUE, !.buffer = {}] BY <1>t, <3>3 DEF Taps
    <3>4. CASE tap' = [tap EXCEPT !.buffer = @ \cup {f.turn}] BY <1>t, <3>2, <3>4 DEF Taps
    <3>5. CASE tap' = [collecting |-> FALSE, buffer |-> {},
                       shown |-> tap.shown \cup (IF tap.buffer = {} THEN {} ELSE {tap.buffer})]
      <4>1. tap.buffer \in SUBSET Turns /\ tap.shown \in SUBSET SUBSET Turns BY <1>t DEF Taps
      <4>2. tap.shown \cup (IF tap.buffer = {} THEN {} ELSE {tap.buffer}) \in SUBSET SUBSET Turns
        BY <4>1
      <4>q. QED BY <3>5, <4>2 DEF Taps
    <3>q. QED BY <1>t, <3>1, <3>3, <3>4, <3>5
  <2>q. QED BY <1>1, <2>3, <2>4 DEF TapPasses, sound, input, PipeTypes, CutInv
<1>2. CASE InterruptTap
  <2>1. cut = "tap" /\ cut' = "tagger" /\ toTap' = Behind(toTap, CutFrame)
        /\ toTagger' = Append(toTagger, CutFrame)
    BY <1>2 DEF InterruptTap
  <2>2. toTap' \in Seq(Frames) BY <1>t, <2>1, QueueCut DEF CutInv
  <2>3. toTagger' \in Seq(Frames) /\ Has(toTagger', CutFrame)
    BY <1>t, <2>1, FrameValues, QueueAdd, HasAdded
  <2>4. cut' \in Cuts BY <2>1 DEF Cuts
  <2>q. QED BY <1>2, <2>1, <2>2, <2>3, <2>4 DEF InterruptTap, sound, PipeTypes, CutInv
<1>3. CASE TaggerTakes
  <2> DEFINE f == Head(toTagger)
  <2>1. /\ toTagger # <<>> /\ f # CutFrame /\ toTagger' = Tail(toTagger)
        /\ UNCHANGED <<heard, brain, turns, toTap, tap, synth, out, speaker, count, cut>>
        /\ tagger.aborting = None
        /\ \/ f.kind = "start" /\ BeginTurn(f.turn)
           \/ CollectText(f) \/ CollectEnd(f) \/ PassOn(f)
    BY <1>3 DEF TaggerTakes, sound, input
  <2>2. f \in Frames /\ f.turn \in Turns /\ f.flag \in BOOLEAN BY <1>t, <2>1, QueueTake, FrameValues
  <2>3. toTagger' \in Seq(Frames) /\ (Has(toTagger, CutFrame) => Has(toTagger', CutFrame))
    BY <1>t, <2>1, QueueTake, HasKept
  <2> HIDE DEF f
  <2>4. CASE BeginTurn(f.turn)
    <3>1. tagger' \in Taggers /\ drains' \in [Turns -> Drains]
      <4>0. [live |-> TRUE, queue |-> <<>>] \in Drains BY DEF Drains
      <4>1. f.turn \in MaybeTurn /\ [live |-> TRUE, queue |-> <<>>] \in Drains
        BY <2>2, <4>0, MaybeTurns
      <4>2. tagger' \in Taggers BY <1>t, <2>4, <4>1 DEF BeginTurn, Taggers
      <4>3. drains' \in [Turns -> Drains] BY <1>t, <2>4, <4>1 DEF BeginTurn
      <4>q. QED BY <4>2, <4>3
    <3>2. tagger'.aborting = tagger.aborting BY <1>t, <2>4 DEF BeginTurn, Taggers
    <3>q. QED BY <2>1, <2>3, <2>4, <3>1, <3>2 DEF BeginTurn, PipeTypes, CutInv
  <2>5. CASE CollectText(f)
    <3>1. tagger' \in Taggers /\ tagger'.aborting = tagger.aborting
      BY <1>t, <2>2, <2>5 DEF CollectText, Taggers
    <3>2. drains' \in [Turns -> Drains] /\ past' \in Pasts
      BY <1>t, <2>5, DrainValues DEF CollectText
    <3>q. QED BY <2>1, <2>3, <2>5, <3>1, <3>2 DEF CollectText, PipeTypes, CutInv
  <2>6. CASE CollectEnd(f)
    <3> DEFINE tail == tagger.fragment /\ ~f.flag
               after == IF tail THEN Scheduled(TRUE) ELSE drains
               before == IF tail THEN Collected ELSE past
    <3>1. /\ tagger' = [tagger EXCEPT !.collecting = FALSE, !.fragment = FALSE,
                                      !.finishing = tagger.own]
          /\ drains' = IF tagger.own = None THEN after
                       ELSE [after EXCEPT ![tagger.own].queue = Append(@, Sentinel)]
          /\ past' = [before EXCEPT !.ended = IF tagger.own = None THEN @ \cup {tagger.id} ELSE @]
          /\ UNCHANGED toTts
      BY <2>6 DEF CollectEnd
    <3>2. after \in [Turns -> Drains] /\ before \in Pasts BY <1>t, DrainValues
    <3> HIDE DEF after, before
    <3>3. tagger' \in Taggers /\ tagger'.aborting = tagger.aborting BY <1>t, <1>f, <3>1 DEF Taggers
    <3>4. drains' \in [Turns -> Drains]
      <4>1. CASE tagger.own = None BY <3>1, <3>2, <4>1
      <4>2. CASE tagger.own # None
        <5>1. tagger.own \in Turns BY <1>f, <4>2, MaybeTurns
        <5>2. after[tagger.own].queue \in Seq(Items) BY <3>2, <5>1 DEF Drains
        <5>3. Append(after[tagger.own].queue, Sentinel) \in Seq(Items)
          BY <5>2, DrainValues, QueueAdd
        <5>4. drains' = [after EXCEPT ![tagger.own].queue = Append(@, Sentinel)] BY <3>1, <4>2
        <5>q. QED BY <3>2, <5>1, <5>3, <5>4 DEF Drains
      <4>q. QED BY <4>1, <4>2
    <3>5. past' \in Pasts BY <1>f, <3>1, <3>2 DEF Pasts
    <3>q. QED BY <2>1, <2>3, <3>1, <3>3, <3>4, <3>5 DEF PipeTypes, CutInv
  <2>7. CASE PassOn(f)
    <3> DEFINE s == [turn |-> f.turn, n |-> 0, half |-> FALSE]
    <3>1. toTts' \in {toTts, Append(toTts, s)} BY <2>7 DEF PassOn
    <3>2. s \in Sentences BY <2>2, SentenceValues
    <3> HIDE DEF s
    <3>3. toTts' \in Seq(Sentences) /\ (Has(toTts, NoSentence) => Has(toTts', NoSentence))
      BY <1>t, <3>1, <3>2, TtsAdded
    <3>q. QED BY <2>1, <2>3, <2>7, <3>3 DEF PassOn, PipeTypes, CutInv
  <2>q. QED BY <2>1, <2>4, <2>5, <2>6, <2>7
<1>4. CASE FinishTurn
  <2>1. tagger' \in Taggers /\ tagger'.aborting = tagger.aborting
    BY <1>t, <1>4, MaybeTurns DEF FinishTurn, Taggers
  <2>2. past' \in Pasts BY <1>t, <1>f, <1>4 DEF FinishTurn, Pasts
  <2>q. QED BY <1>4, <2>1, <2>2 DEF FinishTurn, sound, input, PipeTypes, CutInv
<1>5. CASE InterruptTagger
  <2>1. toTagger' \in Seq(Frames) BY <1>t, <1>5, QueueCut DEF InterruptTagger, CutInv
  <2>2. tagger' \in Taggers /\ tagger'.aborting = tagger.own
    <3> DEFINE u == IF tagger.finishing = None THEN tagger.unwinding
                    ELSE tagger.unwinding \cup {tagger.finishing}
    <3>1. tagger' = [tagger EXCEPT
            !.collecting = FALSE, !.id = None, !.fragment = FALSE, !.finishing = None,
            !.unwinding = u, !.aborting = tagger.own]
      BY <1>5 DEF InterruptTagger
    <3>2. u \in SUBSET Turns BY <1>f, MaybeTurns
    <3> HIDE DEF u
    <3>q. QED BY <1>t, <1>f, <3>1, <3>2, MaybeTurns DEF Taggers
  <2>3. drains' \in [Turns -> Drains]
    BY <1>t, <1>5, DrainValues DEF InterruptTagger
  <2>4. past' \in Pasts
    <3> DEFINE u == past.silenced \cup {t \in Turns : drains[t].live}
    <3>1. past' = [past EXCEPT !.silenced = u] BY <1>5 DEF InterruptTagger
    <3>2. u \in SUBSET Turns BY <1>p
    <3> HIDE DEF u
    <3>q. QED BY <1>t, <3>1, <3>2 DEF Pasts
  <2>5. \/ /\ tagger.own = None /\ cut' = "tts" /\ toTts' = Append(toTts, NoSentence)
        \/ /\ tagger.own # None /\ cut = "tagger" /\ UNCHANGED <<cut, toTts>>
    BY <1>5 DEF InterruptTagger
  <2>6. /\ toTts' \in Seq(Sentences) /\ cut' \in Cuts
        /\ cut' = "tagger" => tagger.own # None
        /\ cut' = "tts" => Has(toTts', NoSentence)
        /\ cut' \in {"tts", "tagger"}
    <3>1. CASE cut' = "tts" /\ toTts' = Append(toTts, NoSentence)
      <4>1. toTts' \in Seq(Sentences) /\ Has(toTts', NoSentence)
        BY <1>t, <1>n, <3>1, QueueAdd, HasAdded
      <4>q. QED BY <3>1, <4>1 DEF Cuts
    <3>2. CASE tagger.own # None /\ cut = "tagger" /\ cut' = cut /\ toTts' = toTts
      BY <1>t, <3>2 DEF Cuts
    <3>q. QED BY <2>5, <3>1, <3>2
  <2>q. QED BY <1>5, <2>1, <2>2, <2>3, <2>4, <2>6 DEF InterruptTagger, sound, PipeTypes, CutInv
<1>6. CASE AbortDone
  <2>1. tagger' \in Taggers BY <1>t, <1>6, MaybeTurns DEF AbortDone, Taggers
  <2>2. cut' = "tts" /\ cut' \in Cuts /\ toTts' \in Seq(Sentences) /\ Has(toTts', NoSentence)
    BY <1>t, <1>n, <1>6, QueueAdd, HasAdded DEF AbortDone, Cuts
  <2>q. QED BY <1>6, <2>1, <2>2 DEF AbortDone, sound, PipeTypes, CutInv
<1>7. ASSUME NEW t \in Turns, Drain(t) PROVE PipeTypes' /\ CutInv'
  <2> DEFINE item == Head(drains[t].queue)
             rest == [live |-> item # Sentinel, queue |-> Tail(drains[t].queue)]
             s    == [turn |-> t, n |-> past.released[t] + 1, half |-> item.half]
  <2>1. /\ drains[t].queue # <<>> /\ drains' = [drains EXCEPT ![t] = rest]
        /\ \/ toTts' = Append(toTts, s)
              /\ past' = [past EXCEPT !.released[t] = @ + 1, !.lastOut = s]
           \/ UNCHANGED <<toTts, past>>
    BY <1>7 DEF Drain
  <2>2. item \in Items /\ Tail(drains[t].queue) \in Seq(Items) BY <2>1, DrainValues, QueueTake
  <2>3. rest \in Drains BY <2>2 DEF Drains
  <2>4. past.released[t] + 1 \in Nat /\ item.half \in BOOLEAN BY <1>p, <2>2 DEF Items
  <2>5. s \in Sentences BY <2>4, SentenceValues
  <2> HIDE DEF rest, s
  <2>6. drains' \in [Turns -> Drains] BY <1>t, <2>1, <2>3
  <2>7. toTts' \in Seq(Sentences) /\ (Has(toTts, NoSentence) => Has(toTts', NoSentence))
    <3>1. toTts' \in {toTts, Append(toTts, s)} BY <2>1
    <3>q. QED BY <1>t, <2>5, <3>1, TtsAdded
  <2>8. past' \in Pasts
    <3>1. CASE past' = past BY <1>t, <3>1
    <3>2. CASE past' = [past EXCEPT !.released[t] = @ + 1, !.lastOut = s]
      BY <1>t, <1>p, <2>4, <2>5, <3>2 DEF Pasts
    <3>q. QED BY <2>1, <3>1, <3>2
  <2>q. QED BY <1>7, <2>6, <2>7, <2>8 DEF Drain, sound, input, PipeTypes, CutInv
<1>8. ASSUME NEW t \in Turns, Unwind(t) PROVE PipeTypes' /\ CutInv'
  <2>1. tagger' \in Taggers /\ tagger'.aborting = tagger.aborting
    BY <1>t, <1>8, MaybeTurns DEF Unwind, Taggers
  <2>q. QED BY <1>8, <2>1 DEF Unwind, sound, input, PipeTypes, CutInv
<1>q. QED BY <1>1, <1>2, <1>3, <1>4, <1>5, <1>6, <1>7, <1>8

\* The synthesizer and the output.
LEMMA SynthTyped ==
  ASSUME PipeTypes, CutInv,
         RunTts \/ SocketBreaks \/ ReadSocket \/ InterruptTts \/ Play \/ InterruptOutput
  PROVE  PipeTypes' /\ CutInv'
<1>t. /\ toTts \in Seq(Sentences) /\ synth \in Synths /\ out \in Seq(Sounds) /\ count \in Counts
      /\ past \in Pasts
  BY DEF PipeTypes
<1>u. synth.unread \in Seq(Messages) /\ synth.reading \in Sentences BY <1>t DEF Synths
<1>n. NoSentence \in Sentences BY SentenceValues
<1>1. CASE RunTts
  <2> DEFINE s == Head(toTts)
             sent == <<[of |-> s, last |-> FALSE], [of |-> s, last |-> TRUE]>>
  <2>1. /\ toTts # <<>> /\ s # NoSentence /\ toTts' = Tail(toTts)
        /\ synth' = [reading |-> s, unread |-> synth.unread \o sent]
    BY <1>1 DEF RunTts
  <2>2. s \in Sentences /\ toTts' \in Seq(Sentences)
        /\ (Has(toTts, NoSentence) => Has(toTts', NoSentence))
    BY <1>t, <2>1, QueueTake, HasKept
  <2> HIDE DEF s
  <2>3. sent \in Seq(Messages) BY <2>2 DEF Messages
  <2> HIDE DEF sent
  <2>4. synth.unread \o sent \in Seq(Messages) BY <1>u, <2>3, ConcatProperties
  <2>5. synth' \in Synths BY <2>1, <2>2, <2>4 DEF Synths
  <2>q. QED BY <1>1, <2>2, <2>5 DEF RunTts, input, PipeTypes, CutInv
<1>2. CASE SocketBreaks
  <2>1. synth' \in Synths BY <1>n, <1>2 DEF SocketBreaks, Synths, FreshSocket
  <2>2. count' \in Counts BY <1>t, <1>2, PipelineAssumption DEF SocketBreaks, Counts
  <2>q. QED BY <1>2, <2>1, <2>2 DEF SocketBreaks, PipeTypes, CutInv
<1>3. CASE ReadSocket
  <2> DEFINE m == Head(synth.unread)
             a == [asked |-> synth.reading, heard |-> m.of]
  <2>1. /\ synth.unread # <<>>
        /\ synth' = [reading |-> IF m.last THEN NoSentence ELSE synth.reading,
                     unread |-> Tail(synth.unread)]
        /\ out' \in {out, Append(out, a)}
    BY <1>3 DEF ReadSocket
  <2>2. m \in Messages /\ Tail(synth.unread) \in Seq(Messages) BY <1>u, <2>1, QueueTake
  <2>3. a \in Sounds BY <1>u, <2>2 DEF Messages, Sounds
  <2> HIDE DEF m, a
  <2>4. synth' \in Synths BY <1>u, <1>n, <2>1, <2>2 DEF Synths
  <2>5. out' \in Seq(Sounds) BY <1>t, <2>1, <2>3, QueueAdd
  <2>q. QED BY <1>3, <2>4, <2>5 DEF ReadSocket, input, PipeTypes, CutInv
<1>4. CASE InterruptTts
  <2>1. toTts' \in Seq(Sentences) BY <1>t, <1>4, QueueCut DEF InterruptTts, CutInv
  <2>2. synth' \in Synths BY <1>t, <1>n, <1>4 DEF InterruptTts, Synths
  <2>3. past' \in Pasts BY <1>t, <1>4 DEF InterruptTts, Pasts
  <2>4. cut' = "output" /\ cut' \in Cuts BY <1>4 DEF InterruptTts, Cuts
  <2>q. QED BY <1>4, <2>1, <2>2, <2>3, <2>4 DEF InterruptTts, PipeTypes, CutInv
<1>5. CASE Play
  <2>1. out' \in Seq(Sounds) BY <1>t, <1>5, QueueTake DEF Play
  <2>q. QED BY <1>5, <2>1 DEF Play, input, PipeTypes, CutInv
<1>6. CASE InterruptOutput
  <2>1. out' \in Seq(Sounds) /\ cut' \in Cuts /\ cut' = "none" BY <1>6 DEF InterruptOutput, Cuts
  <2>q. QED BY <1>6, <2>1 DEF InterruptOutput, PipeTypes, CutInv
<1>q. QED BY <1>1, <1>2, <1>3, <1>4, <1>5, <1>6

LEMMA PipeTypeStep == ASSUME PipeTypes, CutInv, [PipeNext]_pipeVars PROVE PipeTypes' /\ CutInv'
<1>1. CASE UNCHANGED pipeVars BY <1>1 DEF pipeVars, PipeTypes, CutInv
<1>q. QED BY <1>1, BrainTyped, TaggerTyped, SynthTyped DEF PipeNext

-----------------------------------------------------------------------------
(* The audio of a sentence *)

\* Unless an interruption left messages on the socket, what is unread is of the
\* sentence being read, up to its last message.
ReadInv ==
  ~past.strayAudio =>
    /\ \A i \in DOMAIN out : out[i].asked = out[i].heard
    /\ \A i \in DOMAIN synth.unread :
         /\ synth.unread[i].of = synth.reading
         /\ synth.unread[i].last => i = Len(synth.unread)
    /\ synth.reading = NoSentence => synth.unread = <<>>

\* The stages before the synthesizer leave the audio alone.
LEMMA SoundKept ==
  ASSUME PipeTypes,
         \/ UserStartsSpeaking \/ UserStopsSpeaking \/ BotReported \/ DebounceEnds \/ Hear
         \/ TakeTranscript \/ InterruptBrain
         \/ TapPasses \/ InterruptTap \/ TaggerTakes \/ FinishTurn \/ InterruptTagger \/ AbortDone
         \/ \E t \in Turns : \/ TurnStarts(t) \/ \E ends \in BOOLEAN : TurnSays(t, ends)
                             \/ \E truncated \in BOOLEAN : TurnEnds(t, truncated)
                             \/ Drain(t) \/ Unwind(t)
  PROVE  UNCHANGED sound /\ past'.strayAudio = past.strayAudio
<1>t. past \in Pasts BY DEF PipeTypes
<1>1. CASE TaggerTakes
  <2>0. UNCHANGED sound BY <1>1 DEF TaggerTakes
  <2> DEFINE f == Head(toTagger)
  <2>1. BeginTurn(f.turn) \/ CollectText(f) \/ CollectEnd(f) \/ PassOn(f) BY <1>1 DEF TaggerTakes
  <2> HIDE DEF f
  <2>2. Collected \in Pasts /\ Collected.strayAudio = past.strayAudio
    BY <1>t, DrainValues DEF Collected, Pasts
  <2>3. CASE BeginTurn(f.turn) \/ CollectText(f) \/ PassOn(f)
    BY <2>0, <2>2, <2>3 DEF BeginTurn, CollectText, PassOn
  <2>4. CASE CollectEnd(f)
    <3> DEFINE before == IF tagger.fragment /\ ~f.flag THEN Collected ELSE past
    <3>1. past' = [before EXCEPT !.ended = IF tagger.own = None THEN @ \cup {tagger.id} ELSE @]
      BY <2>4 DEF CollectEnd
    <3>2. before \in Pasts /\ before.strayAudio = past.strayAudio BY <1>t, <2>2
    <3> HIDE DEF before
    <3>q. QED BY <2>0, <3>1, <3>2 DEF Pasts
  <2>q. QED BY <2>1, <2>3, <2>4
<1>2. ASSUME NEW t \in Turns, Drain(t) PROVE UNCHANGED sound /\ past'.strayAudio = past.strayAudio
  BY <1>t, <1>2 DEF Drain, Pasts
<1>3. CASE FinishTurn \/ InterruptTagger
  BY <1>t, <1>3 DEF FinishTurn, InterruptTagger, Pasts
<1>q. QED BY <1>1, <1>2, <1>3
  DEF UserStartsSpeaking, UserStopsSpeaking, BotReported, DebounceEnds, Hear, TakeTranscript,
      InterruptBrain, TapPasses, InterruptTap, AbortDone, TurnStarts, TurnSays, TurnEnds, Unwind

LEMMA ReadStep == ASSUME PipeTypes, ReadInv, [PipeNext]_pipeVars PROVE ReadInv'
<1>t. synth \in Synths /\ out \in Seq(Sounds) /\ past \in Pasts BY DEF PipeTypes
<1>u. synth.unread \in Seq(Messages) /\ synth.reading \in Sentences BY <1>t DEF Synths
<1>k. ASSUME UNCHANGED sound, past'.strayAudio = past.strayAudio PROVE ReadInv'
  BY <1>k DEF ReadInv, sound
<1>1. CASE RunTts
  <2> DEFINE s == Head(toTts)
             one == [of |-> s, last |-> FALSE]
             two == [of |-> s, last |-> TRUE]
  <2>1. /\ synth.reading = NoSentence /\ UNCHANGED <<out, past>> /\ s # NoSentence
        /\ synth' = [reading |-> s, unread |-> synth.unread \o <<one, two>>]
    BY <1>1 DEF RunTts
  <2> SUFFICES ASSUME ~past.strayAudio PROVE ReadInv' BY <2>1 DEF ReadInv
  <2>2. synth.unread = <<>> BY <2>1 DEF ReadInv
  <2>3. one.of = s /\ ~one.last /\ two.of = s OBVIOUS
  <2> HIDE DEF s, one, two
  <2>4. synth'.reading = s /\ synth'.unread = <<one, two>> BY <2>1, <2>2
  <2>5. \A i \in DOMAIN synth'.unread :
          /\ synth'.unread[i].of = s
          /\ synth'.unread[i].last => i = Len(synth'.unread)
    BY <2>3, <2>4
  <2>q. QED BY <2>1, <2>4, <2>5 DEF ReadInv
<1>2. CASE SocketBreaks
  BY <1>2 DEF SocketBreaks, FreshSocket, ReadInv
<1>3. CASE ReadSocket
  <2> DEFINE m == Head(synth.unread)
             a == [asked |-> synth.reading, heard |-> m.of]
  <2>1. /\ synth.unread # <<>> /\ UNCHANGED past
        /\ synth' = [reading |-> IF m.last THEN NoSentence ELSE synth.reading,
                     unread |-> Tail(synth.unread)]
        /\ out' = IF m.last THEN out ELSE Append(out, a)
    BY <1>3 DEF ReadSocket, input
  <2> SUFFICES ASSUME ~past.strayAudio PROVE ReadInv' BY <2>1 DEF ReadInv
  <2>2. m = synth.unread[1] /\ 1 \in DOMAIN synth.unread /\ m \in Messages BY <1>u, <2>1, QueueTake
  <2>3. m.of = synth.reading BY <2>2 DEF ReadInv
  <2>4. a \in Sounds /\ a.asked = a.heard BY <1>u, <2>3 DEF Sounds
  <2>5. m.last => 1 = Len(synth.unread) BY <2>2 DEF ReadInv
  <2> HIDE DEF m, a
  <2>6. \A i \in DOMAIN out' : out'[i].asked = out'[i].heard
    <3>1. \A i \in DOMAIN out : out[i].asked = out[i].heard BY DEF ReadInv
    <3>2. CASE out' = out BY <3>1, <3>2
    <3>3. CASE out' = Append(out, a)
      <4>1. \A i \in 1 .. Len(out) + 1 : i \in 1 .. Len(out) \/ i = Len(out) + 1 BY <1>t
      <4>q. QED BY <1>t, <2>4, <3>1, <3>3, <4>1, QueueAdd
    <3>q. QED BY <2>1, <3>2, <3>3
  <2>7. Len(synth.unread) \in Nat BY <1>u
  <2>8. CASE m.last
    <3>1. Tail(synth.unread) = <<>> BY <1>u, <2>1, <2>5, <2>8, QueueTake
    <3>q. QED BY <2>1, <2>6, <2>8, <3>1 DEF ReadInv
  <2>9. CASE ~m.last
    <3>1. synth'.reading = synth.reading /\ synth'.unread = Tail(synth.unread) BY <2>1, <2>9
    <3>2. synth.reading # NoSentence BY <1>3 DEF ReadSocket
    <3>3. ASSUME NEW i \in DOMAIN synth'.unread
          PROVE  /\ synth'.unread[i].of = synth.reading
                 /\ synth'.unread[i].last => i = Len(synth'.unread)
      <4>1. /\ i \in 1 .. Len(synth.unread) - 1 /\ synth'.unread[i] = synth.unread[i + 1]
            /\ Len(synth'.unread) = Len(synth.unread) - 1
        BY <1>u, <2>1, <3>1, <3>3, QueueTake
      <4>2. i + 1 \in DOMAIN synth.unread /\ i + 1 \in Int /\ i \in Int BY <1>u, <2>7, <4>1
      <4>3. synth.unread[i + 1].last => i + 1 = Len(synth.unread) BY <4>2 DEF ReadInv
      <4>4. synth.unread[i + 1].of = synth.reading BY <4>2 DEF ReadInv
      <4>q. QED BY <2>7, <4>1, <4>2, <4>3, <4>4
    <3>q. QED BY <2>6, <3>1, <3>2, <3>3 DEF ReadInv
  <2>q. QED BY <2>8, <2>9
<1>4. CASE InterruptTts
  <2>1. /\ past'.strayAudio = (past.strayAudio \/ synth.unread # <<>>) /\ out' = out
        /\ synth'.reading = NoSentence /\ synth'.unread = synth.unread
    BY <1>t, <1>4 DEF InterruptTts, Pasts, Synths
  <2> SUFFICES ASSUME ~past'.strayAudio PROVE ReadInv' BY DEF ReadInv
  <2>2. ~past.strayAudio /\ synth.unread = <<>> BY <2>1
  <2>3. synth'.unread = <<>> BY <2>1, <2>2
  <2>4. \A i \in DOMAIN out : out[i].asked = out[i].heard BY <2>2 DEF ReadInv
  <2>5. DOMAIN synth'.unread = {} BY <2>3
  <2>q. QED BY <2>1, <2>3, <2>4, <2>5 DEF ReadInv
<1>5. CASE Play
  <2>1. out # <<>> /\ out' = Tail(out) /\ UNCHANGED <<synth, past>> BY <1>5 DEF Play
  <2>2. \A i \in DOMAIN out' : i + 1 \in DOMAIN out /\ out'[i] = out[i + 1]
    BY <1>t, <2>1, QueueTake
  <2>q. QED BY <2>1, <2>2 DEF ReadInv
<1>6. CASE InterruptOutput BY <1>6 DEF InterruptOutput, ReadInv
<1>7. CASE UNCHANGED pipeVars BY <1>k, <1>7 DEF pipeVars, sound
<1>q. QED BY <1>1, <1>2, <1>3, <1>4, <1>5, <1>6, <1>7, <1>k, SoundKept DEF PipeNext

LEMMA PipeHolds == PipeSpec => [](PipeTypes /\ CutInv /\ ReadInv)
<1>1. PipeInit => PipeTypes /\ CutInv /\ ReadInv
  <2>1. PipeInit => ReadInv BY DEF PipeInit, ReadInv, FreshSocket
  <2>q. QED BY <2>1, PipeStarts
<1>2. PipeTypes /\ CutInv /\ ReadInv /\ [PipeNext]_pipeVars => (PipeTypes /\ CutInv /\ ReadInv)'
  BY PipeTypeStep, ReadStep
<1>q. QED BY <1>1, <1>2, PTL DEF PipeSpec

\* Every value the stages keep is one the code can hold.
THEOREM PipeTypeCorrect == PipeSpec => []PipeTypeOK
<1>1. PipeTypes /\ CutInv /\ ReadInv => PipeTypeOK BY PipeTypesEnough
<1>q. QED BY <1>1, PipeHolds, PTL

\* Unless an interruption left messages on the socket, what is played for a
\* sentence is the audio of that sentence.
THEOREM AudioIsOwnHolds == PipeSpec => []AudioIsOwnUnlessCut
<1>1. PipeTypes /\ CutInv /\ ReadInv => AudioIsOwnUnlessCut
  <2> SUFFICES ASSUME PipeTypes, ReadInv, ~past.strayAudio PROVE AudioIsOwn
    BY DEF AudioIsOwnUnlessCut
  <2>1. \A i \in DOMAIN out : out[i].asked = out[i].heard BY DEF ReadInv
  <2>q. QED BY <2>1 DEF AudioIsOwn, ToSet
<1>q. QED BY <1>1, PipeHolds, PTL

-----------------------------------------------------------------------------
(* Replies, one after the other *)

Closing == {"end", "cut"}

\* The starts of replies in a queue, whether the reply at its end is over, and the
\* order they come in.
StartsIn(queue) == {t \in Turns : \E i \in DOMAIN queue : queue[i].kind = "start" /\ queue[i].turn = t}

Over(queue, before) == IF queue = <<>> THEN before ELSE queue[Len(queue)].kind \in Closing

Flow(queue, before) ==
  /\ \A i, j \in DOMAIN queue :
       i < j /\ queue[i].kind = "start" /\ queue[j].kind = "start" => queue[i].turn < queue[j].turn
  /\ \A i \in DOMAIN queue :
       queue[i].kind = "start" => IF i = 1 THEN before ELSE queue[i - 1].kind \in Closing

Started(t) == turns[t].pc \notin {"none", "created"}

\* Replies begin in the order of what was heard.
HeardInv ==
  /\ \A i \in DOMAIN heard : heard[i] <= count.heard
  /\ \A i, j \in DOMAIN heard : i < j /\ heard[i] # None /\ heard[j] # None => heard[i] < heard[j]
  /\ \A i \in DOMAIN heard : heard[i] # None =>
       \A t \in Turns : turns[t].pc # "none" => t < heard[i]
  /\ \A t \in Turns : turns[t].pc # "none" => t <= count.heard
  /\ \A t \in Turns : turns[t].pc \in {"created", "running"} <=> brain.task = t
  /\ \A t, u \in Turns : turns[t].pc = "created" /\ Started(u) => u < t

\* Their frames come down the queues in that order too, none inside another.
OrderInv ==
  /\ Flow(toTagger, ~tagger.collecting)
  /\ Flow(toTap, Over(toTagger, ~tagger.collecting))
  /\ \/ \E t \in Turns : turns[t].pc = "running"
     \/ Over(toTap, Over(toTagger, ~tagger.collecting))
  /\ \A t \in StartsIn(toTagger), u \in StartsIn(toTap) : t < u
  /\ \A t \in StartsIn(toTagger) \cup StartsIn(toTap) : Started(t)

\* What the tagger has seen of a reply.
Touched(t) ==
  \/ t \in past.silenced \/ t \in past.ended \/ t \in tagger.unwinding
  \/ t = tagger.own \/ t = tagger.id \/ t = tagger.finishing \/ t = tagger.aborting
  \/ t = past.lastOut.turn
  \/ drains[t].live \/ past.got[t] # 0 \/ past.released[t] # 0

\* A reply that is still to begin at the tagger is later than those that have.
NewInv ==
  \A t \in Turns : Touched(t) =>
    Started(t) /\ \A u \in StartsIn(toTagger) \cup StartsIn(toTap) : t < u

TaggerInv ==
  /\ tagger.collecting => /\ tagger.own = tagger.id /\ tagger.id # None
                          /\ tagger.finishing = None /\ tagger.aborting = None
                          /\ drains[tagger.own].live
  /\ tagger.finishing # None => /\ tagger.own = tagger.finishing /\ tagger.id = tagger.finishing
                                /\ ~tagger.collecting /\ tagger.aborting = None
  /\ tagger.aborting # None => /\ tagger.own \in {tagger.aborting, None} /\ cut = "tagger"
                               /\ ~drains[tagger.aborting].live
  /\ tagger.own # None =>
       tagger.collecting \/ tagger.finishing = tagger.own \/ tagger.aborting = tagger.own
  /\ \A t \in tagger.unwinding : tagger.own = t => tagger.aborting = t
  /\ \A t \in Turns : drains[t].live =>
       tagger.own = t /\ (tagger.collecting \/ tagger.finishing = t)
  /\ None \notin past.ended

\* What the drain task of a reply has still to release: sentences of that reply, and
\* the mark behind them once it has ended.
ToRelease(t) == IF tagger.finishing = t THEN Len(drains[t].queue) - 1 ELSE Len(drains[t].queue)

ReplyKept(t) ==
  /\ drains[t].live =>
       /\ \A i \in DOMAIN drains[t].queue :
            i <= ToRelease(t) => drains[t].queue[i] # Sentinel /\ drains[t].queue[i].id = t
       /\ tagger.finishing = t =>
            /\ drains[t].queue # <<>>
            /\ drains[t].queue[Len(drains[t].queue)] = Sentinel
       /\ past.got[t] = past.released[t] + ToRelease(t)
       /\ past.lastOut.turn <= t /\ t \notin past.silenced /\ t \notin past.ended
  /\ ~drains[t].live /\ t \notin past.silenced => past.got[t] = past.released[t]

QueueInv == \A t \in Turns : ReplyKept(t)

SpokenInv == past.lastOut.turn # None => past.lastOut.n = past.released[past.lastOut.turn]

-----------------------------------------------------------------------------
LEMMA OverValues == ASSUME NEW q, NEW before \in BOOLEAN PROVE Over(q, before) \in BOOLEAN
<1>1. CASE q = <<>> BY <1>1 DEF Over
<1>2. CASE q # <<>> /\ q[Len(q)].kind \in Closing
  <2>1. Over(q, before) = TRUE BY <1>2 DEF Over
  <2>q. QED BY <2>1
<1>3. CASE q # <<>> /\ q[Len(q)].kind \notin Closing
  <2>1. Over(q, before) = FALSE BY <1>3 DEF Over
  <2>q. QED BY <2>1
<1>q. QED BY <1>1, <1>2, <1>3

LEMMA TwoAdded ==
  ASSUME NEW S, NEW q \in Seq(S), NEW x \in S, NEW e \in S
  PROVE  q \o (<<x>> \o <<e>>) = Append(Append(q, x), e)
OBVIOUS

LEMMA FlowAdd ==
  ASSUME NEW q \in Seq(Frames), NEW before \in BOOLEAN, NEW f \in Frames, Flow(q, before),
         f.kind = "start" => Over(q, before) /\ \A t \in StartsIn(q) : t < f.turn
  PROVE  /\ Flow(Append(q, f), before)
         /\ \A b : Over(Append(q, f), b) = (f.kind \in Closing)
         /\ \A t \in StartsIn(Append(q, f)) : t \in StartsIn(q) \/ (f.kind = "start" /\ t = f.turn)
<1> DEFINE r == Append(q, f)
<1>n. Len(q) \in Nat /\ DOMAIN q = 1 .. Len(q) OBVIOUS
<1>1. /\ r \in Seq(Frames) /\ Len(r) = Len(q) + 1 /\ DOMAIN r = 1 .. Len(q) + 1
      /\ r[Len(q) + 1] = f /\ r # <<>> /\ \A i \in 1 .. Len(q) : r[i] = q[i]
  BY QueueAdd
<1> HIDE DEF r
<1>2. \A i \in DOMAIN r : i \in 1 .. Len(q) \/ i = Len(q) + 1 BY <1>n, <1>1
<1>3. \A i \in 1 .. Len(q) : q[i] \in Frames /\ (q[i].kind = "start" => q[i].turn \in StartsIn(q))
  <2>1. \A i \in 1 .. Len(q) : q[i] \in Frames OBVIOUS
  <2>q. QED BY <1>n, <2>1, FrameValues DEF StartsIn
<1>4. ASSUME NEW i \in DOMAIN r, NEW j \in DOMAIN r, i < j, r[i].kind = "start", r[j].kind = "start"
      PROVE  r[i].turn < r[j].turn
  <2>1. i \in 1 .. Len(q) BY <1>n, <1>1, <1>4
  <2>2. r[i] = q[i] /\ q[i].turn \in StartsIn(q) BY <1>1, <1>3, <1>4, <2>1
  <2>3. CASE j \in 1 .. Len(q)
    BY <1>n, <1>1, <1>4, <2>1, <2>2, <2>3 DEF Flow
  <2>4. CASE j = Len(q) + 1 BY <1>1, <1>4, <2>2, <2>4
  <2>q. QED BY <1>2, <2>3, <2>4
<1>5. ASSUME NEW i \in DOMAIN r, r[i].kind = "start"
      PROVE  IF i = 1 THEN before ELSE r[i - 1].kind \in Closing
  <2>1. CASE i \in 1 .. Len(q)
    <3>1. IF i = 1 THEN before ELSE q[i - 1].kind \in Closing BY <1>n, <1>1, <1>5, <2>1 DEF Flow
    <3>2. i # 1 => i - 1 \in 1 .. Len(q) BY <1>n, <2>1
    <3>q. QED BY <1>1, <3>1, <3>2
  <2>2. CASE i = Len(q) + 1
    <3>1. Over(q, before) BY <1>1, <1>5, <2>2
    <3>2. CASE q = <<>> BY <2>2, <3>1, <3>2 DEF Over
    <3>3. CASE q # <<>>
      <4>1. Len(q) \in 1 .. Len(q) /\ i - 1 = Len(q) /\ i # 1 BY <1>n, <2>2, <3>3
      <4>2. q[Len(q)].kind \in Closing BY <3>1, <3>3 DEF Over
      <4>q. QED BY <1>1, <4>1, <4>2
    <3>q. QED BY <3>2, <3>3
  <2>q. QED BY <1>2, <2>1, <2>2
<1>6. Flow(r, before) BY <1>4, <1>5 DEF Flow
<1>7. \A b : Over(r, b) = (f.kind \in Closing) BY <1>1 DEF Over
<1>8. ASSUME NEW t \in StartsIn(r) PROVE t \in StartsIn(q) \/ (f.kind = "start" /\ t = f.turn)
  <2>1. PICK i \in DOMAIN r : r[i].kind = "start" /\ r[i].turn = t BY DEF StartsIn
  <2>2. CASE i \in 1 .. Len(q)
    <3>1. r[i] = q[i] /\ (q[i].kind = "start" => q[i].turn \in StartsIn(q)) BY <1>1, <1>3, <2>2
    <3>q. QED BY <2>1, <3>1
  <2>3. CASE i = Len(q) + 1 BY <1>1, <2>1, <2>3
  <2>q. QED BY <1>2, <2>2, <2>3
<1>q. QED BY <1>6, <1>7, <1>8 DEF r

LEMMA FlowTake ==
  ASSUME NEW q \in Seq(Frames), NEW before \in BOOLEAN, Flow(q, before), q # <<>>
  PROVE  /\ Flow(Tail(q), Head(q).kind \in Closing)
         /\ Over(Tail(q), Head(q).kind \in Closing) = Over(q, before)
         /\ StartsIn(Tail(q)) \subseteq StartsIn(q)
         /\ Head(q).kind = "start" => /\ before /\ Head(q).turn \in StartsIn(q)
                                      /\ \A t \in StartsIn(Tail(q)) : Head(q).turn < t
<1> DEFINE r == Tail(q)
<1>1. /\ Head(q) = q[1] /\ Head(q) \in Frames /\ r \in Seq(Frames) /\ 1 \in DOMAIN q
      /\ Len(q) \in Nat /\ Len(q) > 0 /\ Len(r) = Len(q) - 1
      /\ DOMAIN r = 1 .. Len(q) - 1
      /\ \A i \in 1 .. Len(q) - 1 : r[i] = q[i + 1]
  BY QueueTake
<1>d. DOMAIN q = 1 .. Len(q) OBVIOUS
<1> HIDE DEF r
<1>2. \A i \in DOMAIN r : i \in Int /\ i >= 1 /\ i + 1 \in DOMAIN q /\ r[i] = q[i + 1] BY <1>d, <1>1
<1>3. ASSUME NEW i \in DOMAIN r, NEW j \in DOMAIN r, i < j, r[i].kind = "start", r[j].kind = "start"
      PROVE  r[i].turn < r[j].turn
  <2>1. /\ i + 1 \in DOMAIN q /\ j + 1 \in DOMAIN q /\ r[i] = q[i + 1] /\ r[j] = q[j + 1]
        /\ i + 1 < j + 1
    BY <1>2, <1>3
  <2>q. QED BY <1>3, <2>1 DEF Flow
<1>4. ASSUME NEW i \in DOMAIN r, r[i].kind = "start"
      PROVE  IF i = 1 THEN Head(q).kind \in Closing ELSE r[i - 1].kind \in Closing
  <2>1. q[(i + 1) - 1].kind \in Closing
    <3>1. i + 1 \in DOMAIN q /\ q[i + 1].kind = "start" /\ i + 1 # 1 BY <1>2, <1>4
    <3>q. QED BY <3>1 DEF Flow
  <2>2. (i + 1) - 1 = i BY <1>2
  <2>3. i # 1 => i - 1 \in DOMAIN r /\ (i - 1) + 1 = i BY <1>1, <1>2
  <2>q. QED BY <1>1, <1>2, <2>1, <2>2, <2>3
<1>5. Flow(r, Head(q).kind \in Closing) BY <1>3, <1>4 DEF Flow
<1>6. Over(r, Head(q).kind \in Closing) = Over(q, before)
  <2>1. CASE r = <<>>
    <3>1. Len(q) = 1 BY <1>1, <2>1
    <3>q. QED BY <1>1, <2>1, <3>1 DEF Over
  <2>2. CASE r # <<>>
    <3>1. Len(r) \in DOMAIN r BY <1>1, <2>2
    <3>2. r[Len(r)] = q[Len(r) + 1] /\ Len(r) + 1 = Len(q) BY <1>1, <1>2, <3>1
    <3>q. QED BY <2>2, <3>2 DEF Over
  <2>q. QED BY <2>1, <2>2
<1>7. StartsIn(r) \subseteq StartsIn(q) BY <1>2 DEF StartsIn
<1>8. ASSUME Head(q).kind = "start"
      PROVE  /\ before /\ Head(q).turn \in StartsIn(q) /\ \A t \in StartsIn(r) : Head(q).turn < t
  <2>1. before BY <1>1, <1>8 DEF Flow
  <2>2. Head(q).turn \in StartsIn(q) BY <1>1, <1>8, FrameValues DEF StartsIn
  <2>3. ASSUME NEW t \in StartsIn(r) PROVE Head(q).turn < t
    <3>1. PICK i \in DOMAIN r : r[i].kind = "start" /\ r[i].turn = t BY DEF StartsIn
    <3>2. i + 1 \in DOMAIN q /\ q[i + 1].kind = "start" /\ q[i + 1].turn = t /\ 1 < i + 1
      BY <1>2, <3>1
    <3>q. QED BY <1>1, <1>8, <3>2 DEF Flow
  <2>q. QED BY <2>1, <2>2, <2>3
<1>q. QED BY <1>5, <1>6, <1>7, <1>8 DEF r

LEMMA FlowCut ==
  ASSUME NEW q \in Seq(Frames), NEW before \in BOOLEAN, Flow(q, before), Has(q, CutFrame)
  PROVE  /\ Flow(Behind(q, CutFrame), TRUE)
         /\ Over(Behind(q, CutFrame), TRUE) = Over(q, before)
         /\ StartsIn(Behind(q, CutFrame)) \subseteq StartsIn(q)
<1> DEFINE r == Behind(q, CutFrame)
<1>1. r \in Seq(Frames) BY QueueCut
<1>2. PICK k \in 1 .. Len(q) :
        /\ q[k] = CutFrame /\ Len(r) = Len(q) - k /\ DOMAIN r = 1 .. Len(q) - k
        /\ \A i \in 1 .. Len(q) - k : r[i] = q[i + k]
  BY QueueCut
<1> HIDE DEF r
<1>n. Len(q) \in Nat /\ DOMAIN q = 1 .. Len(q) /\ k \in Nat /\ k >= 1 OBVIOUS
<1>3. \A i \in DOMAIN r : i \in Int /\ i >= 1 /\ i + k \in DOMAIN q /\ r[i] = q[i + k] BY <1>n, <1>2
<1>4. ASSUME NEW i \in DOMAIN r, NEW j \in DOMAIN r, i < j, r[i].kind = "start", r[j].kind = "start"
      PROVE  r[i].turn < r[j].turn
  <2>1. /\ i + k \in DOMAIN q /\ j + k \in DOMAIN q /\ r[i] = q[i + k] /\ r[j] = q[j + k]
        /\ i + k < j + k
    BY <1>n, <1>3, <1>4
  <2>q. QED BY <1>4, <2>1 DEF Flow
<1>5. ASSUME NEW i \in DOMAIN r, r[i].kind = "start"
      PROVE  IF i = 1 THEN TRUE ELSE r[i - 1].kind \in Closing
  <2> SUFFICES ASSUME i # 1 PROVE r[i - 1].kind \in Closing OBVIOUS
  <2>1. i - 1 \in DOMAIN r /\ (i - 1) + k = (i + k) - 1 /\ i + k # 1 BY <1>n, <1>2, <1>3
  <2>2. q[(i + k) - 1].kind \in Closing BY <1>3, <1>5, <2>1 DEF Flow
  <2>q. QED BY <1>3, <2>1, <2>2
<1>6. Flow(r, TRUE) BY <1>4, <1>5 DEF Flow
<1>7. Over(r, TRUE) = Over(q, before)
  <2>0. q # <<>> BY <1>2
  <2>1. CASE r = <<>>
    <3>1. Len(q) - k = 0 /\ k \in Int /\ Len(q) \in Int BY <1>2, <2>1
    <3>2. q[k].kind \in Closing /\ k = Len(q) BY <1>2, <3>1, FrameValues DEF Closing
    <3>q. QED BY <2>0, <2>1, <3>2 DEF Over
  <2>2. CASE r # <<>>
    <3>1. Len(r) \in DOMAIN r
      <4>1. Len(r) \in Nat /\ Len(r) # 0 BY <1>1, <2>2
      <4>q. QED BY <1>2, <1>n, <4>1
    <3>2. r[Len(r)] = q[Len(r) + k] /\ Len(r) + k = Len(q) BY <1>n, <1>2, <1>3, <3>1
    <3>q. QED BY <2>0, <2>2, <3>2 DEF Over
  <2>q. QED BY <2>1, <2>2
<1>8. StartsIn(r) \subseteq StartsIn(q) BY <1>3 DEF StartsIn
<1>q. QED BY <1>6, <1>7, <1>8 DEF r

LEMMA FlowEases ==
  ASSUME NEW q \in Seq(Frames), NEW before \in BOOLEAN, NEW b \in BOOLEAN, before => b
  PROVE  (Flow(q, before) => Flow(q, b)) /\ (Over(q, before) => Over(q, b))
<1>1. Over(q, before) => Over(q, b) BY DEF Over
<1>2. Flow(q, before) => Flow(q, b) BY DEF Flow
<1>q. QED BY <1>1, <1>2

-----------------------------------------------------------------------------
(* What was heard *)

LEMMA CancelledTurns ==
  ASSUME PipeTypes
  PROVE  \A t \in Turns : Cancelled[t].pc = IF t = brain.task THEN "cancelled" ELSE turns[t].pc
<1>1. turns \in [Turns -> Tasks] /\ brain.task \in MaybeTurn BY DEF PipeTypes, Brains
<1>2. CASE brain.task = None BY <1>2, MaybeTurns DEF Cancelled
<1>3. CASE brain.task # None
  <2>1. brain.task \in Turns BY <1>1, <1>3, MaybeTurns
  <2>2. Cancelled = [turns EXCEPT ![brain.task].pc = "cancelled"] BY <1>3 DEF Cancelled
  <2>q. QED BY <1>1, <2>1, <2>2 DEF Tasks
<1>q. QED BY <1>2, <1>3

\* What is heard waits in order, and none of it has begun.
WaitInv ==
  /\ \A i \in DOMAIN heard : heard[i] <= count.heard
  /\ \A i, j \in DOMAIN heard : i < j /\ heard[i] # None /\ heard[j] # None => heard[i] < heard[j]

Unbegun ==
  \A i \in DOMAIN heard : heard[i] # None => \A t \in Turns : turns[t].pc # "none" => t < heard[i]

LEMMA WaitCut ==
  ASSUME WaitInv, Unbegun, heard \in Seq(MaybeTurn), NEW k \in 1 .. Len(heard),
         DOMAIN heard' = 1 .. Len(heard) - k,
         \A i \in 1 .. Len(heard) - k : heard'[i] = heard[i + k], count'.heard = count.heard
  PROVE  /\ WaitInv'
         /\ \A i \in DOMAIN heard' : heard'[i] # None =>
              \A t \in Turns : turns[t].pc # "none" => t < heard'[i]
         /\ heard[k] # None => \A i \in DOMAIN heard' : heard'[i] # None => heard[k] < heard'[i]
<1>n. Len(heard) \in Nat /\ DOMAIN heard = 1 .. Len(heard) OBVIOUS
<1>1. \A i \in DOMAIN heard' : /\ i \in Int /\ k < i + k /\ i + k \in DOMAIN heard
                               /\ heard'[i] = heard[i + k]
  BY <1>n
<1>2. k \in DOMAIN heard OBVIOUS
<1>3. \A i \in DOMAIN heard' : heard'[i] <= count'.heard BY <1>1 DEF WaitInv
<1>4. ASSUME NEW i \in DOMAIN heard', NEW j \in DOMAIN heard', i < j, heard'[i] # None, heard'[j] # None
      PROVE  heard'[i] < heard'[j]
  <2>1. i + k < j + k BY <1>1, <1>4
  <2>q. QED BY <1>1, <1>4, <2>1 DEF WaitInv
<1>5. \A i \in DOMAIN heard' : heard'[i] # None => \A t \in Turns : turns[t].pc # "none" => t < heard'[i]
  BY <1>1 DEF Unbegun
<1>6. heard[k] # None => \A i \in DOMAIN heard' : heard'[i] # None => heard[k] < heard'[i]
  BY <1>1, <1>2 DEF WaitInv
<1>q. QED BY <1>3, <1>4, <1>5, <1>6 DEF WaitInv

LEMMA HeardStep == ASSUME PipeTypes, CutInv, HeardInv, [PipeNext]_pipeVars PROVE HeardInv'
<1>t. /\ heard \in Seq(MaybeTurn) /\ turns \in [Turns -> Tasks] /\ brain \in Brains
      /\ count \in Counts /\ count.heard \in Nat /\ Len(heard) \in Nat
  BY PipelineAssumption DEF PipeTypes, Counts
<1>w. WaitInv /\ Unbegun BY DEF HeardInv, WaitInv, Unbegun
<1>h. /\ \A t \in Turns : turns[t].pc # "none" => t <= count.heard
      /\ \A t \in Turns : turns[t].pc \in {"created", "running"} <=> brain.task = t
      /\ \A t, u \in Turns : turns[t].pc = "created" /\ Started(u) => u < t
  BY DEF HeardInv
<1>n. /\ \A t \in MaybeTurn : t \in Nat
      /\ \A t \in Turns : t \in Nat /\ t # None
  BY PipelineAssumption DEF MaybeTurn, Turns, None
<1>k. ASSUME UNCHANGED <<heard, count>>, brain'.task = brain.task,
             \A t \in Turns : turns'[t].pc = turns[t].pc
      PROVE  HeardInv'
  BY <1>k, <1>w, <1>h DEF HeardInv, Started, WaitInv, Unbegun
<1>a. ASSUME NEW x \in MaybeTurn, heard' = Append(heard, x), count'.heard \in Nat,
             count'.heard >= count.heard,
             x = None \/ (x = count'.heard /\ count'.heard = count.heard + 1), UNCHANGED <<brain, turns>>
      PROVE  HeardInv'
  <2>1. /\ DOMAIN heard' = 1 .. Len(heard) + 1 /\ heard'[Len(heard) + 1] = x
        /\ \A i \in 1 .. Len(heard) : heard'[i] = heard[i] /\ heard[i] \in Nat
    <3>1. \A i \in 1 .. Len(heard) : heard[i] \in MaybeTurn BY <1>t
    <3>q. QED BY <1>t, <1>a, <1>n, <3>1, QueueAdd
  <2>2. \A i \in DOMAIN heard' : \/ i \in 1 .. Len(heard) /\ i \in DOMAIN heard /\ i <= Len(heard)
                                 \/ i = Len(heard) + 1
    BY <1>t, <2>1
  <2>3. x <= count'.heard BY <1>a, <1>n DEF None
  <2>4. \A i \in DOMAIN heard' : heard'[i] <= count'.heard
    BY <1>t, <1>w, <1>a, <2>1, <2>2, <2>3 DEF WaitInv
  <2>5. ASSUME NEW i \in DOMAIN heard', NEW j \in DOMAIN heard', i < j, heard'[i] # None, heard'[j] # None
        PROVE  heard'[i] < heard'[j]
    <3>1. i \in 1 .. Len(heard) /\ i \in DOMAIN heard BY <1>t, <2>1, <2>2, <2>5
    <3>2. heard'[i] = heard[i] /\ heard[i] <= count.heard /\ heard[i] \in Nat
      BY <1>w, <2>1, <3>1 DEF WaitInv
    <3>3. CASE j \in 1 .. Len(heard) /\ j \in DOMAIN heard
      BY <1>w, <2>1, <2>5, <3>1, <3>3 DEF WaitInv
    <3>4. CASE j = Len(heard) + 1 BY <1>t, <1>a, <2>1, <2>5, <3>2, <3>4
    <3>q. QED BY <2>2, <3>3, <3>4
  <2>6. ASSUME NEW i \in DOMAIN heard', heard'[i] # None, NEW t \in Turns, turns[t].pc # "none"
        PROVE  t < heard'[i]
    <3>1. CASE i \in 1 .. Len(heard) /\ i \in DOMAIN heard BY <1>w, <2>1, <2>6, <3>1 DEF Unbegun
    <3>2. CASE i = Len(heard) + 1 BY <1>t, <1>h, <1>n, <1>a, <2>1, <2>6, <3>2
    <3>q. QED BY <2>2, <3>1, <3>2
  <2>7. \A t \in Turns : turns[t].pc # "none" => t <= count'.heard BY <1>t, <1>h, <1>n, <1>a
  <2>q. QED BY <1>a, <1>h, <2>4, <2>5, <2>6, <2>7 DEF HeardInv, Started
<1>1. CASE DebounceEnds
  <2>1. heard' = Append(heard, None) /\ count'.heard = count.heard /\ UNCHANGED <<brain, turns>>
    BY <1>t, <1>1 DEF DebounceEnds, Counts
  <2>q. QED BY <1>t, <1>a, <2>1, MaybeTurns
<1>2. CASE Hear
  <2>1. /\ heard' = Append(heard, count.heard + 1) /\ count'.heard = count.heard + 1
        /\ UNCHANGED <<brain, turns>> /\ count.heard + 1 \in MaybeTurn
    BY <1>t, <1>2, PipelineAssumption DEF Hear, Counts, MaybeTurn, Turns
  <2>q. QED BY <1>t, <1>a, <2>1
<1>3. CASE TakeTranscript
  <2> DEFINE h == Head(heard)
  <2>1. /\ heard # <<>> /\ h # None /\ heard' = Tail(heard) /\ count' = count
        /\ turns' = [Cancelled EXCEPT ![h].pc = "created"]
        /\ brain' = [brain EXCEPT !.task = h]
    BY <1>3 DEF TakeTranscript, input
  <2>2. /\ h = heard[1] /\ 1 \in 1 .. Len(heard) /\ 1 \in DOMAIN heard /\ h \in Turns
        /\ DOMAIN heard' = 1 .. Len(heard) - 1
        /\ \A i \in 1 .. Len(heard) - 1 : heard'[i] = heard[i + 1]
    BY <1>t, <2>1, QueueTake, MaybeTurns
  <2>3. h <= count.heard /\ \A t \in Turns : turns[t].pc # "none" => t < h
    BY <1>w, <2>1, <2>2 DEF WaitInv, Unbegun
  <2> HIDE DEF h
  <2>4. \A t \in Turns : turns'[t].pc = IF t = h THEN "created"
                                        ELSE IF t = brain.task THEN "cancelled" ELSE turns[t].pc
    BY <2>1, <2>2, CancelledTurns, CancelledValues DEF Tasks
  <2>5. brain'.task = h BY <1>t, <2>1 DEF Brains
  <2>6. /\ WaitInv'
        /\ \A i \in DOMAIN heard' : heard'[i] # None =>
             h < heard'[i] /\ \A t \in Turns : turns[t].pc # "none" => t < heard'[i]
    BY <1>t, <1>w, <2>1, <2>2, WaitCut
  <2>7. \A t \in Turns : turns'[t].pc # "none" => t = h \/ turns[t].pc # "none"
    BY <1>h, <2>4
  <2>8. \A t \in Turns : turns'[t].pc # "none" => t <= count'.heard BY <1>h, <2>1, <2>3, <2>7
  <2>9. Unbegun' BY <2>6, <2>7 DEF Unbegun
  <2>10. \A t \in Turns : turns'[t].pc \in {"created", "running"} <=> brain'.task = t
    BY <1>h, <2>4, <2>5
  <2>11. \A t, u \in Turns : turns'[t].pc = "created" /\ Started(u)' => u < t
    BY <1>h, <2>3, <2>4, <2>7 DEF Started
  <2>q. QED BY <2>6, <2>8, <2>9, <2>10, <2>11 DEF HeardInv, WaitInv, Unbegun
<1>4. CASE InterruptBrain
  <2>1. /\ Has(heard, None) /\ heard' = Behind(heard, None) /\ count' = count
        /\ turns' = Cancelled /\ brain'.task = None
    BY <1>t, <1>4 DEF InterruptBrain, CutInv, Brains
  <2>2. PICK k \in 1 .. Len(heard) :
          /\ DOMAIN heard' = 1 .. Len(heard) - k
          /\ \A i \in 1 .. Len(heard) - k : heard'[i] = heard[i + k]
    <3>1. heard \in Seq(MaybeTurn) BY <1>t
    <3>2. Has(heard, None) /\ heard' = Behind(heard, None) BY <2>1
    <3>q. QED BY <3>1, <3>2, QueueCut
  <2>3. WaitInv' /\ \A i \in DOMAIN heard' : heard'[i] # None =>
                      \A t \in Turns : turns[t].pc # "none" => t < heard'[i]
    BY <1>t, <1>w, <2>1, <2>2, WaitCut
  <2>4. \A t \in Turns : turns'[t].pc = IF t = brain.task THEN "cancelled" ELSE turns[t].pc
    BY <2>1, CancelledTurns
  <2>5. \A t \in Turns : turns'[t].pc # "none" => turns[t].pc # "none" BY <1>h, <2>4
  <2>6. \A t \in Turns : turns'[t].pc # "none" => t <= count'.heard BY <1>h, <2>1, <2>5
  <2>7. Unbegun' BY <2>3, <2>5 DEF Unbegun
  <2>8. \A t \in Turns : turns'[t].pc \notin {"created", "running"} /\ brain'.task # t
    BY <1>h, <1>n, <2>1, <2>4
  <2>q. QED BY <2>3, <2>6, <2>7, <2>8 DEF HeardInv, WaitInv, Unbegun
<1>5. ASSUME NEW t \in Turns, TurnStarts(t) PROVE HeardInv'
  <2>1. /\ UNCHANGED <<heard, count>> /\ turns[t].pc = "created" /\ brain'.task = brain.task
        /\ \A u \in Turns : turns'[u].pc = IF u = t THEN "running" ELSE turns[u].pc
    BY <1>t, <1>5 DEF TurnStarts, input, Brains, Tasks
  <2>2. \A u \in Turns : turns'[u].pc # "created" BY <1>h, <2>1
  <2>q. QED BY <1>w, <1>h, <2>1, <2>2 DEF HeardInv, WaitInv, Unbegun
<1>6. ASSUME NEW t \in Turns, NEW ends \in BOOLEAN, TurnSays(t, ends) PROVE HeardInv'
  <2>1. /\ UNCHANGED <<heard, count>> /\ brain'.task = brain.task
        /\ \A u \in Turns : turns'[u].pc = turns[u].pc
    BY <1>t, <1>6 DEF TurnSays, input, Brains, Tasks
  <2>q. QED BY <1>k, <2>1
<1>7. ASSUME NEW t \in Turns, NEW truncated \in BOOLEAN, TurnEnds(t, truncated) PROVE HeardInv'
  <2>1. /\ UNCHANGED <<heard, count>> /\ turns[t].pc = "running" /\ brain'.task = None
        /\ \A u \in Turns : turns'[u].pc = IF u = t THEN "done" ELSE turns[u].pc
    BY <1>t, <1>7 DEF TurnEnds, input, Brains, Tasks
  <2>2. \A u \in Turns : turns'[u].pc \notin {"created", "running"} /\ brain'.task # u
    BY <1>h, <1>n, <2>1
  <2>q. QED BY <1>w, <1>h, <2>1, <2>2 DEF HeardInv, WaitInv, Unbegun
<1>8. CASE SocketBreaks
  <2>1. UNCHANGED <<heard, brain, turns>> /\ count'.heard = count.heard
    BY <1>t, <1>8 DEF SocketBreaks, Counts
  <2>q. QED BY <1>w, <1>h, <2>1 DEF HeardInv, WaitInv, Unbegun, Started
<1>q. QED
  BY <1>k, <1>1, <1>2, <1>3, <1>4, <1>5, <1>6, <1>7, <1>8
  DEF PipeNext, pipeVars, input, UserStartsSpeaking, UserStopsSpeaking, BotReported, TapPasses,
      InterruptTap, TaggerTakes, FinishTurn, InterruptTagger, AbortDone, Drain, Unwind, RunTts,
      ReadSocket, InterruptTts, Play, InterruptOutput

-----------------------------------------------------------------------------
(* The frames in the queues *)

LEMMA StartedKept ==
  ASSUME PipeTypes, HeardInv, [PipeNext]_pipeVars, NEW t \in Turns, Started(t)
  PROVE  Started(t)'
<1>t. heard \in Seq(MaybeTurn) /\ turns \in [Turns -> Tasks] /\ brain \in Brains
  BY DEF PipeTypes
<1>1. CASE TakeTranscript
  <2>1. Head(heard) = heard[1] /\ 1 \in DOMAIN heard /\ Head(heard) # None /\ Head(heard) \in Turns
    BY <1>t, <1>1, QueueTake, MaybeTurns DEF TakeTranscript
  <2>2. t # Head(heard)
    <3>1. turns[t].pc # "none" => t < heard[1] BY <2>1 DEF HeardInv
    <3>q. QED BY <2>1, <3>1, MaybeTurns DEF Started
  <2>3. turns'[t].pc = Cancelled[t].pc
    BY <1>1, <2>1, <2>2, CancelledValues DEF TakeTranscript, Tasks
  <2>q. QED BY <2>3, CancelledTurns DEF Started
<1>2. CASE InterruptBrain BY <1>2, CancelledTurns DEF InterruptBrain, Started
<1>3. ASSUME NEW u \in Turns, TurnStarts(u) \/ \E b \in BOOLEAN : TurnSays(u, b) \/ TurnEnds(u, b)
      PROVE  Started(t)'
  <2>1. CASE TurnStarts(u) BY <1>t, <2>1 DEF TurnStarts, Started, Tasks
  <2>2. ASSUME NEW b \in BOOLEAN, TurnSays(u, b) PROVE Started(t)'
    BY <1>t, <2>2 DEF TurnSays, Started, Tasks
  <2>3. ASSUME NEW b \in BOOLEAN, TurnEnds(u, b) PROVE Started(t)'
    BY <1>t, <2>3 DEF TurnEnds, Started, Tasks
  <2>q. QED BY <1>3, <2>1, <2>2, <2>3
<1>4. ASSUME UNCHANGED turns PROVE Started(t)' BY <1>4 DEF Started
<1>q. QED
  BY <1>1, <1>2, <1>3, <1>4
  DEF PipeNext, pipeVars, UserStartsSpeaking, UserStopsSpeaking, BotReported, DebounceEnds, Hear,
      TapPasses, InterruptTap, TaggerTakes, FinishTurn, InterruptTagger, AbortDone, Drain, Unwind,
      RunTts, SocketBreaks, ReadSocket, InterruptTts, Play, InterruptOutput

\* The queue of the tap once the brain has ended the reply it was working on.
LEMMA CancelledFlow ==
  ASSUME PipeTypes, HeardInv, OrderInv, NEW tail \in BOOLEAN,
         NEW before, before = Over(toTagger, ~tagger.collecting),
         NEW q, q = toTap \o CancelledEnd(brain.task, tail)
  PROVE  /\ q \in Seq(Frames) /\ Flow(q, before) /\ Over(q, before)
         /\ StartsIn(q) \subseteq StartsIn(toTap)
<1> DEFINE t == brain.task
<1>t. toTap \in Seq(Frames) /\ t \in MaybeTurn /\ before \in BOOLEAN /\ Flow(toTap, before)
  <2>1. toTap \in Seq(Frames) /\ t \in MaybeTurn /\ tagger.collecting \in BOOLEAN
    BY DEF PipeTypes, Brains, Taggers
  <2>2. (~tagger.collecting) \in BOOLEAN BY <2>1
  <2>q. QED BY <2>1, <2>2, OverValues DEF OrderInv
<1>1. CASE t # None /\ turns[t].pc = "running"
  <2> DEFINE e == EndFrame(t, FALSE)
             x == TextFrame(t, FALSE)
  <2>1. e \in Frames /\ x \in Frames /\ e.kind = "end" /\ x.kind = "text"
    BY <1>t, <1>1, MaybeTurns, FrameValues DEF EndFrame, TextFrame
  <2>2. \/ CancelledEnd(t, tail) = <<>> \o <<e>>
        \/ CancelledEnd(t, tail) = <<x>> \o <<e>>
    BY <1>1 DEF CancelledEnd
  <2> HIDE DEF e, x, t
  <2>3. /\ Append(toTap, x) \in Seq(Frames) /\ Flow(Append(toTap, x), before)
        /\ StartsIn(Append(toTap, x)) \subseteq StartsIn(toTap)
    <3>1. Append(toTap, x) \in Seq(Frames) BY <1>t, <2>1, QueueAdd
    <3>q. QED BY <1>t, <2>1, <3>1, FlowAdd
  <2>4. ASSUME NEW r \in Seq(Frames), Flow(r, before), q = Append(r, e), StartsIn(r) \subseteq StartsIn(toTap)
        PROVE  /\ q \in Seq(Frames) /\ Flow(q, before) /\ Over(q, before)
               /\ StartsIn(q) \subseteq StartsIn(toTap)
    <3>1. q \in Seq(Frames) BY <2>1, <2>4, QueueAdd
    <3>2. /\ Flow(q, before) /\ Over(q, before) = (e.kind \in Closing)
          /\ \A u \in StartsIn(q) : u \in StartsIn(r)
      BY <1>t, <2>1, <2>4, FlowAdd
    <3>3. Over(q, before) BY <2>1, <3>2 DEF Closing
    <3>q. QED BY <2>4, <3>1, <3>2, <3>3
  <2>5. CASE CancelledEnd(t, tail) = <<>> \o <<e>>
    <3>1. q = Append(toTap, e) BY <1>t, <2>1, <2>5 DEF t
    <3>q. QED BY <1>t, <2>4, <3>1
  <2>6. CASE CancelledEnd(t, tail) = <<x>> \o <<e>>
    <3>0. q = toTap \o (<<x>> \o <<e>>) BY <2>6 DEF t
    <3>1. q = Append(Append(toTap, x), e) BY <1>t, <2>1, <3>0, TwoAdded
    <3>q. QED BY <2>3, <2>4, <3>1
  <2>q. QED BY <2>2, <2>5, <2>6
<1>2. CASE t = None \/ turns[t].pc # "running"
  <2>1. q = toTap
    <3>1. CancelledEnd(t, tail) = <<>> BY <1>2 DEF CancelledEnd
    <3>q. QED BY <1>t, <3>1
  <2>2. \A u \in Turns : turns[u].pc # "running" BY <1>2, MaybeTurns DEF HeardInv
  <2>3. Over(toTap, before) BY <2>2 DEF OrderInv
  <2>q. QED BY <1>t, <2>1, <2>3
<1>q. QED BY <1>1, <1>2

LEMMA OrderStep ==
  ASSUME PipeTypes, CutInv, HeardInv, OrderInv, TaggerInv, [PipeNext]_pipeVars
  PROVE  /\ OrderInv'
         /\ \A u \in StartsIn(toTagger') \cup StartsIn(toTap') :
              \/ u \in StartsIn(toTagger) \cup StartsIn(toTap)
              \/ \A t \in Turns : Started(t) => t < u
<1> DEFINE before == Over(toTagger, ~tagger.collecting)
           Later == \A u \in StartsIn(toTagger') \cup StartsIn(toTap') :
                      \/ u \in StartsIn(toTagger) \cup StartsIn(toTap)
                      \/ \A t \in Turns : Started(t) => t < u
<1>t. /\ toTap \in Seq(Frames) /\ toTagger \in Seq(Frames) /\ turns \in [Turns -> Tasks]
      /\ tagger.collecting \in BOOLEAN /\ (~tagger.collecting) \in BOOLEAN /\ before \in BOOLEAN
  <2>1. /\ toTap \in Seq(Frames) /\ toTagger \in Seq(Frames) /\ turns \in [Turns -> Tasks]
        /\ tagger.collecting \in BOOLEAN
    BY DEF PipeTypes, Taggers
  <2>2. (~tagger.collecting) \in BOOLEAN BY <2>1
  <2>q. QED BY <2>1, <2>2, OverValues
<1>o. /\ Flow(toTagger, ~tagger.collecting) /\ Flow(toTap, before)
      /\ (\E t \in Turns : turns[t].pc = "running") \/ Over(toTap, before)
      /\ \A t \in StartsIn(toTagger), u \in StartsIn(toTap) : t < u
      /\ \A t \in StartsIn(toTagger) \cup StartsIn(toTap) : t \in Turns /\ Started(t)
  BY DEF OrderInv, StartsIn
<1>s. \A t \in Turns : Started(t) => Started(t)' BY StartedKept
<1>k. ASSUME UNCHANGED <<toTap, toTagger, turns>>, tagger'.collecting = tagger.collecting
      PROVE  OrderInv' /\ Later
  BY <1>k, <1>o DEF OrderInv, Started
\* The brain adds to the queue of the tap.
<1>a. ASSUME UNCHANGED <<toTagger, tagger>>, Flow(toTap', before),
             (\E t \in Turns : turns'[t].pc = "running") \/ Over(toTap', before),
             \A u \in StartsIn(toTap') : \/ u \in StartsIn(toTap)
                                         \/ Started(u)' /\ \A t \in Turns : Started(t) => t < u
      PROVE  OrderInv' /\ Later
  <2>1. before' = before BY <1>a
  <2>2. \A t \in StartsIn(toTagger), u \in StartsIn(toTap') : t < u BY <1>a, <1>o
  <2>3. \A t \in StartsIn(toTagger) \cup StartsIn(toTap') : Started(t)' BY <1>a, <1>o, <1>s
  <2> HIDE DEF before
  <2>4. StartsIn(toTagger)' = StartsIn(toTagger) /\ StartsIn(toTap)' = StartsIn(toTap') BY <1>a
  <2>5. Later BY <1>a, <2>4
  <2> HIDE DEF Later
  <2>q. QED BY <1>a, <1>o, <2>1, <2>2, <2>3, <2>4, <2>5 DEF OrderInv, before
<1>1. CASE TakeTranscript
  <2>1. PICK tail \in BOOLEAN : toTap' = toTap \o CancelledEnd(brain.task, tail)
    BY <1>1 DEF TakeTranscript
  <2>2. Flow(toTap', before) /\ Over(toTap', before) /\ StartsIn(toTap') \subseteq StartsIn(toTap)
    BY <2>1, CancelledFlow
  <2>3. UNCHANGED <<toTagger, tagger>> BY <1>1 DEF TakeTranscript
  <2>q. QED BY <1>a, <2>2, <2>3
<1>2. CASE InterruptBrain
  <2>1. PICK tail \in BOOLEAN : toTap' = Append(toTap \o CancelledEnd(brain.task, tail), CutFrame)
    BY <1>2 DEF InterruptBrain
  <2> DEFINE q == toTap \o CancelledEnd(brain.task, tail)
  <2>2. q \in Seq(Frames) /\ Flow(q, before) /\ StartsIn(q) \subseteq StartsIn(toTap)
    BY CancelledFlow
  <2>3. toTap' = Append(q, CutFrame) BY <2>1
  <2> HIDE DEF q, before
  <2>4. /\ Flow(toTap', before) /\ Over(toTap', before) = (CutFrame.kind \in Closing)
        /\ \A u \in StartsIn(toTap') : u \in StartsIn(q)
    BY <1>t, <2>2, <2>3, FlowAdd, FrameValues
  <2>5. Over(toTap', before) BY <2>4, FrameValues DEF Closing
  <2>6. UNCHANGED <<toTagger, tagger>> BY <1>2 DEF InterruptBrain
  <2>q. QED BY <1>a, <2>2, <2>4, <2>5, <2>6
<1>3. ASSUME NEW t \in Turns, TurnStarts(t) PROVE OrderInv' /\ Later
  <2>1. /\ toTap' = Append(toTap, StartFrame(t)) /\ UNCHANGED <<toTagger, tagger>>
        /\ turns[t].pc = "created" /\ turns'[t].pc = "running"
    BY <1>t, <1>3 DEF TurnStarts, Tasks
  <2>2. StartFrame(t) \in Frames /\ StartFrame(t).turn = t BY FrameValues DEF StartFrame
  <2>3. \A u \in Turns : turns[u].pc # "running" BY <2>1 DEF HeardInv
  <2>4. Over(toTap, before) BY <1>o, <2>3
  <2>5. \A u \in Turns : Started(u) => u < t BY <2>1 DEF HeardInv
  <2>6. \A u \in StartsIn(toTap) \cup StartsIn(toTagger) : u < t BY <1>o, <2>5
  <2> HIDE DEF before
  <2>7. Flow(toTap', before) /\ \A u \in StartsIn(toTap') : u \in StartsIn(toTap) \/ u = t
    BY <1>t, <1>o, <2>1, <2>2, <2>4, <2>6, FlowAdd
  <2>8. Started(t)' BY <2>1 DEF Started
  <2>q. QED BY <1>a, <2>1, <2>5, <2>7, <2>8
<1>4. ASSUME NEW t \in Turns, NEW b \in BOOLEAN, TurnSays(t, b) PROVE OrderInv' /\ Later
  <2>1. /\ toTap' = Append(toTap, TextFrame(t, b)) /\ UNCHANGED <<toTagger, tagger>>
        /\ turns'[t].pc = "running"
    BY <1>t, <1>4 DEF TurnSays, Tasks
  <2>2. TextFrame(t, b) \in Frames /\ TextFrame(t, b).kind = "text" BY FrameValues DEF TextFrame
  <2> HIDE DEF before
  <2>3. Flow(toTap', before) /\ \A u \in StartsIn(toTap') : u \in StartsIn(toTap)
    BY <1>t, <1>o, <2>1, <2>2, FlowAdd
  <2>q. QED BY <1>a, <2>1, <2>3
<1>5. ASSUME NEW t \in Turns, NEW b \in BOOLEAN, TurnEnds(t, b) PROVE OrderInv' /\ Later
  <2>1. toTap' = Append(toTap, EndFrame(t, b)) /\ UNCHANGED <<toTagger, tagger>>
    BY <1>5 DEF TurnEnds
  <2>2. EndFrame(t, b) \in Frames /\ EndFrame(t, b).kind = "end" BY FrameValues DEF EndFrame
  <2> HIDE DEF before
  <2>3. /\ Flow(toTap', before) /\ \A u \in StartsIn(toTap') : u \in StartsIn(toTap)
        /\ Over(toTap', before) = (EndFrame(t, b).kind \in Closing)
    BY <1>t, <1>o, <2>1, <2>2, FlowAdd
  <2>4. Over(toTap', before) BY <2>2, <2>3 DEF Closing
  <2>q. QED BY <1>a, <2>1, <2>3, <2>4
\* A frame is passed on, or all that an interruption drops is dropped.
<1>b. ASSUME NEW f \in Frames, toTagger' = Append(toTagger, f), UNCHANGED <<tagger, turns>>,
             f.kind = "start" => before /\ \A t \in StartsIn(toTagger) : t < f.turn,
             f.kind = "start" => f.turn \in StartsIn(toTap) /\ \A u \in StartsIn(toTap') : f.turn < u,
             Flow(toTap', f.kind \in Closing), Over(toTap', f.kind \in Closing) = Over(toTap, before),
             StartsIn(toTap') \subseteq StartsIn(toTap)
      PROVE  OrderInv' /\ Later
  <2>1. /\ Flow(toTagger', ~tagger.collecting) /\ Over(toTagger', ~tagger.collecting) = (f.kind \in Closing)
        /\ \A u \in StartsIn(toTagger') : u \in StartsIn(toTagger) \/ (f.kind = "start" /\ u = f.turn)
    <3>1. f.kind = "start" => /\ Over(toTagger, ~tagger.collecting)
                              /\ \A t \in StartsIn(toTagger) : t < f.turn
      BY <1>b
    <3> HIDE DEF before
    <3>2. /\ Flow(Append(toTagger, f), ~tagger.collecting)
          /\ Over(Append(toTagger, f), ~tagger.collecting) = (f.kind \in Closing)
          /\ \A u \in StartsIn(Append(toTagger, f)) :
               u \in StartsIn(toTagger) \/ (f.kind = "start" /\ u = f.turn)
      BY <1>t, <1>o, <3>1, FlowAdd
    <3>q. QED BY <1>b, <3>2
  <2>2. before' = (f.kind \in Closing) BY <1>b, <2>1
  <2> HIDE DEF before
  <2>3. (\E t \in Turns : turns'[t].pc = "running") \/ Over(toTap', before') BY <1>b, <1>o, <2>2
  <2>4. \A t \in StartsIn(toTagger'), u \in StartsIn(toTap') : t < u BY <1>b, <1>o, <2>1
  <2>5. \A t \in StartsIn(toTagger') \cup StartsIn(toTap') : Started(t)'
    BY <1>b, <1>o, <1>s, <2>1
  <2>6. StartsIn(toTagger)' = StartsIn(toTagger') /\ StartsIn(toTap)' = StartsIn(toTap')
    BY DEF StartsIn
  <2>7. Flow(toTagger', ~tagger'.collecting) /\ Flow(toTap', before') BY <1>b, <2>1, <2>2
  <2>8. Later BY <1>b, <2>1, <2>6
  <2> HIDE DEF Later
  <2>q. QED BY <2>3, <2>4, <2>5, <2>6, <2>7, <2>8 DEF OrderInv, before
<1>6. CASE TapPasses
  <2> DEFINE f == Head(toTap)
  <2>1. /\ toTap # <<>> /\ f # CutFrame /\ toTagger' = Append(toTagger, f) /\ toTap' = Tail(toTap)
        /\ UNCHANGED <<tagger, turns>>
    BY <1>6 DEF TapPasses
  <2>2. f \in Frames BY <1>t, <2>1, QueueTake
  <2>3. /\ Flow(toTap', f.kind \in Closing) /\ Over(toTap', f.kind \in Closing) = Over(toTap, before)
        /\ StartsIn(toTap') \subseteq StartsIn(toTap)
        /\ f.kind = "start" => /\ before /\ f.turn \in StartsIn(toTap)
                               /\ \A u \in StartsIn(toTap') : f.turn < u
    BY <1>t, <1>o, <2>1, FlowTake
  <2> HIDE DEF f, before
  <2>4. f.kind = "start" => \A t \in StartsIn(toTagger) : t < f.turn BY <1>o, <2>3
  <2>q. QED BY <1>b, <2>1, <2>2, <2>3, <2>4
<1>7. CASE InterruptTap
  <2>1. /\ toTap' = Behind(toTap, CutFrame) /\ toTagger' = Append(toTagger, CutFrame)
        /\ UNCHANGED <<tagger, turns>> /\ Has(toTap, CutFrame)
    BY <1>7 DEF InterruptTap, CutInv
  <2>2. /\ Flow(toTap', TRUE) /\ Over(toTap', TRUE) = Over(toTap, before)
        /\ StartsIn(toTap') \subseteq StartsIn(toTap)
    BY <1>t, <1>o, <2>1, FlowCut
  <2>3. CutFrame \in Frames /\ CutFrame.kind # "start" /\ (CutFrame.kind \in Closing) = TRUE
    BY FrameValues DEF Closing
  <2> HIDE DEF before
  <2>q. QED BY <1>b, <2>1, <2>2, <2>3
\* The tagger takes a frame, or drops what an interruption drops.
<1>c. ASSUME NEW c \in BOOLEAN, Flow(toTagger', c), c => ~tagger'.collecting,
             Over(toTagger', c) = before, tagger'.collecting \in BOOLEAN,
             StartsIn(toTagger') \subseteq StartsIn(toTagger), UNCHANGED <<toTap, turns>>,
             toTagger' \in Seq(Frames)
      PROVE  OrderInv' /\ Later
  <2>1. Flow(toTagger', ~tagger'.collecting) /\ (before => before')
    <3>1. (~tagger'.collecting) \in BOOLEAN BY <1>c
    <3>2. Over(toTagger', c) => Over(toTagger', ~tagger'.collecting) BY <1>c, <3>1, FlowEases
    <3>3. Flow(toTagger', ~tagger'.collecting) BY <1>c, <3>1, FlowEases
    <3>q. QED BY <1>c, <3>2, <3>3
  <2>2. before' \in BOOLEAN
    <3>1. (~tagger'.collecting) \in BOOLEAN BY <1>c
    <3>q. QED BY <3>1, OverValues
  <2> HIDE DEF before
  <2>3. Flow(toTap', before') /\ (Over(toTap, before) => Over(toTap', before'))
    BY <1>t, <1>o, <1>c, <2>1, <2>2, FlowEases
  <2>4. \A t \in StartsIn(toTagger'), u \in StartsIn(toTap) : t < u BY <1>c, <1>o
  <2>5. \A t \in StartsIn(toTagger') \cup StartsIn(toTap) : Started(t)' BY <1>c, <1>o, <1>s
  <2>6. StartsIn(toTagger)' = StartsIn(toTagger') /\ StartsIn(toTap)' = StartsIn(toTap)
    BY <1>c DEF StartsIn
  <2>7. Later BY <1>c, <2>6
  <2> HIDE DEF Later
  <2>q. QED BY <1>c, <1>o, <2>1, <2>3, <2>4, <2>5, <2>6, <2>7 DEF OrderInv, before
<1>8. CASE TaggerTakes
  <2> DEFINE f == Head(toTagger)
  <2>1. /\ toTagger # <<>> /\ f # CutFrame /\ toTagger' = Tail(toTagger)
        /\ UNCHANGED <<toTap, turns>>
        /\ \/ f.kind = "start" /\ BeginTurn(f.turn)
           \/ f.kind = "text" /\ tagger.collecting /\ CollectText(f)
           \/ f.kind = "end" /\ tagger.collecting /\ CollectEnd(f)
           \/ f.kind # "start" /\ ~tagger.collecting /\ PassOn(f)
    BY <1>8 DEF TaggerTakes
  <2>2. f \in Frames /\ toTagger' \in Seq(Frames) BY <1>t, <2>1, QueueTake
  <2>3. /\ Flow(toTagger', f.kind \in Closing) /\ Over(toTagger', f.kind \in Closing) = before
        /\ StartsIn(toTagger') \subseteq StartsIn(toTagger)
    BY <1>t, <1>o, <2>1, FlowTake
  <2> HIDE DEF f, before
  <2>4. tagger \in Taggers BY DEF PipeTypes
  <2>5. tagger'.collecting \in BOOLEAN /\ (f.kind \in Closing => ~tagger'.collecting)
    <3>1. CASE f.kind = "start" /\ BeginTurn(f.turn)
      BY <2>4, <3>1 DEF BeginTurn, Taggers, Closing
    <3>2. CASE f.kind = "text" /\ tagger.collecting /\ CollectText(f)
      BY <2>4, <3>2 DEF CollectText, Taggers, Closing
    <3>3. CASE CollectEnd(f) BY <2>4, <3>3 DEF CollectEnd, Taggers
    <3>4. CASE ~tagger.collecting /\ PassOn(f) BY <1>t, <3>4 DEF PassOn
    <3>q. QED BY <2>1, <3>1, <3>2, <3>3, <3>4
  <2>6. (f.kind \in Closing) \in BOOLEAN
    <3>1. CASE f.kind \in Closing BY <3>1
    <3>2. CASE f.kind \notin Closing BY <3>2
    <3>q. QED BY <3>1, <3>2
  <2>q. QED BY <1>c, <2>1, <2>2, <2>3, <2>5, <2>6
<1>9. CASE InterruptTagger
  <2>1. toTagger' = Behind(toTagger, CutFrame) /\ Has(toTagger, CutFrame) /\ UNCHANGED <<toTap, turns>>
    BY <1>9 DEF InterruptTagger, CutInv
  <2>2. /\ Flow(toTagger', TRUE) /\ Over(toTagger', TRUE) = before
        /\ StartsIn(toTagger') \subseteq StartsIn(toTagger) /\ toTagger' \in Seq(Frames)
    BY <1>t, <1>o, <2>1, FlowCut, QueueCut
  <2>3. tagger'.collecting = FALSE
    <3>1. tagger \in Taggers BY DEF PipeTypes
    <3>q. QED BY <1>9, <3>1 DEF InterruptTagger, Taggers
  <2> HIDE DEF before
  <2>q. QED BY <1>c, <2>1, <2>2, <2>3
<1>10. CASE FinishTurn \/ AbortDone \/ \E t \in Turns : Unwind(t)
  <2>1. tagger \in Taggers BY DEF PipeTypes
  <2>2. tagger'.collecting = tagger.collecting
    BY <1>10, <2>1 DEF FinishTurn, AbortDone, Unwind, Taggers
  <2>q. QED BY <1>k, <1>10, <2>2 DEF FinishTurn, AbortDone, Unwind
<1>q. QED
  BY <1>k, <1>1, <1>2, <1>3, <1>4, <1>5, <1>6, <1>7, <1>8, <1>9, <1>10
  DEF PipeNext, pipeVars, UserStartsSpeaking, UserStopsSpeaking, BotReported, DebounceEnds, Hear,
      Drain, RunTts, SocketBreaks, ReadSocket, InterruptTts, Play, InterruptOutput

-----------------------------------------------------------------------------
(* What the tagger keeps of a reply *)

TaggerValues ==
  /\ tagger.own \in MaybeTurn /\ tagger.id \in MaybeTurn /\ tagger.finishing \in MaybeTurn
  /\ tagger.aborting \in MaybeTurn /\ tagger.collecting \in BOOLEAN
  /\ (~tagger.collecting) \in BOOLEAN /\ tagger.unwinding \in SUBSET Turns
  /\ past.ended \in SUBSET MaybeTurn /\ past.silenced \in SUBSET Turns
  /\ past.released \in [Turns -> Nat] /\ past.got \in [Turns -> Nat]
  /\ past.lastOut \in Sentences /\ past.lastOut.turn \in MaybeTurn
  /\ \A t \in Turns : drains[t].queue \in Seq(Items) /\ Len(drains[t].queue) \in Nat

LEMMA TaggerTypes == PipeTypes => TaggerValues
<1> SUFFICES ASSUME PipeTypes PROVE TaggerValues OBVIOUS
<1>1. tagger \in Taggers /\ past \in Pasts BY DEF PipeTypes
<1>2. tagger.collecting \in BOOLEAN BY <1>1 DEF Taggers
<1>3. (~tagger.collecting) \in BOOLEAN BY <1>2
<1>4. past.lastOut \in Sentences BY <1>1 DEF Pasts
<1>5. past.lastOut.turn \in MaybeTurn BY <1>4, SentenceValues
<1>6. \A t \in Turns : drains[t].queue \in Seq(Items) /\ Len(drains[t].queue) \in Nat
  BY DrainValues
<1>q. QED BY <1>1, <1>2, <1>3, <1>4, <1>5, <1>6 DEF TaggerValues, Taggers, Pasts

LEMMA TurnValues ==
  /\ \A t \in Turns : t # None /\ t \in Nat /\ t \in MaybeTurn
  /\ \A t \in MaybeTurn : t # None => t \in Turns
  /\ None \in MaybeTurn /\ None = 0
BY MaybeTurns DEF None

\* Only the reply the tagger holds has a live drain task.
LEMMA LiveReply ==
  ASSUME TaggerInv, NEW t \in Turns, drains[t].live
  PROVE  /\ tagger.own = t /\ tagger.id = t /\ tagger.aborting = None
         /\ \/ tagger.collecting /\ tagger.finishing = None
            \/ ~tagger.collecting /\ tagger.finishing = t
<1>1. tagger.own = t /\ (tagger.collecting \/ tagger.finishing = t) BY DEF TaggerInv
<1>2. tagger.collecting => /\ tagger.own = tagger.id /\ tagger.finishing = None
                           /\ tagger.aborting = None
  BY DEF TaggerInv
<1>3. tagger.finishing = t => /\ tagger.id = t /\ ~tagger.collecting /\ tagger.aborting = None
  BY TurnValues DEF TaggerInv
<1>q. QED BY <1>1, <1>2, <1>3

LEMMA NewKept ==
  ASSUME PipeTypes, CutInv, HeardInv, OrderInv, NewInv, TaggerInv, [PipeNext]_pipeVars,
         \A t \in Turns : Touched(t)' => Touched(t)
  PROVE  NewInv'
<1> SUFFICES ASSUME NEW t \in Turns, Touched(t)'
             PROVE  Started(t)' /\ \A u \in (StartsIn(toTagger) \cup StartsIn(toTap))' : t < u
  BY DEF NewInv
<1>1. Started(t) /\ \A u \in StartsIn(toTagger) \cup StartsIn(toTap) : t < u BY DEF NewInv
<1>2. ASSUME NEW u \in StartsIn(toTagger') \cup StartsIn(toTap') PROVE t < u
  <2>1. \/ u \in StartsIn(toTagger) \cup StartsIn(toTap)
        \/ \A v \in Turns : Started(v) => v < u
    BY OrderStep
  <2>q. QED BY <1>1, <2>1
<1>3. (StartsIn(toTagger) \cup StartsIn(toTap))' = StartsIn(toTagger') \cup StartsIn(toTap')
  BY DEF StartsIn
<1>q. QED BY <1>1, <1>2, <1>3, StartedKept

\* A reply begins at the tagger.
LEMMA BeginStep ==
  ASSUME PipeTypes, HeardInv, OrderInv, NewInv, TaggerInv, QueueInv, SpokenInv,
         [PipeNext]_pipeVars, NEW f \in Frames, f = Head(toTagger), toTagger # <<>>,
         f.kind = "start", toTagger' = Tail(toTagger), UNCHANGED toTap,
         tagger.finishing = None, tagger.aborting = None, BeginTurn(f.turn)
  PROVE  NewInv' /\ TaggerInv' /\ QueueInv' /\ SpokenInv'
<1>t. toTagger \in Seq(Frames) /\ tagger \in Taggers /\ drains \in [Turns -> Drains] /\ TaggerValues
  BY TaggerTypes DEF PipeTypes
<1> DEFINE b == f.turn
<1>1. /\ tagger' = [tagger EXCEPT !.collecting = TRUE, !.id = b, !.own = b, !.fragment = FALSE]
      /\ drains' = [drains EXCEPT ![b] = [live |-> TRUE, queue |-> <<>>]]
      /\ past' = past
  BY DEF BeginTurn
<1>2. /\ b \in Turns /\ ~tagger.collecting /\ b \in StartsIn(toTagger)
      /\ \A t \in StartsIn(toTagger') : b < t /\ t \in StartsIn(toTagger)
  <2>1. Flow(toTagger, ~tagger.collecting) BY DEF OrderInv
  <2>2. b \in Turns BY FrameValues
  <2>q. QED BY <1>t, <2>1, <2>2, FlowTake DEF TaggerValues
<1> HIDE DEF b
<1>3. /\ tagger'.collecting = TRUE /\ tagger'.id = b /\ tagger'.own = b
      /\ tagger'.finishing = None /\ tagger'.aborting = None
      /\ tagger'.unwinding = tagger.unwinding
  BY <1>t, <1>1 DEF Taggers
<1>4. /\ \A t \in Turns : t # b => drains'[t] = drains[t]
      /\ drains'[b].live /\ drains'[b].queue = <<>>
  BY <1>t, <1>1, <1>2
<1>5. ~Touched(b)
  <2>1. Touched(b) => b < b BY <1>2 DEF NewInv
  <2>q. QED BY <1>2, <2>1, TurnValues
<1>6. /\ b \notin past.silenced /\ b \notin past.ended /\ b \notin tagger.unwinding
      /\ past.got[b] = 0 /\ past.released[b] = 0
  BY <1>5 DEF Touched
<1>7. tagger.own = None BY <1>2 DEF TaggerInv
<1>8. \A t \in Turns : ~drains[t].live BY <1>7, LiveReply, TurnValues
<1>9. past.lastOut.turn <= b
  <2>1. CASE past.lastOut.turn = None BY <1>2, <2>1, TurnValues
  <2>2. CASE past.lastOut.turn # None
    <3>1. past.lastOut.turn \in Turns /\ Touched(past.lastOut.turn)
      BY <1>t, <2>2, TurnValues DEF Touched, TaggerValues
    <3>2. past.lastOut.turn < b BY <1>2, <3>1 DEF NewInv
    <3>q. QED BY <1>2, <3>1, <3>2, TurnValues
  <2>q. QED BY <2>1, <2>2
<1>10. NewInv'
  <2> SUFFICES ASSUME NEW t \in Turns, Touched(t)'
               PROVE  Started(t)' /\ \A u \in (StartsIn(toTagger) \cup StartsIn(toTap))' : t < u
    BY DEF NewInv
  <2>1. t = b \/ Touched(t)
    BY <1>1, <1>3, <1>4, TurnValues DEF Touched
  <2>2. (StartsIn(toTagger) \cup StartsIn(toTap))' = StartsIn(toTagger') \cup StartsIn(toTap)
    BY DEF StartsIn
  <2>3. CASE t = b
    <3>1. Started(b) /\ \A u \in StartsIn(toTap) : b < u BY <1>2 DEF OrderInv
    <3>q. QED BY <1>2, <2>2, <2>3, <3>1, StartedKept
  <2>4. CASE Touched(t)
    <3>1. Started(t) /\ \A u \in StartsIn(toTagger) \cup StartsIn(toTap) : t < u
      BY <2>4 DEF NewInv
    <3>q. QED BY <1>2, <2>2, <3>1, StartedKept
  <2>q. QED BY <2>1, <2>3, <2>4
<1>11. TaggerInv'
  <2>1. \A t \in Turns : drains'[t].live => t = b BY <1>4, <1>8
  <2>2. \A t \in tagger'.unwinding : t # b BY <1>3, <1>6
  <2>3. None \notin past'.ended BY <1>1 DEF TaggerInv
  <2>q. QED BY <1>2, <1>3, <1>4, <2>1, <2>2, <2>3, TurnValues DEF TaggerInv
<1>12. QueueInv'
  <2> SUFFICES ASSUME NEW t \in Turns PROVE ReplyKept(t)' BY DEF QueueInv
  <2>1. CASE t = b
    <3>1. ToRelease(t)' = 0 BY <1>2, <1>3, <1>4, <2>1, TurnValues DEF ToRelease
    <3>2. DOMAIN drains'[t].queue = {} BY <1>4, <2>1
    <3>q. QED BY <1>1, <1>2, <1>3, <1>4, <1>6, <1>9, <2>1, <3>1, <3>2, TurnValues DEF ReplyKept
  <2>2. CASE t # b BY <1>1, <1>4, <1>8, <2>2 DEF QueueInv, ReplyKept
  <2>q. QED BY <2>1, <2>2
<1>13. SpokenInv' BY <1>1 DEF SpokenInv
<1>q. QED BY <1>10, <1>11, <1>12, <1>13

OnlyOf(queue, t) == \A i \in DOMAIN queue : queue[i] # Sentinel /\ queue[i].id = t

\* While a reply is collected its sentences are queued, no mark behind them.
LEMMA Collecting ==
  ASSUME PipeTypes, TaggerInv, QueueInv, tagger.collecting
  PROVE  /\ tagger.own = tagger.id /\ tagger.own \in Turns
         /\ drains[tagger.own].live /\ OnlyOf(drains[tagger.own].queue, tagger.own)
         /\ past.got[tagger.own] = past.released[tagger.own] + Len(drains[tagger.own].queue)
<1>1. /\ tagger.own = tagger.id /\ tagger.id # None /\ tagger.finishing = None
      /\ drains[tagger.own].live
  BY DEF TaggerInv
<1>2. tagger.own \in Turns BY <1>1, TaggerTypes, TurnValues DEF TaggerValues
<1>3. ReplyKept(tagger.own) BY <1>2 DEF QueueInv
<1>4. ToRelease(tagger.own) = Len(drains[tagger.own].queue) BY <1>1, <1>2, TurnValues DEF ToRelease
<1>5. \A i \in DOMAIN drains[tagger.own].queue : i <= Len(drains[tagger.own].queue)
  <2>1. drains[tagger.own].queue \in Seq(Items) BY <1>2, DrainValues
  <2>q. QED BY <2>1
<1>q. QED BY <1>1, <1>2, <1>3, <1>4, <1>5 DEF ReplyKept, OnlyOf

LEMMA SentenceAdded ==
  ASSUME PipeTypes, TaggerInv, QueueInv, tagger.collecting,
         NEW ds, ds = Scheduled(TRUE) \/ ds = Scheduled(FALSE)
  PROVE  /\ ds[tagger.own].live /\ ds[tagger.own].queue \in Seq(Items)
         /\ OnlyOf(ds[tagger.own].queue, tagger.own)
         /\ Len(ds[tagger.own].queue) = Len(drains[tagger.own].queue) + 1
         /\ \A t \in Turns : t # tagger.own => ds[t] = drains[t]
         /\ Collected.got[tagger.own] = past.got[tagger.own] + 1
         /\ \A t \in Turns : t # tagger.own => Collected.got[t] = past.got[t]
         /\ Collected.released = past.released /\ Collected.ended = past.ended
         /\ Collected.silenced = past.silenced /\ Collected.lastOut = past.lastOut
<1> DEFINE o == tagger.own
<1>0. PICK half \in BOOLEAN : ds = Scheduled(half) OBVIOUS
<1> DEFINE item == [kind |-> "sentence", turn |-> o, id |-> tagger.id, half |-> half]
           q == drains[o].queue
<1>1. /\ o = tagger.id /\ o \in Turns /\ drains[o].live /\ OnlyOf(q, o)
  BY Collecting
<1>2. /\ drains \in [Turns -> Drains] /\ past \in Pasts /\ q \in Seq(Items) /\ Len(q) \in Nat
  BY <1>1, DrainValues DEF PipeTypes
<1>3. item \in Items /\ item # Sentinel /\ item.id = o
  <2>1. item.kind # Sentinel.kind BY DEF Sentinel
  <2>q. QED BY <1>1, <2>1, TurnValues DEF Items
<1>4. ds = [drains EXCEPT ![o].queue = Append(@, item)]
  BY <1>0, <1>1, TurnValues DEF Scheduled
<1> HIDE DEF item
<1>5. /\ ds[o].live = drains[o].live /\ ds[o].queue = Append(q, item)
      /\ \A t \in Turns : t # o => ds[t] = drains[t]
  <2>1. ds = [drains EXCEPT ![o] = [drains[o] EXCEPT !.queue = Append(q, item)]]
    BY <1>4
  <2> DEFINE r == [drains[o] EXCEPT !.queue = Append(q, item)]
  <2>2. drains[o] \in Drains BY <1>1, <1>2
  <2>3. r.live = drains[o].live /\ r.queue = Append(q, item) BY <2>2 DEF Drains
  <2> HIDE DEF r
  <2>4. ds = [drains EXCEPT ![o] = r] BY <2>1 DEF r
  <2>q. QED BY <1>1, <1>2, <2>3, <2>4
<1> HIDE DEF q
<1>6. /\ Append(q, item) \in Seq(Items) /\ Len(Append(q, item)) = Len(q) + 1
      /\ DOMAIN Append(q, item) = 1 .. Len(q) + 1 /\ DOMAIN q = 1 .. Len(q)
      /\ Append(q, item)[Len(q) + 1] = item
      /\ \A i \in 1 .. Len(q) : Append(q, item)[i] = q[i]
  BY <1>2, <1>3, QueueAdd
<1>7. OnlyOf(ds[o].queue, o)
  <2>1. \A i \in 1 .. Len(q) + 1 : i \in 1 .. Len(q) \/ i = Len(q) + 1 BY <1>2
  <2>q. QED BY <1>1, <1>3, <1>5, <1>6, <2>1 DEF OnlyOf
<1>8. Collected = [past EXCEPT !.got[o] = @ + 1] BY <1>1, TurnValues DEF Collected
<1>9. past.got \in [Turns -> Nat] /\ past \in Pasts BY <1>2 DEF Pasts
<1>10. /\ Collected.got[o] = past.got[o] + 1
       /\ \A t \in Turns : t # o => Collected.got[t] = past.got[t]
       /\ Collected.released = past.released /\ Collected.ended = past.ended
       /\ Collected.silenced = past.silenced /\ Collected.lastOut = past.lastOut
  BY <1>1, <1>8, <1>9 DEF Pasts
<1>q. QED BY <1>1, <1>2, <1>5, <1>6, <1>7, <1>10 DEF q

\* A sentence of the reply is queued, or only its tail grows.
LEMMA TextStep ==
  ASSUME PipeTypes, CutInv, HeardInv, OrderInv, NewInv, TaggerInv, QueueInv, SpokenInv,
         [PipeNext]_pipeVars, UNCHANGED cut, tagger.collecting,
         NEW f \in Frames, CollectText(f)
  PROVE  NewInv' /\ TaggerInv' /\ QueueInv' /\ SpokenInv'
<1>t. tagger \in Taggers /\ TaggerValues BY TaggerTypes DEF PipeTypes
<1> DEFINE o == tagger.own
<1>1. /\ tagger'.collecting = tagger.collecting /\ tagger'.own = tagger.own
      /\ tagger'.id = tagger.id /\ tagger'.finishing = tagger.finishing
      /\ tagger'.aborting = tagger.aborting /\ tagger'.unwinding = tagger.unwinding
  BY <1>t DEF CollectText, Taggers
<1>2. /\ o \in Turns /\ drains[o].live /\ o = tagger.id /\ OnlyOf(drains[o].queue, o)
      /\ past.got[o] = past.released[o] + Len(drains[o].queue)
  BY Collecting
<1>3. tagger.finishing = None /\ tagger.aborting = None BY DEF TaggerInv
<1>4. /\ drains'[o].live /\ drains'[o].queue \in Seq(Items) /\ OnlyOf(drains'[o].queue, o)
      /\ past'.got[o] = past.released[o] + Len(drains'[o].queue)
      /\ \A t \in Turns : t # o => drains'[t] = drains[t] /\ past'.got[t] = past.got[t]
      /\ past'.released = past.released /\ past'.ended = past.ended
      /\ past'.silenced = past.silenced /\ past'.lastOut = past.lastOut
  <2>1. CASE f.flag
    <3>1. drains' = Scheduled(FALSE) /\ past' = Collected BY <2>1 DEF CollectText
    <3>2. /\ drains'[o].live /\ drains'[o].queue \in Seq(Items) /\ OnlyOf(drains'[o].queue, o)
          /\ Len(drains'[o].queue) = Len(drains[o].queue) + 1
          /\ \A t \in Turns : t # o => drains'[t] = drains[t]
          /\ past'.got[o] = past.got[o] + 1
          /\ \A t \in Turns : t # o => past'.got[t] = past.got[t]
          /\ past'.released = past.released /\ past'.ended = past.ended
          /\ past'.silenced = past.silenced /\ past'.lastOut = past.lastOut
      BY <3>1, SentenceAdded
    <3>3. /\ past.released[o] \in Nat /\ Len(drains[o].queue) \in Nat
      BY <1>t, <1>2 DEF TaggerValues
    <3> HIDE DEF o
    <3>q. QED BY <1>2, <3>2, <3>3
  <2>2. CASE ~f.flag
    <3>1. drains' = drains /\ past' = past BY <2>2 DEF CollectText
    <3>q. QED BY <1>t, <1>2, <3>1 DEF TaggerValues
  <2>q. QED BY <2>1, <2>2
<1> HIDE DEF o
<1>5. NewInv'
  <2>1. \A t \in Turns : t # o => (Touched(t)' => Touched(t))
    BY <1>1, <1>4 DEF Touched
  <2>2. Touched(o) BY DEF Touched, o
  <2>q. QED BY <2>1, <2>2, NewKept
<1>6. TaggerInv'
  <2>1. \A t \in Turns : drains'[t].live => drains[t].live BY <1>2, <1>4
  <2>q. QED BY <1>1, <1>3, <1>4, <2>1 DEF TaggerInv, o
<1>7. QueueInv'
  <2> SUFFICES ASSUME NEW t \in Turns PROVE ReplyKept(t)' BY DEF QueueInv
  <2>0. ReplyKept(t) BY DEF QueueInv
  <2>1. CASE t = o
    <3>1. ToRelease(t)' = Len(drains'[o].queue) /\ tagger'.finishing # t
      BY <1>1, <1>3, <2>1, TurnValues DEF ToRelease
    <3>q. QED BY <1>2, <1>4, <2>0, <2>1, <3>1 DEF ReplyKept, OnlyOf
  <2>2. CASE t # o
    <3>1. ToRelease(t)' = ToRelease(t) BY <1>1, <1>4, <2>2 DEF ToRelease
    <3>q. QED BY <1>1, <1>4, <2>0, <2>2, <3>1 DEF ReplyKept
  <2>q. QED BY <2>1, <2>2
<1>8. SpokenInv' BY <1>4 DEF SpokenInv
<1>q. QED BY <1>5, <1>6, <1>7, <1>8

\* The reply has streamed in: its tail is queued or dropped, and its mark is put.
LEMMA EndStep ==
  ASSUME PipeTypes, CutInv, HeardInv, OrderInv, NewInv, TaggerInv, QueueInv, SpokenInv,
         [PipeNext]_pipeVars, UNCHANGED cut, tagger.collecting,
         NEW f \in Frames, CollectEnd(f)
  PROVE  NewInv' /\ TaggerInv' /\ QueueInv' /\ SpokenInv'
<1>t. tagger \in Taggers /\ TaggerValues /\ drains \in [Turns -> Drains] /\ past \in Pasts
  BY TaggerTypes DEF PipeTypes
<1> DEFINE o == tagger.own
           tail == tagger.fragment /\ ~f.flag
           ds == IF tail THEN Scheduled(TRUE) ELSE drains
           ps == IF tail THEN Collected ELSE past
<1>2. /\ o \in Turns /\ drains[o].live /\ o = tagger.id /\ OnlyOf(drains[o].queue, o)
      /\ past.got[o] = past.released[o] + Len(drains[o].queue)
  BY Collecting
<1>3. tagger.finishing = None /\ tagger.aborting = None BY DEF TaggerInv
<1>4. /\ tagger' = [tagger EXCEPT !.collecting = FALSE, !.fragment = FALSE, !.finishing = o]
      /\ drains' = [ds EXCEPT ![o].queue = Append(@, Sentinel)]
      /\ past' = [ps EXCEPT !.ended = @]
  BY <1>2, TurnValues DEF CollectEnd
<1>5. /\ ds[o].live /\ ds[o].queue \in Seq(Items) /\ OnlyOf(ds[o].queue, o)
      /\ ps.got[o] = past.released[o] + Len(ds[o].queue)
      /\ \A t \in Turns : t # o => ds[t] = drains[t] /\ ps.got[t] = past.got[t]
      /\ ps.released = past.released /\ ps.ended = past.ended
      /\ ps.silenced = past.silenced /\ ps.lastOut = past.lastOut
      /\ ds \in [Turns -> Drains] /\ ps \in Pasts
  <2>1. CASE tail
    <3>1. ds = Scheduled(TRUE) /\ ps = Collected BY <2>1
    <3>2. /\ ds[o].live /\ ds[o].queue \in Seq(Items) /\ OnlyOf(ds[o].queue, o)
          /\ Len(ds[o].queue) = Len(drains[o].queue) + 1
          /\ \A t \in Turns : t # o => ds[t] = drains[t]
          /\ ps.got[o] = past.got[o] + 1
          /\ \A t \in Turns : t # o => ps.got[t] = past.got[t]
          /\ ps.released = past.released /\ ps.ended = past.ended
          /\ ps.silenced = past.silenced /\ ps.lastOut = past.lastOut
      <4> HIDE DEF ds, ps
      <4>q. QED BY <3>1, SentenceAdded
    <3>3. /\ past.released[o] \in Nat /\ Len(drains[o].queue) \in Nat
      BY <1>t, <1>2 DEF TaggerValues
    <3>4. ds \in [Turns -> Drains] /\ ps \in Pasts BY <3>1, DrainValues
    <3> HIDE DEF o, ds, ps
    <3>q. QED BY <1>2, <3>2, <3>3, <3>4
  <2>2. CASE ~tail
    <3>1. ds = drains /\ ps = past BY <2>2
    <3> HIDE DEF ds, ps
    <3>q. QED BY <1>t, <1>2, <3>1 DEF TaggerValues
  <2>q. QED BY <2>1, <2>2
<1> DEFINE q == ds[o].queue
<1> HIDE DEF tail, ds, ps, o
<1>6. /\ tagger'.collecting = FALSE /\ tagger'.own = o /\ tagger'.id = o
      /\ tagger'.finishing = o /\ tagger'.aborting = None /\ tagger'.unwinding = tagger.unwinding
  BY <1>t, <1>2, <1>3, <1>4 DEF Taggers, o
<1>7. /\ past'.got = ps.got /\ past'.released = past.released /\ past'.ended = past.ended
      /\ past'.silenced = past.silenced /\ past'.lastOut = past.lastOut
  BY <1>4, <1>5 DEF Pasts
<1>8. /\ drains'[o].live /\ drains'[o].queue = Append(q, Sentinel)
      /\ \A t \in Turns : t # o => drains'[t] = drains[t]
  <2> DEFINE r == [ds[o] EXCEPT !.queue = Append(q, Sentinel)]
  <2>1. drains' = [ds EXCEPT ![o] = r] BY <1>4
  <2>2. ds[o] \in Drains BY <1>2, <1>5
  <2>3. r.live = ds[o].live /\ r.queue = Append(q, Sentinel) BY <2>2 DEF Drains
  <2> HIDE DEF r
  <2>q. QED BY <1>2, <1>5, <2>1, <2>3
<1>9. q \in Seq(Items) /\ OnlyOf(q, o) /\ past'.got[o] = past.released[o] + Len(q) /\ Len(q) \in Nat
  BY <1>5, <1>7
<1> HIDE DEF q
<1>10. /\ Len(drains'[o].queue) = Len(q) + 1 /\ DOMAIN drains'[o].queue = 1 .. Len(q) + 1
       /\ drains'[o].queue[Len(q) + 1] = Sentinel /\ drains'[o].queue # <<>>
       /\ \A i \in 1 .. Len(q) : drains'[o].queue[i] = q[i]
  BY <1>8, <1>9, DrainValues, QueueAdd
<1>11. NewInv'
  <2>1. \A t \in Turns : t # o => (Touched(t)' => Touched(t))
    BY <1>2, <1>3, <1>5, <1>6, <1>7, <1>8, TurnValues DEF Touched, o
  <2>2. Touched(o) BY DEF Touched, o
  <2>q. QED BY <2>1, <2>2, NewKept
<1>12. TaggerInv'
  <2>1. \A t \in Turns : drains'[t].live => t = o
    <3>1. \A t \in Turns : drains[t].live => t = o BY LiveReply DEF o
    <3>q. QED BY <1>8, <3>1
  <2>2. \A t \in tagger.unwinding : t # o
    BY <1>2, <1>3, TurnValues DEF TaggerInv, o
  <2>3. None \notin past'.ended BY <1>7 DEF TaggerInv
  <2>q. QED BY <1>2, <1>6, <2>1, <2>2, <2>3, TurnValues DEF TaggerInv
<1>13. QueueInv'
  <2> SUFFICES ASSUME NEW t \in Turns PROVE ReplyKept(t)' BY DEF QueueInv
  <2>0. ReplyKept(t) BY DEF QueueInv
  <2>1. CASE t = o
    <3>1. ToRelease(t)' = Len(q) BY <1>6, <1>9, <1>10, <2>1 DEF ToRelease
    <3>2. \A i \in 1 .. Len(q) + 1 : i <= Len(q) => i \in DOMAIN q BY <1>9
    <3>3. \A i \in DOMAIN drains'[o].queue : i <= Len(q) =>
            drains'[o].queue[i] # Sentinel /\ drains'[o].queue[i].id = o
      BY <1>9, <1>10, <3>2 DEF OnlyOf
    <3>4. past.lastOut.turn <= o /\ o \notin past.silenced /\ o \notin past.ended
      BY <1>2, <2>0, <2>1 DEF ReplyKept
    <3>q. QED BY <1>6, <1>7, <1>8, <1>9, <1>10, <2>1, <3>1, <3>3, <3>4 DEF ReplyKept
  <2>2. CASE t # o
    <3>1. ~drains[t].live BY <2>2, LiveReply DEF o
    <3>2. ~drains'[t].live /\ past'.got[t] = past.got[t] BY <1>5, <1>7, <1>8, <2>2, <3>1
    <3>q. QED BY <1>7, <2>0, <3>1, <3>2 DEF ReplyKept
  <2>q. QED BY <2>1, <2>2
<1>14. SpokenInv' BY <1>7 DEF SpokenInv
<1>q. QED BY <1>11, <1>12, <1>13, <1>14

\* The drain task releases the first sentence, or finds the mark and is done.
LEMMA DrainStep ==
  ASSUME PipeTypes, CutInv, HeardInv, OrderInv, NewInv, TaggerInv, QueueInv, SpokenInv,
         [PipeNext]_pipeVars, NEW o \in Turns, Drain(o)
  PROVE  NewInv' /\ TaggerInv' /\ QueueInv' /\ SpokenInv'
<1>t. TaggerValues /\ drains \in [Turns -> Drains] /\ past \in Pasts
  BY TaggerTypes DEF PipeTypes
<1> DEFINE q == drains[o].queue
           item == Head(q)
           s == [turn |-> o, n |-> past.released[o] + 1, half |-> item.half]
<1>1. /\ drains[o].live /\ q # <<>> /\ UNCHANGED <<tagger, cut>>
      /\ drains' = [drains EXCEPT ![o] = [live |-> item # Sentinel, queue |-> Tail(q)]]
  BY DEF Drain, input
<1>2. IF item # Sentinel /\ item.id = tagger.id
      THEN past' = [past EXCEPT !.released[o] = @ + 1, !.lastOut = s]
      ELSE past' = past
  BY DEF Drain
<1>3. /\ q \in Seq(Items) /\ Len(q) \in Nat /\ Len(q) > 0 /\ item = q[1]
      /\ DOMAIN q = 1 .. Len(q) /\ 1 \in DOMAIN q
      /\ Len(Tail(q)) = Len(q) - 1 /\ DOMAIN Tail(q) = 1 .. Len(q) - 1
      /\ \A i \in 1 .. Len(q) - 1 : Tail(q)[i] = q[i + 1]
  BY <1>t, <1>1, QueueTake DEF TaggerValues
<1>4. /\ tagger.own = o /\ tagger.id = o /\ tagger.aborting = None
      /\ \/ tagger.collecting /\ tagger.finishing = None
         \/ ~tagger.collecting /\ tagger.finishing = o
  BY <1>1, LiveReply
<1>5. ReplyKept(o) BY DEF QueueInv
<1> DEFINE w == ToRelease(o)
<1>6. /\ \A i \in DOMAIN q : i <= w => q[i] # Sentinel /\ q[i].id = o
      /\ tagger.finishing = o => q[Len(q)] = Sentinel
      /\ past.got[o] = past.released[o] + w
      /\ past.lastOut.turn <= o /\ o \notin past.silenced /\ o \notin past.ended
      /\ w = IF tagger.finishing = o THEN Len(q) - 1 ELSE Len(q)
  BY <1>1, <1>5 DEF ReplyKept, ToRelease
<1>w. past.got[o] = past.released[o] + w BY <1>6
<1>l. w = IF tagger.finishing = o THEN Len(q) - 1 ELSE Len(q) BY <1>6
<1>c. Len(q) \in Nat /\ Len(q) > 0 BY <1>3
<1>7. past.released[o] \in Nat /\ past.got[o] \in Nat /\ past.lastOut.turn \in MaybeTurn
  BY <1>t DEF TaggerValues
<1>8. /\ \A t \in Turns : t # o => drains'[t] = drains[t]
      /\ drains'[o].queue = Tail(q) /\ (drains'[o].live <=> item # Sentinel)
  <2>1. drains'[o] = [live |-> item # Sentinel, queue |-> Tail(q)] BY <1>t, <1>1
  <2>2. \A t \in Turns : t # o => drains'[t] = drains[t] BY <1>t, <1>1
  <2> HIDE DEF item, q
  <2> DEFINE l == item # Sentinel
  <2>3. drains'[o] = [live |-> l, queue |-> Tail(q)] BY <2>1
  <2> HIDE DEF l
  <2>4. drains'[o].queue = Tail(q) /\ drains'[o].live = l BY <2>3
  <2>5. drains'[o].live <=> item # Sentinel
    <3>1. CASE l BY <2>4, <3>1 DEF l
    <3>2. CASE ~l BY <2>4, <3>2 DEF l
    <3>q. QED BY <3>1, <3>2
  <2>q. QED BY <2>2, <2>4, <2>5
<1>9. \A t \in Turns : drains[t].live => t = o BY <1>4, LiveReply
<1> HIDE DEF q, item, s, w
<1>10. CASE item = Sentinel
  <2>1. past' = past BY <1>2, <1>10
  <2>2. ~(1 <= w) BY <1>3, <1>6, <1>10
  <2>3. w = 0 /\ tagger.finishing = o
    <3>1. CASE tagger.finishing = o
      <4>1. w = Len(q) - 1 BY <1>l, <3>1
      <4>q. QED BY <1>c, <2>2, <3>1, <4>1
    <3>2. CASE tagger.finishing # o
      <4>1. w = Len(q) BY <1>l, <3>2
      <4>q. QED BY <1>c, <2>2, <4>1
    <3>q. QED BY <3>1, <3>2
  <2>4. past.got[o] = past.released[o] BY <1>w, <1>7, <2>3
  <2>5. ~drains'[o].live BY <1>8, <1>10
  <2>6. \A t \in Turns : ~drains'[t].live BY <1>8, <1>9, <2>5
  <2>7. NewInv'
    <3>1. \A t \in Turns : Touched(t)' => Touched(t) BY <1>1, <2>1, <2>6 DEF Touched
    <3>q. QED BY <3>1, NewKept
  <2>8. TaggerInv'
    <3>1. ~tagger.collecting BY <1>4, <2>3, TurnValues
    <3>q. QED BY <1>1, <1>4, <2>1, <2>6, <3>1 DEF TaggerInv
  <2>9. QueueInv'
    <3> SUFFICES ASSUME NEW t \in Turns PROVE ReplyKept(t)' BY DEF QueueInv
    <3>1. ~drains'[t].live BY <2>6
    <3>2. CASE t = o BY <2>1, <2>4, <3>1, <3>2 DEF ReplyKept
    <3>3. CASE t # o
      <4>1. ~drains[t].live /\ ReplyKept(t) BY <1>9, <3>3 DEF QueueInv
      <4>q. QED BY <2>1, <3>1, <4>1 DEF ReplyKept
    <3>q. QED BY <3>2, <3>3
  <2>10. SpokenInv' BY <2>1 DEF SpokenInv
  <2>q. QED BY <2>7, <2>8, <2>9, <2>10
<1>11. CASE item # Sentinel
  <2>1. w >= 1 /\ w \in Nat
    <3>1. CASE tagger.finishing = o
      <4>1. Len(q) # 1 BY <1>3, <1>6, <1>11, <3>1
      <4>q. QED BY <1>3, <1>6, <3>1, <4>1
    <3>2. CASE tagger.finishing # o BY <1>3, <1>6, <3>2
    <3>q. QED BY <3>1, <3>2
  <2>2. item.id = o BY <1>3, <1>6, <2>1
  <2>3. past' = [past EXCEPT !.released[o] = @ + 1, !.lastOut = s] BY <1>2, <1>4, <1>11, <2>2
  <2>4. /\ past'.got = past.got /\ past'.ended = past.ended /\ past'.silenced = past.silenced
        /\ past'.lastOut = s /\ past'.released[o] = past.released[o] + 1
        /\ \A t \in Turns : t # o => past'.released[t] = past.released[t]
    BY <1>t, <2>3 DEF Pasts
  <2>5. s.turn = o /\ s.n = past.released[o] + 1 BY DEF s
  <2>6. drains'[o].live BY <1>8, <1>11
  <2>7. NewInv'
    <3>1. \A t \in Turns : t # o => (Touched(t)' => Touched(t))
      BY <1>1, <1>8, <2>4, <2>5 DEF Touched
    <3>2. Touched(o) BY <1>4 DEF Touched
    <3>q. QED BY <3>1, <3>2, NewKept
  <2>8. TaggerInv'
    <3>1. \A t \in Turns : drains'[t].live => drains[t].live BY <1>1, <1>8
    <3>q. QED BY <1>1, <1>4, <2>4, <2>6, <3>1, TurnValues DEF TaggerInv
  <2>9. QueueInv'
    <3> SUFFICES ASSUME NEW t \in Turns PROVE ReplyKept(t)' BY DEF QueueInv
    <3>1. CASE t = o
      <4> DEFINE r == Tail(q)
      <4>1. ToRelease(o)' = w - 1 BY <1>1, <1>3, <1>6, <1>8 DEF ToRelease
      <4>2. past'.got[o] = past'.released[o] + (w - 1)
        <5>1. past'.got[o] = past.got[o] /\ past'.released[o] = past.released[o] + 1 BY <2>4
        <5>q. QED BY <1>w, <1>7, <2>1, <5>1
      <4>3. ASSUME NEW i \in DOMAIN r, i <= w - 1 PROVE r[i] # Sentinel /\ r[i].id = o
        <5>1. i \in 1 .. Len(q) - 1 /\ r[i] = q[i + 1] BY <1>3
        <5>2. i + 1 \in DOMAIN q /\ i + 1 <= w BY <1>3, <2>1, <4>3, <5>1
        <5>q. QED BY <1>6, <5>1, <5>2
      <4>4. ASSUME tagger.finishing = o PROVE r # <<>> /\ r[Len(r)] = Sentinel
        <5>1. Len(q) >= 2 BY <1>3, <1>6, <2>1, <4>4
        <5>2. Len(q) - 1 \in 1 .. Len(q) - 1 /\ (Len(q) - 1) + 1 = Len(q) BY <1>3, <5>1
        <5>3. r[Len(r)] = q[Len(q)] /\ Len(r) # 0 BY <1>3, <5>1, <5>2
        <5>4. r # <<>> BY <5>3
        <5>q. QED BY <1>6, <4>4, <5>3, <5>4
      <4>5. past'.lastOut.turn <= o BY <2>4, <2>5, TurnValues
      <4>6. drains'[o].queue = r BY <1>8
      <4> HIDE DEF r
      <4>q. QED BY <1>1, <1>6, <2>4, <2>6, <3>1, <4>1, <4>2, <4>3, <4>4, <4>5, <4>6 DEF ReplyKept
    <3>2. CASE t # o
      <4>1. ~drains[t].live /\ ReplyKept(t) /\ drains'[t] = drains[t]
        BY <1>8, <1>9, <3>2 DEF QueueInv
      <4>q. QED BY <2>4, <3>2, <4>1 DEF ReplyKept
    <3>q. QED BY <3>1, <3>2
  <2>10. SpokenInv' BY <2>4, <2>5 DEF SpokenInv
  <2>q. QED BY <2>7, <2>8, <2>9, <2>10
<1>q. QED BY <1>10, <1>11

\* An interruption reaches the tagger: nothing is left to release.
LEMMA AbortStep ==
  ASSUME PipeTypes, CutInv, HeardInv, OrderInv, NewInv, TaggerInv, QueueInv, SpokenInv,
         [PipeNext]_pipeVars, InterruptTagger
  PROVE  NewInv' /\ TaggerInv' /\ QueueInv' /\ SpokenInv'
<1>t. TaggerValues /\ tagger \in Taggers /\ drains \in [Turns -> Drains] /\ past \in Pasts
  BY TaggerTypes DEF PipeTypes
<1> DEFINE u == IF tagger.finishing = None THEN tagger.unwinding
                ELSE tagger.unwinding \cup {tagger.finishing}
<1>1. /\ tagger' = [tagger EXCEPT
           !.collecting = FALSE, !.id = None, !.fragment = FALSE, !.finishing = None,
           !.unwinding = u, !.aborting = tagger.own]
      /\ drains' = [t \in Turns |-> IF t \in {tagger.own, tagger.finishing} THEN Stopped
                                                                            ELSE drains[t]]
      /\ past' = [past EXCEPT !.silenced = @ \cup {t \in Turns : drains[t].live}]
      /\ cut = "tagger" /\ (tagger.own # None => cut' = cut)
  BY DEF InterruptTagger
<1>2. u \subseteq tagger.unwinding \cup {tagger.finishing} OBVIOUS
<1> HIDE DEF u
<1>3. /\ tagger'.collecting = FALSE /\ tagger'.id = None /\ tagger'.finishing = None
      /\ tagger'.own = tagger.own /\ tagger'.aborting = tagger.own /\ tagger'.unwinding = u
  BY <1>t, <1>1 DEF Taggers
<1>4. \A t \in Turns : drains[t].live => t = tagger.own BY LiveReply
<1>5. \A t \in Turns : ~drains'[t].live BY <1>1, <1>4 DEF Stopped
<1>6. /\ past'.got = past.got /\ past'.released = past.released /\ past'.ended = past.ended
      /\ past'.lastOut = past.lastOut
      /\ past'.silenced = past.silenced \cup {t \in Turns : drains[t].live}
  BY <1>t, <1>1 DEF Pasts
<1>7. NewInv'
  <2>1. \A t \in Turns : Touched(t)' => Touched(t)
    BY <1>2, <1>3, <1>5, <1>6, TurnValues DEF Touched
  <2>q. QED BY <2>1, NewKept
<1>8. TaggerInv'
  <2>1. tagger.own # None => tagger.own \in Turns BY <1>t, TurnValues DEF TaggerValues
  <2>2. None \notin past'.ended BY <1>6 DEF TaggerInv
  <2>q. QED BY <1>1, <1>3, <1>5, <2>1, <2>2 DEF TaggerInv
<1>9. QueueInv'
  <2> SUFFICES ASSUME NEW t \in Turns PROVE ReplyKept(t)' BY DEF QueueInv
  <2>1. ReplyKept(t) BY DEF QueueInv
  <2>q. QED BY <1>5, <1>6, <2>1 DEF ReplyKept
<1>10. SpokenInv' BY <1>6 DEF SpokenInv
<1>q. QED BY <1>7, <1>8, <1>9, <1>10

\* The clean-up of a reply, finished, aborted or cancelled.
LEMMA CleanStep ==
  ASSUME PipeTypes, CutInv, HeardInv, OrderInv, NewInv, TaggerInv, QueueInv, SpokenInv,
         [PipeNext]_pipeVars, FinishTurn \/ AbortDone \/ \E t \in Turns : Unwind(t)
  PROVE  NewInv' /\ TaggerInv' /\ QueueInv' /\ SpokenInv'
<1>t. TaggerValues /\ tagger \in Taggers /\ drains \in [Turns -> Drains] /\ past \in Pasts
  BY TaggerTypes DEF PipeTypes
<1>1. CASE FinishTurn
  <2> DEFINE o == tagger.finishing
  <2>1. /\ o # None /\ ~drains[o].live /\ UNCHANGED <<drains, cut>>
        /\ tagger' = [tagger EXCEPT !.finishing = None, !.own = IF @ = o THEN None ELSE @]
        /\ past' = [past EXCEPT !.ended = @ \cup {o}]
    BY <1>1 DEF FinishTurn, input
  <2>2. tagger.own = o /\ tagger.id = o /\ ~tagger.collecting /\ tagger.aborting = None
    BY <2>1 DEF TaggerInv
  <2>3. /\ tagger'.own = None /\ tagger'.finishing = None /\ tagger'.id = o /\ ~tagger'.collecting
        /\ tagger'.aborting = None /\ tagger'.unwinding = tagger.unwinding
    BY <1>t, <2>1, <2>2 DEF Taggers
  <2>4. \A t \in Turns : ~drains[t].live BY <2>1, <2>2, LiveReply
  <2>5. /\ past'.got = past.got /\ past'.released = past.released /\ past'.lastOut = past.lastOut
        /\ past'.ended = past.ended \cup {o} /\ past'.silenced = past.silenced
    BY <1>t, <2>1 DEF Pasts
  <2> HIDE DEF o
  <2>6. NewInv'
    <3>1. \A t \in Turns : t # o => (Touched(t)' => Touched(t))
      BY <2>1, <2>3, <2>5, TurnValues DEF Touched
    <3>2. Touched(o) BY <2>2 DEF Touched
    <3>q. QED BY <3>1, <3>2, NewKept
  <2>7. TaggerInv'
    <3>1. \A t \in tagger'.unwinding : t # None BY <1>t, <2>3, TurnValues DEF TaggerValues
    <3>2. None \notin past'.ended BY <2>1, <2>5 DEF TaggerInv
    <3>q. QED BY <2>1, <2>3, <2>4, <3>1, <3>2 DEF TaggerInv
  <2>8. QueueInv'
    <3> SUFFICES ASSUME NEW t \in Turns PROVE ReplyKept(t)' BY DEF QueueInv
    <3>1. ReplyKept(t) BY DEF QueueInv
    <3>q. QED BY <2>1, <2>4, <2>5, <3>1 DEF ReplyKept
  <2>9. SpokenInv' BY <2>5 DEF SpokenInv
  <2>q. QED BY <2>6, <2>7, <2>8, <2>9
\* While one is aborted no drain task is live, nothing is collected or finishing.
<1>a. ASSUME tagger.aborting # None
      PROVE  /\ ~tagger.collecting /\ tagger.finishing = None
             /\ tagger.own = tagger.aborting \/ tagger.own = None
             /\ \A t \in Turns : ~drains[t].live
  <2>1. ~tagger.collecting /\ tagger.finishing = None BY <1>a DEF TaggerInv
  <2>2. tagger.own = tagger.aborting \/ tagger.own = None BY <1>a DEF TaggerInv
  <2>3. \A t \in Turns : ~drains[t].live BY <1>a, LiveReply
  <2>q. QED BY <2>1, <2>2, <2>3
<1>2. ASSUME tagger.aborting # None, UNCHANGED <<drains, past>>,
             tagger'.collecting = tagger.collecting, tagger'.finishing = tagger.finishing,
             tagger'.id = tagger.id, tagger'.unwinding \subseteq tagger.unwinding,
             \/ tagger'.aborting = None /\ tagger'.own = None
             \/ /\ tagger'.aborting = tagger.aborting /\ cut' = cut
                /\ tagger'.own \in {tagger.own, None}
      PROVE  NewInv' /\ TaggerInv' /\ QueueInv' /\ SpokenInv'
  <2>1. NewInv'
    <3>1. \A t \in Turns : Touched(t)' => Touched(t) BY <1>2, TurnValues DEF Touched
    <3>q. QED BY <3>1, NewKept
  <2>2. TaggerInv'
    <3>1. \A t \in tagger'.unwinding : t # None BY <1>t, <1>2, TurnValues DEF TaggerValues
    <3>2. None \notin past.ended BY DEF TaggerInv
    <3>3. CASE tagger'.aborting = None /\ tagger'.own = None
      BY <1>2, <1>a, <3>1, <3>2, <3>3 DEF TaggerInv
    <3>4. CASE /\ tagger'.aborting = tagger.aborting /\ cut' = cut
               /\ tagger'.own \in {tagger.own, None}
      <4>1. cut = "tagger" /\ ~drains[tagger.aborting].live BY <1>2 DEF TaggerInv
      <4>2. tagger'.own \in {tagger.aborting, None} BY <1>2, <1>a, <3>4
      <4>q. QED BY <1>2, <1>a, <3>1, <3>2, <3>4, <4>1, <4>2 DEF TaggerInv
    <3>q. QED BY <1>2, <3>3, <3>4
  <2>3. QueueInv'
    <3> SUFFICES ASSUME NEW t \in Turns PROVE ReplyKept(t)' BY DEF QueueInv
    <3>1. ReplyKept(t) BY DEF QueueInv
    <3>q. QED BY <1>2, <1>a, <3>1 DEF ReplyKept
  <2>4. SpokenInv' BY <1>2 DEF SpokenInv
  <2>q. QED BY <2>1, <2>2, <2>3, <2>4
<1>3. CASE AbortDone
  <2>1. /\ tagger.aborting # None /\ UNCHANGED <<drains, past>>
        /\ tagger' = [tagger EXCEPT !.aborting = None, !.own = IF @ = tagger.aborting THEN None ELSE @]
    BY <1>3 DEF AbortDone
  <2>2. tagger.own = tagger.aborting \/ tagger.own = None BY <1>a, <2>1
  <2>3. /\ tagger'.aborting = None /\ tagger'.own = None /\ tagger'.collecting = tagger.collecting
        /\ tagger'.finishing = tagger.finishing /\ tagger'.id = tagger.id
        /\ tagger'.unwinding = tagger.unwinding
    BY <1>t, <2>1, <2>2 DEF Taggers
  <2>q. QED BY <1>2, <2>1, <2>3
<1>4. ASSUME NEW o \in Turns, Unwind(o) PROVE NewInv' /\ TaggerInv' /\ QueueInv' /\ SpokenInv'
  <2>1. /\ o \in tagger.unwinding /\ UNCHANGED <<drains, past, cut>>
        /\ tagger' = [tagger EXCEPT !.unwinding = @ \ {o}, !.own = IF @ = o THEN None ELSE @]
    BY <1>4 DEF Unwind, input
  <2>2. /\ tagger'.aborting = tagger.aborting /\ tagger'.collecting = tagger.collecting
        /\ tagger'.finishing = tagger.finishing /\ tagger'.id = tagger.id
        /\ tagger'.unwinding \subseteq tagger.unwinding
        /\ tagger'.own = IF tagger.own = o THEN None ELSE tagger.own
    BY <1>t, <2>1 DEF Taggers
  <2>3. CASE tagger.own = o
    <3>1. tagger.aborting = o BY <2>1, <2>3 DEF TaggerInv
    <3>2. tagger.aborting # None BY <3>1, TurnValues
    <3>q. QED BY <1>2, <2>1, <2>2, <2>3, <3>2
  <2>4. CASE tagger.own # o
    <3>0. tagger'.own = tagger.own BY <2>2, <2>4
    <3>1. NewInv'
      <4>1. \A t \in Turns : Touched(t)' => Touched(t) BY <2>1, <2>2, <3>0 DEF Touched
      <4>q. QED BY <4>1, NewKept
    <3>2. TaggerInv' BY <2>1, <2>2, <3>0 DEF TaggerInv
    <3>3. QueueInv'
      <4> SUFFICES ASSUME NEW t \in Turns PROVE ReplyKept(t)' BY DEF QueueInv
      <4>1. ReplyKept(t) BY DEF QueueInv
      <4>2. ToRelease(t)' = ToRelease(t) BY <2>1, <2>2 DEF ToRelease
      <4>q. QED BY <2>1, <2>2, <4>1, <4>2 DEF ReplyKept
    <3>4. SpokenInv' BY <2>1 DEF SpokenInv
    <3>q. QED BY <3>1, <3>2, <3>3, <3>4
  <2>q. QED BY <2>3, <2>4
<1>q. QED BY <1>1, <1>3, <1>4

\* The stages before and behind the tagger leave what it keeps alone.
LEMMA TaggerKept ==
  ASSUME PipeTypes, CutInv, HeardInv, OrderInv, NewInv, TaggerInv, QueueInv, SpokenInv,
         [PipeNext]_pipeVars,
         UNCHANGED <<tagger, drains>>, cut = "tagger" => cut' = "tagger",
         past' = past \/ \E b : past' = [past EXCEPT !.strayAudio = b]
  PROVE  NewInv' /\ TaggerInv' /\ QueueInv' /\ SpokenInv'
<1>1. /\ past'.got = past.got /\ past'.released = past.released /\ past'.ended = past.ended
      /\ past'.silenced = past.silenced /\ past'.lastOut = past.lastOut
  <2>1. past \in Pasts BY DEF PipeTypes
  <2>q. QED BY <2>1 DEF Pasts
<1>2. \A t \in Turns : Touched(t)' => Touched(t) BY <1>1 DEF Touched
<1>3. TaggerInv' BY <1>1 DEF TaggerInv
<1>4. QueueInv' BY <1>1 DEF QueueInv, ReplyKept, ToRelease
<1>5. SpokenInv' BY <1>1 DEF SpokenInv
<1>q. QED BY <1>2, <1>3, <1>4, <1>5, NewKept

LEMMA TaggerStep ==
  ASSUME PipeTypes, CutInv, HeardInv, OrderInv, NewInv, TaggerInv, QueueInv, SpokenInv,
         [PipeNext]_pipeVars
  PROVE  NewInv' /\ TaggerInv' /\ QueueInv' /\ SpokenInv'
<1>1. CASE TaggerTakes
  <2> DEFINE f == Head(toTagger)
  <2>1. /\ toTagger # <<>> /\ f # CutFrame /\ toTagger' = Tail(toTagger)
        /\ UNCHANGED <<toTap, cut>> /\ tagger.finishing = None /\ tagger.aborting = None
        /\ \/ f.kind = "start" /\ BeginTurn(f.turn)
           \/ tagger.collecting /\ CollectText(f)
           \/ tagger.collecting /\ CollectEnd(f)
           \/ PassOn(f)
    BY <1>1 DEF TaggerTakes, input
  <2>2. f \in Frames
    <3>1. toTagger \in Seq(Frames) BY DEF PipeTypes
    <3>q. QED BY <2>1, <3>1, QueueTake
  <2>3. CASE f.kind = "start" /\ BeginTurn(f.turn) BY <2>1, <2>2, <2>3, BeginStep
  <2>4. CASE tagger.collecting /\ CollectText(f) BY <2>1, <2>2, <2>4, TextStep
  <2>5. CASE tagger.collecting /\ CollectEnd(f) BY <2>1, <2>2, <2>5, EndStep
  <2>6. CASE PassOn(f)
    <3>1. UNCHANGED <<tagger, drains, past>> BY <2>6 DEF PassOn
    <3>q. QED BY <2>1, <3>1, TaggerKept
  <2>q. QED BY <2>1, <2>3, <2>4, <2>5, <2>6
<1>2. CASE InterruptTagger BY <1>2, AbortStep
<1>3. CASE FinishTurn \/ AbortDone \/ \E t \in Turns : Unwind(t) BY <1>3, CleanStep
<1>4. ASSUME NEW t \in Turns, Drain(t) PROVE NewInv' /\ TaggerInv' /\ QueueInv' /\ SpokenInv'
  BY <1>4, DrainStep
<1>5. ASSUME UNCHANGED <<tagger, drains, past>>, cut = "tagger" => cut' = "tagger"
      PROVE  NewInv' /\ TaggerInv' /\ QueueInv' /\ SpokenInv'
  BY <1>5, TaggerKept
<1>6. CASE InterruptTts
  <2>1. UNCHANGED <<tagger, drains>> /\ cut # "tagger" BY <1>6 DEF InterruptTts
  <2>2. past' = [past EXCEPT !.strayAudio = @ \/ synth.unread # <<>>] BY <1>6 DEF InterruptTts
  <2> DEFINE b == past.strayAudio \/ synth.unread # <<>>
  <2>3. past' = [past EXCEPT !.strayAudio = b] BY <2>2
  <2> HIDE DEF b
  <2>4. \E c : past' = [past EXCEPT !.strayAudio = c] BY <2>3
  <2>q. QED BY <2>1, <2>4, TaggerKept
<1>q. QED
  BY <1>1, <1>2, <1>3, <1>4, <1>5, <1>6
  DEF PipeNext, pipeVars, input, UserStartsSpeaking, UserStopsSpeaking, BotReported, DebounceEnds,
      Hear, TakeTranscript, InterruptBrain, TurnStarts, TurnSays, TurnEnds, TapPasses, InterruptTap,
      RunTts, SocketBreaks, ReadSocket, Play, InterruptOutput

RepliesInv == HeardInv /\ OrderInv /\ NewInv /\ TaggerInv /\ QueueInv /\ SpokenInv

LEMMA RepliesStart == PipeInit => RepliesInv
<1> SUFFICES ASSUME PipeInit PROVE RepliesInv OBVIOUS
<1>1. HeardInv BY TurnValues DEF PipeInit, HeardInv, Started
<1>2. StartsIn(<<>>) = {} BY DEF StartsIn
<1>3. OrderInv
  <2>1. Flow(<<>>, TRUE) BY DEF Flow
  <2>2. Over(<<>>, TRUE) BY DEF Over
  <2>3. Over(<<>>, TRUE) = TRUE BY DEF Over
  <2>4. toTap = <<>> /\ toTagger = <<>> /\ (~tagger.collecting) = TRUE BY DEF PipeInit
  <2>q. QED BY <1>2, <2>1, <2>2, <2>3, <2>4 DEF OrderInv
<1>4. past.lastOut = NoSentence /\ past.lastOut.turn = None BY DEF PipeInit, NoSentence, None
<1>5. NewInv BY <1>4, TurnValues DEF PipeInit, NewInv, Touched
<1>6. TaggerInv BY DEF PipeInit, TaggerInv
<1>7. QueueInv BY DEF PipeInit, QueueInv, ReplyKept
<1>8. SpokenInv BY <1>4 DEF SpokenInv
<1>q. QED BY <1>1, <1>3, <1>5, <1>6, <1>7, <1>8 DEF RepliesInv

LEMMA RepliesHold == PipeSpec => [](PipeTypes /\ CutInv /\ RepliesInv)
<1>1. PipeInit => PipeTypes /\ CutInv /\ RepliesInv BY PipeStarts, RepliesStart
<1>2. PipeTypes /\ CutInv /\ RepliesInv /\ [PipeNext]_pipeVars => (PipeTypes /\ CutInv /\ RepliesInv)'
  <2> SUFFICES ASSUME PipeTypes, CutInv, RepliesInv, [PipeNext]_pipeVars
               PROVE  (PipeTypes /\ CutInv /\ RepliesInv)'
    OBVIOUS
  <2>1. HeardInv /\ OrderInv /\ NewInv /\ TaggerInv /\ QueueInv /\ SpokenInv BY DEF RepliesInv
  <2>2. PipeTypes' /\ CutInv' BY PipeTypeStep
  <2>3. HeardInv' BY <2>1, HeardStep
  <2>4. OrderInv' BY <2>1, OrderStep
  <2>5. NewInv' /\ TaggerInv' /\ QueueInv' /\ SpokenInv' BY <2>1, TaggerStep
  <2>q. QED BY <2>2, <2>3, <2>4, <2>5 DEF RepliesInv
<1>q. QED BY <1>1, <1>2, PTL DEF PipeSpec

\* When a reply has ended at the tagger without having been interrupted, every sentence
\* of it has been released to the synthesizer, whatever other replies were cleaned up.
THEOREM ReplyWholeHolds == PipeSpec => []ReplyWhole
<1>1. PipeTypes /\ CutInv /\ RepliesInv => ReplyWhole
  <2> SUFFICES ASSUME PipeTypes, RepliesInv, NEW t \in past.ended, t \notin past.silenced
               PROVE  past.released[t] = past.got[t]
    BY DEF ReplyWhole
  <2>1. t \in Turns BY TaggerTypes, TurnValues DEF TaggerValues, RepliesInv, TaggerInv
  <2>2. ReplyKept(t) BY <2>1 DEF RepliesInv, QueueInv
  <2>q. QED BY <2>2 DEF ReplyKept
<1>q. QED BY <1>1, RepliesHold, PTL

\* Only a drain task releases sentences.
LEMMA ReleasedBy ==
  ASSUME PipeTypes, [PipeNext]_pipeVars
  PROVE  \/ past'.released = past.released /\ past'.lastOut = past.lastOut
         \/ \E t \in Turns : Drain(t)
<1> DEFINE Kept == past'.released = past.released /\ past'.lastOut = past.lastOut
<1>t. past \in Pasts /\ Collected \in Pasts BY DrainValues DEF PipeTypes
<1>c. Collected.released = past.released /\ Collected.lastOut = past.lastOut
  BY <1>t DEF Collected, Pasts
<1>1. CASE TaggerTakes
  <2> DEFINE f == Head(toTagger)
  <2>1. BeginTurn(f.turn) \/ CollectText(f) \/ CollectEnd(f) \/ PassOn(f) BY <1>1 DEF TaggerTakes
  <2> HIDE DEF f
  <2>2. CASE BeginTurn(f.turn) \/ CollectText(f) \/ PassOn(f)
    BY <1>c, <2>2 DEF BeginTurn, CollectText, PassOn
  <2>3. CASE CollectEnd(f)
    <3> DEFINE before == IF tagger.fragment /\ ~f.flag THEN Collected ELSE past
    <3>1. past' = [before EXCEPT !.ended = IF tagger.own = None THEN @ \cup {tagger.id} ELSE @]
      BY <2>3 DEF CollectEnd
    <3>2. /\ before \in Pasts /\ before.released = past.released
          /\ before.lastOut = past.lastOut
      BY <1>t, <1>c
    <3> HIDE DEF before
    <3>q. QED BY <3>1, <3>2 DEF Pasts
  <2>q. QED BY <2>1, <2>2, <2>3
<1>2. CASE FinishTurn BY <1>t, <1>2 DEF FinishTurn, Pasts
<1>3. CASE InterruptTagger BY <1>t, <1>3 DEF InterruptTagger, Pasts
<1>4. CASE InterruptTts BY <1>t, <1>4 DEF InterruptTts, Pasts
<1>5. CASE UNCHANGED past BY <1>5
<1>q. QED
  BY <1>1, <1>2, <1>3, <1>4, <1>5
  DEF PipeNext, pipeVars, input, UserStartsSpeaking, UserStopsSpeaking, BotReported, DebounceEnds,
      Hear, TakeTranscript, InterruptBrain, TurnStarts, TurnSays, TurnEnds, TapPasses, InterruptTap,
      AbortDone, Unwind, RunTts, SocketBreaks, ReadSocket, Play, InterruptOutput

\* What a drain task releases is the next sentence of a reply that was not interrupted,
\* and of no earlier reply than the last one released.
LEMMA DrainReleases ==
  ASSUME PipeTypes, RepliesInv, NEW t \in Turns, Drain(t)
  PROVE  /\ t \notin past.silenced /\ past.lastOut.turn \in MaybeTurn /\ past.lastOut.turn <= t
         /\ \A u \in Turns : u # t => past'.released[u] = past.released[u]
         /\ \/ past'.lastOut = past.lastOut
            \/ past'.lastOut.turn = t /\ past'.lastOut.n = past.released[t] + 1
         /\ past.lastOut.turn = t => past.lastOut.n = past.released[t]
<1>t. past \in Pasts /\ TaggerValues BY TaggerTypes DEF PipeTypes
<1>1. drains[t].live /\ ReplyKept(t) BY DEF Drain, RepliesInv, QueueInv
<1>2. past.lastOut.turn = t => past.lastOut.n = past.released[t]
  BY TurnValues DEF RepliesInv, SpokenInv
<1> DEFINE item == Head(drains[t].queue)
           s == [turn |-> t, n |-> past.released[t] + 1, half |-> item.half]
<1>3. past' = past \/ past' = [past EXCEPT !.released[t] = @ + 1, !.lastOut = s] BY DEF Drain
<1>4. s.turn = t /\ s.n = past.released[t] + 1 OBVIOUS
<1> HIDE DEF item, s
<1>5. CASE past' = [past EXCEPT !.released[t] = @ + 1, !.lastOut = s]
  <2>1. past'.lastOut = s /\ \A u \in Turns : u # t => past'.released[u] = past.released[u]
    BY <1>t, <1>5 DEF Pasts
  <2>q. QED BY <1>t, <1>1, <1>2, <1>4, <2>1 DEF ReplyKept, TaggerValues
<1>6. CASE past' = past BY <1>t, <1>1, <1>2, <1>6 DEF ReplyKept, TaggerValues
<1>q. QED BY <1>3, <1>5, <1>6

\* Once the tagger has handled an interruption, no sentence of a reply it was working on
\* reaches the synthesizer any more.
THEOREM InterruptedStaysSilentHolds == PipeSpec => InterruptedStaysSilent
<1>1. PipeTypes /\ CutInv /\ RepliesInv /\ [PipeNext]_pipeVars =>
        [\A t \in past.silenced : past'.released[t] = past.released[t]]_pipeVars
  <2> SUFFICES ASSUME PipeTypes, RepliesInv, [PipeNext]_pipeVars, NEW t \in past.silenced
               PROVE  past'.released[t] = past.released[t]
    OBVIOUS
  <2>1. t \in Turns BY TaggerTypes DEF TaggerValues
  <2>2. ASSUME NEW u \in Turns, Drain(u) PROVE past'.released[t] = past.released[t]
    BY <2>1, <2>2, DrainReleases
  <2>q. QED BY <2>2, ReleasedBy
<1>q. QED BY <1>1, RepliesHold, PTL DEF PipeSpec, InterruptedStaysSilent

\* Replies are spoken one after the other, and each sentence by sentence in its order.
THEOREM RepliesInOrderHolds == PipeSpec => RepliesInOrder
<1> DEFINE Ordered == past'.lastOut # past.lastOut =>
                        \/ past'.lastOut.turn > past.lastOut.turn
                        \/ /\ past'.lastOut.turn = past.lastOut.turn
                           /\ past'.lastOut.n = past.lastOut.n + 1
<1>1. PipeTypes /\ CutInv /\ RepliesInv /\ [PipeNext]_pipeVars => [Ordered]_pipeVars
  <2> SUFFICES ASSUME PipeTypes, RepliesInv, [PipeNext]_pipeVars, past'.lastOut # past.lastOut
               PROVE  \/ past'.lastOut.turn > past.lastOut.turn
                      \/ /\ past'.lastOut.turn = past.lastOut.turn
                         /\ past'.lastOut.n = past.lastOut.n + 1
    OBVIOUS
  <2>1. PICK t \in Turns : Drain(t) BY ReleasedBy
  <2>2. /\ past.lastOut.turn \in MaybeTurn /\ past.lastOut.turn <= t
        /\ past'.lastOut.turn = t /\ past'.lastOut.n = past.released[t] + 1
        /\ past.lastOut.turn = t => past.lastOut.n = past.released[t]
    BY <2>1, DrainReleases
  <2>3. past.lastOut.turn \in Nat /\ t \in Nat
    <3>1. \A u \in MaybeTurn : u \in Nat BY TurnValues
    <3>q. QED BY <2>2, <3>1, TurnValues
  <2>q. QED BY <2>2, <2>3
<1>q. QED BY <1>1, RepliesHold, PTL DEF PipeSpec, RepliesInOrder

=============================================================================
