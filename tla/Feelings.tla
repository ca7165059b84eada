------------------------------- MODULE Feelings -------------------------------
(***************************************************************************)
(* What the companion feels and what each surface shows of it: the rules   *)
(* that move mood_state and relationship_state (backend/app/behavior/      *)
(* mood.py, kernel.py, rules.py), the projection of the two onto a tone    *)
(* (tone.py), and the surfaces that render it: the decision of a turn      *)
(* (engine.py), the synthesizer (main.py) and the spoken calls             *)
(* (backend/app/rtc/state_block.py).                                       *)
(*                                                                         *)
(* A value is a whole number of thousandths, as the rows keep three        *)
(* decimals.  A message is the set of what rules.py finds in it.  A turn   *)
(* reads both rows, decides, and writes them later, so turns and ticks can *)
(* cross; the store calls inside each of the two steps are SoulTurn's.     *)
(***************************************************************************)
EXTENDS Integers

CONSTANTS
  Talks,      \* turns that can be under way at once
  Messages,   \* what can be said: a subset of AllMessages
  Appraisals, \* what the model can make of a turn
  Starts,     \* the rows as an earlier run of the program left them
  MaxWrites   \* bound: writes of the rows

Traits == {"rambling", "overwhelmed", "refused"}
\* A low-value message is one of a few words, too short for the other patterns.
AllMessages == {{"empty", "low"}, {"low"}} \cup SUBSET Traits
Labels == {"idle", "annoyed", "worried", "sad", "angry", "sleepy"}
Level == 0..1000

Mood == [label : Labels, energy : Level, annoyance : Level, boredom : Level,
         worry : Level, loneliness : Level]
Bond == [trust : Level, closeness : Level, familiarity : Level, tension : Level]
Appraisal == [valence : Int, relevance : Level,
              trust : Int, closeness : Int, tension : Int]

ASSUME MessagesAssumption == Messages \subseteq AllMessages
ASSUME AppraisalsAssumption == Appraisals \subseteq Appraisal
ASSUME StartsAssumption == Starts \subseteq [mood : Mood, bond : Bond]

VARIABLES
  mood,    \* the row of mood_state, without the streak
  bond,    \* the row of relationship_state
  streak,  \* positive_zone_streak in the metadata of mood_state
  talk,    \* per turn: its stage, its message, and the rows as it read them
  decided,    \* the last decision, until a row is written again
  plain,   \* history: how many messages have been plain ones, up to the last
  crossing,   \* history: a turn decided from rows another turn then wrote
  writes

feelVars == <<mood, bond, streak, talk, decided, plain, crossing, writes>>

-----------------------------------------------------------------------------
(* Values *)

Clamp(x) == IF x < 0 THEN 0 ELSE IF x > 1000 THEN 1000 ELSE x
Limit(x, cap) == IF x > cap THEN cap ELSE IF x < -cap THEN -cap ELSE x

\* n / d to the nearest whole number.
Rounded(n, d) == (2 * n + d) \div (2 * d)

-----------------------------------------------------------------------------
(* What a message, a tick and an appraisal do *)

\* apply_user_message_mood_delta: the first trait in its order counts.
AfterMessage(m, msg) ==
  IF "low" \in msg THEN
    [m EXCEPT !.label = "annoyed", !.annoyance = Clamp(@ + 120), !.boredom = Clamp(@ + 80)]
  ELSE IF "rambling" \in msg THEN
    [m EXCEPT !.label = "annoyed", !.annoyance = Clamp(@ + 80), !.boredom = Clamp(@ + 50)]
  ELSE IF "overwhelmed" \in msg THEN
    [m EXCEPT !.label = "worried", !.worry = Clamp(@ + 150), !.annoyance = Clamp(@ - 120)]
  ELSE IF "refused" \in msg THEN [m EXCEPT !.label = "angry"]
  ELSE [m EXCEPT !.loneliness = Clamp(@ - 40), !.boredom = Clamp(@ - 50),
                 !.annoyance = Clamp(@ - 50), !.energy = Clamp(@ + 20)]

\* The relationship write of _evaluate_user_message; a refusal and rambling end
\* it before an overwhelmed user is met with trust.
AfterWords(b, msg) ==
  IF "refused" \in msg THEN [b EXCEPT !.tension = Clamp(@ + 80), !.trust = Clamp(@ - 50)]
  ELSE IF msg = {"overwhelmed"} THEN [b EXCEPT !.trust = Clamp(@ + 40)]
  ELSE b

\* Mutant: a tick takes energy without the lower bound.
AfterTickUnclamped(m, b) ==
  [m EXCEPT !.boredom = Clamp(@ + 50), !.energy = @ - 20,
            !.loneliness = Clamp(@ + Rounded(30 * (1000 - b.closeness), 1000))]

\* The columns _evaluate_idle_tick stores of apply_idle_tick_mood_delta: the
\* annoyance and the worry it has relaxed are not among them.
AfterTick(m, b) ==
  LET n == [m EXCEPT !.boredom = Clamp(@ + 50), !.energy = Clamp(@ - 20),
                     !.loneliness = Clamp(@ + Rounded(30 * (1000 - b.closeness), 1000))]
  IN [n EXCEPT !.label = IF n.boredom >= 550 \/ n.loneliness >= 550 THEN "annoyed"
                         ELSE IF n.boredom >= 400 \/ n.energy <= 350 THEN "sleepy" ELSE @]

\* apply_signals_to_kernel.
Meaningful(a) == a.relevance >= 500 \/ a.valence \notin -499..499
MoodAppraised(m, a) ==
  [m EXCEPT !.worry = IF a.valence < 0
                        THEN Clamp(@ + Rounded((-a.valence) * a.relevance, 10000))
                        ELSE IF a.valence > 0 THEN Rounded(9 * @, 10) ELSE @,
            !.boredom = IF a.valence > 0 THEN Rounded(95 * @, 100) ELSE @,
            !.loneliness = IF Meaningful(a) THEN Clamp(@ - 100) ELSE @]
BondAppraised(b, a) ==
  LET warmer == a.valence > 0 /\ a.relevance > 0
      tension == Clamp(b.tension + Limit(a.tension, 100))
  IN [trust |-> Clamp(Clamp(b.trust + Limit(a.trust, 100)) + IF warmer THEN 10 ELSE 0),
      closeness |-> Clamp(Clamp(b.closeness + Limit(a.closeness, 100)) + IF warmer THEN 20 ELSE 0),
      familiarity |-> Clamp(b.familiarity + 10),
      tension |-> IF a.tension > 0 THEN tension ELSE Rounded(9 * tension, 10)]

-----------------------------------------------------------------------------
(* The tone *)

IsWorried(m, overwhelmed) == overwhelmed \/ m.worry >= 500 \/ m.label \in {"sad", "worried"}
IsRealSharp(m, b) == m.annoyance >= 500 \/ b.tension >= 550

InPositiveZone(m, b, overwhelmed) ==
  /\ ~IsWorried(m, overwhelmed) /\ ~IsRealSharp(m, b)
  /\ m.annoyance < 300 /\ m.energy >= 300
  /\ b.tension < 300 /\ b.closeness >= 670

\* The register of project_tone: a real state wins over a performance.
ProjectTone(m, b, overwhelmed, armed) ==
  IF IsWorried(m, overwhelmed) THEN "comfort"
  ELSE IF IsRealSharp(m, b) THEN "real_sharp"
  ELSE IF InPositiveZone(m, b, overwhelmed) THEN IF armed THEN "playful" ELSE "warm"
  ELSE IF m.loneliness >= 500 THEN "lonely" ELSE "neutral"

\* Mutant: only a refusal resets the streak.
NextStreakForgiving(s, msg, positive) ==
  IF positive THEN s + 1 ELSE IF "refused" \in msg THEN 0 ELSE s

\* next_positive_streak.
NextStreak(s, msg, positive) == IF positive THEN s + 1 ELSE 0
Armed(s) == s >= 2

\* What a surface shows that reads the rows as they are now, without the message
\* the last turn was about: the synthesizer, the speaking style of a call and
\* its emotion tag.
Shown == ProjectTone(mood, bond, FALSE, Armed(streak))

\* register_intensity and the rate of tts_emotion_directive, in percent.
Intensity(register) ==
  [comfort    |-> IF mood.label \in {"sad", "worried"} /\ mood.worry < 800 THEN 800 ELSE mood.worry,
   real_sharp |-> IF mood.annoyance > bond.tension THEN mood.annoyance ELSE bond.tension,
   playful    |-> bond.closeness, lonely |-> mood.loneliness, warm |-> 0, neutral |-> 0][register]
SpeechRate(register) ==
  LET pace == 6 + Rounded(14 * Intensity(register), 1000)
  IN IF register = "comfort" THEN -pace
     ELSE IF register \in {"real_sharp", "playful", "lonely"} THEN pace ELSE 0

\* _mood_line, _is_fully_neutral: build_rtc_state_block then says nothing.
Troubled(m) ==
  m.annoyance >= 500 \/ m.worry >= 500 \/ m.loneliness >= 500 \/ m.boredom >= 500
    \/ m.energy <= 300
FullyNeutral ==
  ~Troubled(mood) /\ bond.trust \in 340..669 /\ bond.closeness \in 340..669
                  /\ bond.tension < 400

\* The line build_rtc_welcome_message opens a call with.
Welcome ==
  CASE mood.annoyance >= 500  -> "annoyed"
    [] mood.annoyance < 500 /\ mood.worry >= 500 -> "worried"
    [] mood.annoyance < 500 /\ mood.worry < 500 /\ mood.loneliness >= 500 -> "lonely"
    [] OTHER -> IF mood.boredom >= 500 THEN "bored" ELSE IF mood.energy <= 300 THEN "tired"
                ELSE IF bond.closeness >= 670 /\ bond.tension < 300 THEN "close" ELSE "default"

-----------------------------------------------------------------------------
(* Turns and ticks *)

NoDecision == [register |-> "none", msg |-> {}]
Registers == {"comfort", "real_sharp", "playful", "warm", "lonely", "neutral"}
Stage == [at : {"idle", "answering"}]
Decision == [at : {"deciding"}, msg : AllMessages, mood : Mood, bond : Bond,
             streak : Nat, register : Registers, crossed : BOOLEAN]

FeelInit ==
  /\ \E s \in Starts : mood = s.mood /\ bond = s.bond
  /\ streak = 0
  /\ talk = [t \in Talks |-> [at |-> "idle"]]
  /\ decided = NoDecision
  /\ plain = 0
  /\ crossing = FALSE
  /\ writes = 0

Deciding(t) == talk[t].at = "deciding"

\* The turns that have read the rows are left with what they read.
HandOn(t, stage) ==
  talk' = [u \in Talks |-> IF u = t THEN [at |-> stage]
                           ELSE IF Deciding(u) THEN [talk[u] EXCEPT !.crossed = TRUE]
                           ELSE talk[u]]

\* _evaluate_user_message reads the rows and decides: on the tone of the rows
\* as they were, and on a streak that already counts this message.
Decide(t, msg) ==
  /\ ~Deciding(t) /\ writes < MaxWrites
  /\ LET overwhelmed == "overwhelmed" \in msg
         positive == msg = {} /\ InPositiveZone(mood, bond, overwhelmed)
         s == NextStreak(streak, msg, positive)
     IN talk' = [talk EXCEPT ![t] =
          [at |-> "deciding", msg |-> msg, mood |-> AfterMessage(mood, msg),
           bond |-> AfterWords(bond, msg), streak |-> s, crossed |-> FALSE,
           register |-> ProjectTone(mood, bond, overwhelmed, Armed(s))]]
  /\ UNCHANGED <<mood, bond, streak, decided, plain, crossing, writes>>

\* It writes the mood, the streak, and for some messages the relationship. A
\* refusal carries no tone.
Settle(t) ==
  /\ Deciding(t) /\ writes < MaxWrites
  /\ mood' = talk[t].mood /\ streak' = talk[t].streak
  /\ bond' = IF "refused" \in talk[t].msg
               THEN [bond EXCEPT !.tension = talk[t].bond.tension, !.trust = talk[t].bond.trust]
             ELSE IF talk[t].msg = {"overwhelmed"} THEN [bond EXCEPT !.trust = talk[t].bond.trust]
             ELSE bond
  /\ decided' = IF talk[t].crossed \/ "refused" \in talk[t].msg THEN NoDecision
             ELSE [register |-> talk[t].register, msg |-> talk[t].msg]
  /\ plain' = IF talk[t].msg = {} THEN plain + 1 ELSE 0
  /\ crossing' = (crossing \/ \E u \in Talks \ {t} : Deciding(u))
  /\ writes' = writes + 1
  /\ HandOn(t, "answering")

\* The model's reply brings an appraisal of the turn. Without one the turn is over
\* as it stands.
Appraise(t, a) ==
  /\ talk[t].at = "answering" /\ writes < MaxWrites
  /\ mood' = MoodAppraised(mood, a) /\ bond' = BondAppraised(bond, a)
  /\ decided' = NoDecision /\ writes' = writes + 1
  /\ HandOn(t, "idle")
  /\ UNCHANGED <<streak, plain, crossing>>

\* _evaluate_idle_tick.
IdleTick ==
  /\ writes < MaxWrites
  /\ mood' = AfterTick(mood, bond)
  /\ decided' = NoDecision /\ writes' = writes + 1
  /\ talk' = [u \in Talks |-> IF Deciding(u) THEN [talk[u] EXCEPT !.crossed = TRUE] ELSE talk[u]]
  /\ UNCHANGED <<bond, streak, plain, crossing>>

FeelNext ==
  \/ \E t \in Talks :
       \/ \E msg \in Messages : Decide(t, msg)
       \/ Settle(t)
       \/ \E a \in Appraisals : Appraise(t, a)
  \/ IdleTick

FeelSpec == FeelInit /\ [][FeelNext]_feelVars

-----------------------------------------------------------------------------
(* Properties *)

\* Every value of the two rows stays in the interval its thresholds are about, and
\* what the turns hold has the types the engine gives it.
FeelTypeOK ==
  /\ mood \in Mood /\ bond \in Bond
  /\ streak \in Nat
  /\ talk \in [Talks -> Stage \cup Decision]
  /\ decided = NoDecision \/ decided \in [register : Registers, msg : AllMessages]
  /\ plain \in Nat /\ crossing \in BOOLEAN /\ writes \in Nat

\* The companion teases only somebody whose last two messages it has taken for
\* plain ones: whatever came in between, a refusal, rambling, a cry for help,
\* has ended the mood on every surface.  Two turns that decide from the same
\* rows can keep a streak the other has just ended.
TeasingIsEarnedUnlessRaced ==
  ~crossing => (Shown = "playful" => plain >= 2)

\* Until the rows are written again, a surface that reads them teases if and
\* only if the decision did; and when the decision comforts, over a message that
\* does not annoy, it comforts and speaks more slowly.
SurfacesAgree ==
  /\ decided.register = "playful" <=> (decided # NoDecision /\ Shown = "playful")
  /\ decided.register = "comfort" /\ "low" \notin decided.msg /\ "rambling" \notin decided.msg
       => Shown = "comfort" /\ SpeechRate(Shown) < 0

\* A call that is told nothing of the companion's state hides no sharp, lonely
\* or close tone.
SilenceIsNeutral == FullyNeutral => Shown \in {"neutral", "comfort"}

\* All three: what is shown is earned, is the same everywhere, and is not hidden.
TonesHonest == TeasingIsEarnedUnlessRaced /\ SurfacesAgree /\ SilenceIsNeutral

\* A companion that softens its tone does not open a call with the line of an
\* annoyed one (violated: the welcome line does not read the projection).
WelcomeSuppresses == Shown = "comfort" => Welcome # "annoyed"
=============================================================================
