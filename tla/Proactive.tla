------------------------------- MODULE Proactive -------------------------------
(***************************************************************************)
(* What the companion does on its own: the proactive check and the idle    *)
(* tick that a client's timers post to /behavior/evaluate, and the two     *)
(* rows of metadata they work on, behavior_runtime_state and the metadata  *)
(* of mood_state (backend/app/behavior/engine.py, idle_experience.py,      *)
(* proactive_opener.py, proactive_reason.py, backend/app/memory/           *)
(* _store_state.py).  A user's turn also writes the latter.                *)
(*                                                                         *)
(* A request reads the metadata, may call the model, and patches some keys *)
(* afterwards; it reads the clock together with the metadata.  The patch   *)
(* itself reads both rows and writes both back in another transaction.     *)
(* Requests overlap: the client's timer does not wait for an answer, and   *)
(* every open window has timers of its own.                                *)
(*                                                                         *)
(* The history of openers is written and never read, and is left out.      *)
(***************************************************************************)
EXTENDS Naturals, Sequences, FiniteSets

CONSTANTS
  Requests,
  Materials,       \* the pool of materials for idle experiences
  MaterialHistory, \* budget.idle_experience_fingerprint_history_size
  ShareHistory,    \* budget.share_fingerprint_history_size
  DailyMax,        \* budget.idle_experience_daily_max
  MinGap,          \* budget.idle_experience_min_gap_hours
  DayLength,       \* hours of a day
  MaxTime,         \* bound: hours
  MaxExperiences,  \* bound: experiences ever made
  MaxStreak,       \* bound: positive turns in a row
  MaxFaults        \* bound: experiences that are made but not recorded

ASSUME HistoryAssumption == {MaterialHistory, ShareHistory} \subseteq Nat \ {0}
ASSUME LimitsAssumption == DailyMax \in Nat /\ MinGap \in Nat /\ DayLength \in Nat \ {0}
ASSUME BoundsAssumption ==
  {MaxTime, MaxExperiences, MaxStreak, MaxFaults} \subseteq Nat

VARIABLES
  runtime,     \* behavior_runtime_state.metadata; 0 and <<>> for an absent key
  streak,      \* positive_streak in the metadata of mood_state
  experiences, \* the idle_experience memories, oldest first
  now,         \* the hour, from 1
  pc,          \* what each request does next
  moment,      \* the hour each request goes by
  snap,        \* the metadata it has read and will use
  choice,      \* the material, or the memory to share, it has chosen
  patch,       \* the keys it is going to write
  base,        \* both rows as its patch has read them
  stale,       \* history: keys written since it read them
  raced,       \* history: a request has written keys that were stale
  drawn,       \* history: hours the checks have given a chance to
  origin,      \* history: the hour of the first check
  told,        \* history: the latest experiences shared
  repeated,    \* history: one of them was shared again
  positive,    \* history: positive turns since the last other one
  faults

request == <<moment, snap, choice, patch, base>>
history == <<raced, drawn, origin, told, repeated, positive>>
vars == <<runtime, streak, experiences, now, pc, request, stale, history, faults>>

ExperienceKeys == {"lastAt", "date", "count", "material"}
Keys == {"lastCheck", "shared"} \cup ExperienceKeys
Runtime == [lastCheck : Nat, shared : Seq(Nat),
            lastAt : Nat, date : Nat, count : Nat, material : Seq(Materials)]
Fresh == [lastCheck |-> 0, shared |-> <<>>,
          lastAt |-> 0, date |-> 0, count |-> 0, material |-> <<>>]
Nothing == [k \in {} |-> 0]
Location == {"idle", "ask", "reason", "opener", "askOpener",
             "patchRead", "patchWrite", "streak"}

\* A choice is nothing, a material, or the place of a memory in experiences.
Choices == {<<>>} \cup {<<m>> : m \in Materials} \cup {<<i>> : i \in 1 .. MaxExperiences}

TypeOK ==
  /\ runtime \in Runtime
  /\ Len(runtime.material) <= MaterialHistory /\ Len(runtime.shared) <= ShareHistory
  /\ streak \in 0 .. MaxStreak
  /\ experiences \in Seq([at : Nat, material : Materials])
  /\ now \in Nat \ {0}
  /\ pc \in [Requests -> Location]
  /\ moment \in [Requests -> Nat]
  /\ snap \in [Requests -> Runtime]
  /\ choice \in [Requests -> Choices]
  /\ \A r \in Requests : DOMAIN patch[r] \subseteq Keys \cup {"streak"}
  /\ \A r \in Requests : base[r].runtime \in Runtime /\ base[r].streak \in 0 .. MaxStreak
  /\ stale \in [Requests -> SUBSET (Keys \cup {"streak"})]
  /\ raced \in BOOLEAN /\ drawn \in Nat /\ origin \in Nat /\ positive \in 0 .. MaxStreak
  /\ told \in Seq(Nat) /\ Len(told) <= ShareHistory /\ repeated \in BOOLEAN
  /\ faults \in Nat

Init ==
  /\ runtime = Fresh /\ streak = 0 /\ experiences = <<>> /\ now = 1
  /\ pc = [r \in Requests |-> "idle"]
  /\ moment = [r \in Requests |-> 0]
  /\ snap = [r \in Requests |-> Fresh]
  /\ choice = [r \in Requests |-> <<>>]
  /\ patch = [r \in Requests |-> Nothing]
  /\ base = [r \in Requests |-> [runtime |-> Fresh, streak |-> 0]]
  /\ stale = [r \in Requests |-> {}]
  /\ raced = FALSE /\ drawn = 0 /\ origin = 0 /\ told = <<>>
  /\ repeated = FALSE /\ positive = 0
  /\ faults = 0

Goto(r, from, to) == pc[r] = from /\ pc' = [pc EXCEPT ![r] = to]

\* What the request knew is of no more use.
Forget(r) ==
  /\ moment' = [moment EXCEPT ![r] = 0]
  /\ snap' = [snap EXCEPT ![r] = Fresh]
  /\ choice' = [choice EXCEPT ![r] = <<>>]
  /\ patch' = [patch EXCEPT ![r] = Nothing]
  /\ base' = [base EXCEPT ![r] = [runtime |-> Fresh, streak |-> 0]]

Finish(r) == Forget(r) /\ pc' = [pc EXCEPT ![r] = "idle"]

stored == <<runtime, streak, experiences, now>>

Reading(keys) == [k \in Keys |-> IF k \in keys THEN runtime[k] ELSE Fresh[k]]

\* history[-cap:]
KeepLast(s, n) == IF Len(s) > n THEN SubSeq(s, Len(s) - n + 1, Len(s)) ELSE s
Among(x, s) == \E i \in DOMAIN s : s[i] = x

-----------------------------------------------------------------------------
(* The idle tick *)

Day(t) == 1 + t \div DayLength

\* _daily_count_today.
CountToday(m, t) == IF m.date = Day(t) THEN m.count ELSE 0

\* Mutant: the gap is not looked at.
AllowedWithoutGap(m, t) == CountToday(m, t) < DailyMax

\* idle_experience_allowed.
Allowed(m, t) ==
  /\ CountToday(m, t) < DailyMax
  /\ m.lastAt = 0 \/ t >= m.lastAt + MinGap

\* pick_material: what was not used lately, or anything.
Candidates(m) ==
  LET new == {x \in Materials : ~Among(x, m.material)}
  IN IF new = {} THEN Materials ELSE new

\* The request has made an experience and has not recorded it.
Unrecorded(r) == pc[r] \in {"patchRead", "patchWrite"} /\ "count" \in DOMAIN patch[r]

\* resolve_idle_experience_write: the clock, the metadata, the gate, the choice.
IdleTick(r) ==
  /\ Allowed(runtime, now)
  /\ Goto(r, "idle", "ask")
  /\ moment' = [moment EXCEPT ![r] = now]
  /\ snap' = [snap EXCEPT ![r] = Reading(ExperienceKeys)]
  /\ \E m \in Candidates(runtime) : choice' = [choice EXCEPT ![r] = <<m>>]
  /\ stale' = [stale EXCEPT ![r] =
                 IF \E u \in Requests : Unrecorded(u) THEN ExperienceKeys ELSE {}]
  /\ UNCHANGED <<stored, patch, base, history, faults>>

\* mark_idle_experience_used, record_material_fingerprint.
MarkUsed(m, t, x) ==
  [lastAt |-> t, date |-> Day(t), count |-> CountToday(m, t) + 1,
   material |-> KeepLast(Append(m.material, x), MaterialHistory)]

\* The model has put the material into words: create_memory.  The patch is
\* computed from the metadata read at first.
Create(r) ==
  /\ Len(experiences) < MaxExperiences
  /\ Goto(r, "ask", "patchRead")
  /\ experiences' = Append(experiences, [at |-> moment[r], material |-> choice[r][1]])
  /\ patch' = [patch EXCEPT ![r] = MarkUsed(snap[r], moment[r], choice[r][1])]
  /\ snap' = [snap EXCEPT ![r] = Fresh]
  /\ stale' = [u \in Requests |-> IF u = r THEN stale[u] ELSE stale[u] \cup ExperienceKeys]
  /\ raced' = (raced \/ ExperienceKeys \cap stale[r] # {})
  /\ UNCHANGED <<runtime, streak, now, moment, choice, base,
                 drawn, origin, told, repeated, positive, faults>>

-----------------------------------------------------------------------------
(* The proactive check *)

\* snapshot_longing and mark_proactive_check: the hours since the last check
\* are the chance of this one.  A disabled companion stops before that.
ProactiveCheck(r) ==
  /\ Goto(r, "idle", "patchRead")
  /\ snap' = [snap EXCEPT ![r] = Reading({"lastCheck"})]
  /\ moment' = [moment EXCEPT ![r] = now]
  /\ patch' = [patch EXCEPT ![r] = [k \in {"lastCheck"} |-> now]]
  /\ stale' = [stale EXCEPT ![r] = {}]
  /\ UNCHANGED <<stored, choice, base, history, faults>>

\* Mutant: a memory that was shared lately is picked again.
ShareableAlways == {i \in DOMAIN experiences : \A j \in DOMAIN experiences : j <= i}

\* _pick_share: the newest experience that was not shared lately.
Shareable ==
  LET new == {i \in DOMAIN experiences : ~Among(i, runtime.shared)}
  IN {i \in new : \A j \in new : j <= i}

\* pick_proactive_reason; anything on the agenda goes first, and there is always
\* the check-in.  If the roll fails the check ends here (Fail).
Reason(r) ==
  /\ Goto(r, "reason", "opener")
  /\ \E c \in {<<>>} \cup {<<i>> : i \in Shareable} : choice' = [choice EXCEPT ![r] = c]
  /\ stale' = [stale EXCEPT ![r] = {}]
  /\ UNCHANGED <<stored, moment, snap, patch, base, history, faults>>

\* resolve_proactive_opener reads the metadata that it will patch.  What is to
\* be shared was chosen before.
Opener(r) ==
  /\ Goto(r, "opener", "askOpener")
  /\ snap' = [snap EXCEPT ![r] = Reading({"shared"})]
  /\ stale' = [stale EXCEPT ![r] = IF choice[r] = <<>> THEN {} ELSE @ \cap {"shared"}]
  /\ UNCHANGED <<stored, moment, choice, patch, base, history, faults>>

\* The model has written the line.  The patch takes the list of shared memories
\* along whatever the line was about, if there is one.
OpenerAnswer(r) ==
  /\ Goto(r, "askOpener", "patchRead")
  /\ LET list == KeepLast(snap[r].shared \o choice[r], ShareHistory) IN
     patch' = [patch EXCEPT ![r] = IF list = <<>> THEN Nothing ELSE [k \in {"shared"} |-> list]]
  /\ snap' = [snap EXCEPT ![r] = Fresh]
  /\ UNCHANGED <<stored, moment, choice, base, stale, history, faults>>

-----------------------------------------------------------------------------
(* patch_behavior_runtime_metadata *)

PatchRead(r) ==
  /\ Goto(r, "patchRead", "patchWrite")
  /\ base' = [base EXCEPT ![r] = [runtime |-> runtime, streak |-> streak]]
  /\ UNCHANGED <<stored, moment, snap, choice, patch, stale, history, faults>>

\* Mutant: the patch replaces the metadata.
MergedAlone(r) == [k \in Keys |-> IF k \in DOMAIN patch[r] THEN patch[r][k] ELSE Fresh[k]]

Merged(r) == [k \in Keys |-> IF k \in DOMAIN patch[r] THEN patch[r][k] ELSE base[r].runtime[k]]

\* The metadata of mood_state keeps its other keys, as they were read.
KeptStreak(r) == base[r].streak

IsCheck(r) == "lastCheck" \in DOMAIN patch[r]
IsShare(r) == ~IsCheck(r) /\ ~("count" \in DOMAIN patch[r]) /\ choice[r] # <<>>

PatchWrite(r) ==
  /\ pc[r] = "patchWrite"
  /\ runtime' = Merged(r)
  /\ streak' = KeptStreak(r)
  /\ pc' = [pc EXCEPT ![r] = IF IsCheck(r) THEN "reason" ELSE "idle"]
  /\ Forget(r)
  /\ stale' = [u \in Requests |-> IF u = r THEN {} ELSE stale[u] \cup DOMAIN patch[r]]
  /\ raced' = (raced \/ base[r] # [runtime |-> runtime, streak |-> streak]
                     \/ DOMAIN patch[r] \cap stale[r] # {})
  /\ drawn' = IF IsCheck(r) /\ snap[r].lastCheck > 0 /\ moment[r] > snap[r].lastCheck
                THEN drawn + (moment[r] - snap[r].lastCheck) ELSE drawn
  /\ origin' = IF IsCheck(r) /\ origin = 0 THEN moment[r] ELSE origin
  /\ told' = IF IsShare(r) THEN KeepLast(told \o choice[r], ShareHistory) ELSE told
  /\ repeated' = (repeated \/ (IsShare(r) /\ Among(choice[r][1], told)))
  /\ UNCHANGED <<experiences, now, positive, faults>>

-----------------------------------------------------------------------------
(* A user's turn *)

\* next_positive_streak, from the mood the turn has read.
UserTurn(r) ==
  /\ Goto(r, "idle", "streak")
  /\ \/ patch' = [patch EXCEPT ![r] = [k \in {"streak"} |-> 0]]
     \/ /\ streak < MaxStreak /\ positive < MaxStreak
        /\ patch' = [patch EXCEPT ![r] = [k \in {"streak"} |-> streak + 1]]
  /\ stale' = [stale EXCEPT ![r] = {}]
  /\ UNCHANGED <<stored, moment, snap, choice, base, history, faults>>

\* patch_mood_metadata.
WriteStreak(r) ==
  /\ pc[r] = "streak"
  /\ streak' = patch[r]["streak"]
  /\ positive' = IF patch[r]["streak"] = 0 THEN 0
                 ELSE IF positive < MaxStreak THEN positive + 1 ELSE positive
  /\ raced' = (raced \/ "streak" \in stale[r])
  /\ stale' = [u \in Requests |-> IF u = r THEN {} ELSE stale[u] \cup {"streak"}]
  /\ Finish(r)
  /\ UNCHANGED <<runtime, experiences, now, drawn, origin, told, repeated, faults>>

-----------------------------------------------------------------------------

\* The model fails or writes nothing, the roll fails, the companion is disabled
\* or out of budget, the store raises, or the process dies: nothing more happens.
Fail(r) ==
  /\ pc[r] # "idle"
  /\ IF Unrecorded(r) THEN faults < MaxFaults /\ faults' = faults + 1 ELSE UNCHANGED faults
  /\ Finish(r)
  /\ stale' = [stale EXCEPT ![r] = {}]
  /\ UNCHANGED <<stored, history>>

Tick ==
  /\ now < MaxTime
  /\ now' = now + 1
  /\ UNCHANGED <<runtime, streak, experiences, pc, request, stale, history, faults>>

Next ==
  \/ \E r \in Requests :
       \/ IdleTick(r) \/ Create(r)
       \/ ProactiveCheck(r) \/ Reason(r) \/ Opener(r) \/ OpenerAnswer(r)
       \/ PatchRead(r) \/ PatchWrite(r) \/ UserTurn(r) \/ WriteStreak(r) \/ Fail(r)
  \/ Tick

Spec == Init /\ [][Next]_vars

-----------------------------------------------------------------------------
(* Properties *)

\* The checks give every hour since the first one its chance exactly once, as
\* long as no request has overwritten another's metadata: none is counted by
\* two checks, and the hours of a check that failed, or that the client never
\* made, are not lost.
RhythmExactUnlessRaced == ~raced => runtime.lastCheck = origin + drawn

\* A day has at most DailyMax experiences, and one more for each that was made
\* and not recorded, and two are MinGap apart, in the same circumstances.
MadeOn(d) == {i \in DOMAIN experiences : Day(experiences[i].at) = d}
ExperiencesLimitedUnlessRaced ==
  ~raced =>
    /\ \A i \in DOMAIN experiences :
         Cardinality(MadeOn(Day(experiences[i].at))) <= DailyMax + faults
    /\ faults = 0 => \A i, j \in DOMAIN experiences :
                       i < j => experiences[j].at >= experiences[i].at + MinGap

\* A material is not used again within the length of its history
\* (docs/MEMORY_DESIGN.md: "avoids picking the same material twice in a row") if
\* the pool is larger than that, and an experience that was shared is not shared
\* again before ShareHistory others.
NothingRepeatedUnlessRaced ==
  ~raced =>
    /\ ~repeated
    /\ faults = 0 /\ Cardinality(Materials) > MaterialHistory =>
         \A i, j \in DOMAIN experiences :
           i < j /\ j <= i + MaterialHistory => experiences[i].material # experiences[j].material

\* The playful streak is what the user's turns have made it: a message that is
\* not positive breaks it at once (tone.py), whatever is patched beside it.
StreakExactUnlessRaced == ~raced => streak = positive

\* Both: what is counted in the metadata is what happened.
CountsExactUnlessRaced == RhythmExactUnlessRaced /\ StreakExactUnlessRaced
=============================================================================
