---------------------------- MODULE ProactiveProofs ----------------------------
(***************************************************************************)
(* Theorems about Proactive, for any number of requests at once, any pool  *)
(* of materials, any length of the histories and any limits of a day.      *)
(***************************************************************************)
EXTENDS Proactive, SequenceTheorems, FiniteSetTheorems, TLAPS

-----------------------------------------------------------------------------
(* Types *)

\* The metadata keep their histories short.
Rows  == {m \in Runtime : Len(m.material) <= MaterialHistory /\ Len(m.shared) <= ShareHistory}
Bases == [runtime : Rows, streak : 0 .. MaxStreak]

Picks  == {<<m>> : m \in Materials}
Shares == {<<>>} \cup {<<i>> : i \in 1 .. MaxExperiences}

CheckPatches  == [{"lastCheck"} -> Nat]
UsedPatches   == {m \in [lastAt : Nat, date : Nat, count : Nat, material : Seq(Materials)] :
                    Len(m.material) <= MaterialHistory}
SharePatches  == {m \in [{"shared"} -> Seq(Nat)] : Len(m.shared) <= ShareHistory}
StreakPatches == [{"streak"} -> 0 .. MaxStreak]
Patches == {Nothing} \cup CheckPatches \cup UsedPatches \cup SharePatches \cup StreakPatches

Patching(r)  == pc[r] \in {"patchRead", "patchWrite"}
\* The three ends a patch can serve: it marks a check, it records an experience, or it
\* takes the list of what was shared along.
Marks(r)   == patch[r] \in CheckPatches /\ choice[r] = <<>> /\ patch[r]["lastCheck"] = moment[r]
Records(r) == patch[r] \in UsedPatches /\ choice[r] \in Picks
Lists(r)   == \/ patch[r] = Nothing /\ choice[r] = <<>>
              \/ patch[r] \in SharePatches /\ choice[r] \in Shares

\* What a request holds where it is.
Holds(r) ==
  /\ pc[r] \in {"idle", "reason"} => patch[r] = Nothing /\ choice[r] = <<>>
  /\ pc[r] = "ask" => choice[r] \in Picks /\ patch[r] = Nothing
  /\ pc[r] \in {"opener", "askOpener"} => choice[r] \in Shares /\ patch[r] = Nothing
  /\ Patching(r) => Marks(r) \/ Records(r) \/ Lists(r)
  /\ Patching(r) /\ ~Lists(r) => moment[r] > 0
  /\ pc[r] = "ask" => moment[r] > 0
  /\ pc[r] = "streak" => patch[r] \in StreakPatches
  /\ moment[r] <= now

TypeInv ==
  /\ runtime \in Rows /\ streak \in 0 .. MaxStreak
  /\ experiences \in Seq([at : Nat, material : Materials]) /\ Len(experiences) <= MaxExperiences
  /\ now \in Nat \ {0} /\ pc \in [Requests -> Location] /\ moment \in [Requests -> Nat]
  /\ snap \in [Requests -> Rows] /\ choice \in [Requests -> Choices]
  /\ patch \in [Requests -> Patches] /\ base \in [Requests -> Bases]
  /\ stale \in [Requests -> SUBSET (Keys \cup {"streak"})]
  /\ raced \in BOOLEAN /\ drawn \in Nat /\ origin \in Nat /\ positive \in 0 .. MaxStreak
  /\ told \in Seq(Nat) /\ Len(told) <= ShareHistory /\ repeated \in BOOLEAN
  /\ faults \in Nat
  /\ \A r \in Requests : Holds(r)

-----------------------------------------------------------------------------
(* What a patch makes of the rows *)

\* As long as nothing raced, the checks have drawn the hours up to the last one, and a
\* check that is to be written has read that one.  The streak is what the turns made it.
CountInv ==
  ~raced =>
    /\ runtime.lastCheck = origin + drawn /\ runtime.lastCheck <= now
    /\ origin = 0 => drawn = 0
    /\ streak = positive
    /\ \A r \in Requests : Patching(r) /\ Marks(r) /\ "lastCheck" \notin stale[r] =>
         snap[r].lastCheck = runtime.lastCheck /\ runtime.lastCheck <= moment[r]
    /\ \A r \in Requests : pc[r] = "streak" /\ "streak" \notin stale[r] =>
         patch[r]["streak"] \in {0, streak + 1}

\* The metadata of the experiences are the same.
SameRecord(m, n) == \A k \in ExperienceKeys : m[k] = n[k]

\* How many experiences are recorded, and how many of a day.
Pending  == \E r \in Requests : Unrecorded(r)
Recorded == IF Pending THEN Len(experiences) - 1 ELSE Len(experiences)
CountOn(d)   == IF runtime.date = d THEN runtime.count ELSE 0
PendingOn(d) == IF \E r \in Requests : Unrecorded(r) /\ Day(moment[r]) = d THEN 1 ELSE 0

\* An experience that is about to be made or to be recorded was allowed by the rows as
\* they are, and one at most is to be recorded.
DraftInv ==
  ~raced =>
    /\ \A r, u \in Requests : Unrecorded(r) /\ Unrecorded(u) => r = u
    /\ runtime.date <= Day(now)
    /\ \A r \in Requests : pc[r] = "ask" /\ ExperienceKeys \cap stale[r] = {} =>
         /\ ~Pending /\ SameRecord(snap[r], runtime)
         /\ Allowed(runtime, moment[r]) /\ runtime.date <= Day(moment[r])
         /\ choice[r][1] \in Candidates(runtime)
    /\ \A r \in Requests : Unrecorded(r) =>
         /\ patch[r] = MarkUsed(runtime, moment[r], choice[r][1])
         /\ Allowed(runtime, moment[r]) /\ runtime.date <= Day(moment[r])
         /\ experiences # <<>>
         /\ experiences[Len(experiences)] = [at |-> moment[r], material |-> choice[r][1]]

DailyInv ==
  ~raced =>
    \A d \in Nat :
      /\ Cardinality(MadeOn(d)) <= DailyMax + faults
      /\ d >= runtime.date => Cardinality(MadeOn(d)) <= CountOn(d) + PendingOn(d) + faults

\* Unless one was lost, the metadata know the last experiences: when the last of the first
\* n was made, and what the last ones were made of.
Mirrors(n) ==
  /\ runtime.lastAt = IF n = 0 THEN 0 ELSE experiences[n].at
  /\ Len(runtime.material) = IF n < MaterialHistory THEN n ELSE MaterialHistory
  /\ \A q \in 1 .. Len(runtime.material) :
       runtime.material[q] = experiences[n - Len(runtime.material) + q].material

Spaced ==
  /\ \A i \in DOMAIN experiences : experiences[i].at > 0
  /\ \A i, j \in DOMAIN experiences : i < j => experiences[j].at >= experiences[i].at + MinGap

Varied ==
  Cardinality(Materials) > MaterialHistory =>
    \A i, j \in DOMAIN experiences :
      i < j /\ j <= i + MaterialHistory => experiences[i].material # experiences[j].material

RecentInv == ~raced /\ faults = 0 => Mirrors(Recorded) /\ Spaced /\ Varied

\* What was chosen to be shared was not shared lately, and the list that is to be written
\* is the one in the rows with it.
Sharing(r) == pc[r] \in {"opener", "askOpener"} \/ (Patching(r) /\ Lists(r))
Agreed(r) ==
  /\ choice[r] # <<>> => ~Among(choice[r][1], runtime.shared)
  /\ pc[r] = "askOpener" => snap[r].shared = runtime.shared
  /\ Patching(r) /\ patch[r] \in SharePatches =>
       patch[r].shared = KeepLast(runtime.shared \o choice[r], ShareHistory)

SharedInv ==
  ~raced =>
    /\ told = runtime.shared /\ ~repeated
    /\ \A r \in Requests : Sharing(r) /\ "shared" \notin stale[r] => Agreed(r)

-----------------------------------------------------------------------------
(* Rows and patches *)

\* A function on the keys is a row when each key has a value of its type.
LEMMA RowOfKeys ==
  ASSUME NEW m, m = [k \in Keys |-> m[k]],
         m["lastCheck"] \in Nat, m["shared"] \in Seq(Nat), Len(m["shared"]) <= ShareHistory,
         m["lastAt"] \in Nat, m["date"] \in Nat, m["count"] \in Nat,
         m["material"] \in Seq(Materials), Len(m["material"]) <= MaterialHistory
  PROVE  m \in Rows
BY DEF Rows, Runtime, Keys, ExperienceKeys

LEMMA RowFields ==
  ASSUME NEW m \in Rows
  PROVE  /\ m.lastCheck \in Nat /\ m.shared \in Seq(Nat) /\ Len(m.shared) <= ShareHistory
         /\ m.lastAt \in Nat /\ m.date \in Nat /\ m.count \in Nat
         /\ m.material \in Seq(Materials) /\ Len(m.material) <= MaterialHistory
BY DEF Rows, Runtime

LEMMA FreshRow == Fresh \in Rows
<1>1. Len(<<>>) = 0 /\ <<>> \in Seq(Nat) /\ <<>> \in Seq(Materials) OBVIOUS
<1>2. MaterialHistory \in Nat /\ ShareHistory \in Nat BY HistoryAssumption
<1>q. QED BY <1>1, <1>2 DEF Fresh, Rows, Runtime

LEMMA KeysListed ==
  /\ Keys = {"lastCheck", "shared", "lastAt", "date", "count", "material"}
  /\ ExperienceKeys = {"lastAt", "date", "count", "material"}
BY DEF Keys, ExperienceKeys

LEMMA ReadingRow == ASSUME runtime \in Rows, NEW keys PROVE Reading(keys) \in Rows
<1> DEFINE m == Reading(keys)
<1>1. m = [k \in Keys |-> m[k]] BY DEF Reading
<1>2. \A k \in Keys : m[k] = IF k \in keys THEN runtime[k] ELSE Fresh[k] BY DEF Reading
<1> HIDE DEF m
<1>3. \A k \in Keys : m[k] = runtime[k] \/ m[k] = Fresh[k] BY <1>2
<1>4. ASSUME NEW n \in Rows
      PROVE  /\ n["lastCheck"] \in Nat /\ n["shared"] \in Seq(Nat)
             /\ Len(n["shared"]) <= ShareHistory
             /\ n["lastAt"] \in Nat /\ n["date"] \in Nat /\ n["count"] \in Nat
             /\ n["material"] \in Seq(Materials) /\ Len(n["material"]) <= MaterialHistory
  BY <1>4, RowFields
<1>5. /\ m["lastCheck"] \in Nat /\ m["lastAt"] \in Nat /\ m["date"] \in Nat
      /\ m["count"] \in Nat
  BY <1>3, <1>4, FreshRow, KeysListed
<1>6. m["shared"] \in Seq(Nat) /\ Len(m["shared"]) <= ShareHistory
  BY <1>3, <1>4, FreshRow, KeysListed
<1>7. m["material"] \in Seq(Materials) /\ Len(m["material"]) <= MaterialHistory
  BY <1>3, <1>4, FreshRow, KeysListed
<1>q. QED BY <1>1, <1>5, <1>6, <1>7, RowOfKeys DEF m

\* A patch changes the keys it has.
LEMMA PatchKinds ==
  ASSUME NEW p \in Patches
  PROVE  /\ p \in CheckPatches <=> "lastCheck" \in DOMAIN p
         /\ p \in UsedPatches <=> "count" \in DOMAIN p
         /\ p \in SharePatches <=> "shared" \in DOMAIN p
         /\ p \in StreakPatches <=> "streak" \in DOMAIN p
         /\ p \in CheckPatches => DOMAIN p = {"lastCheck"} /\ p["lastCheck"] \in Nat
         /\ p \in UsedPatches => DOMAIN p = ExperienceKeys
         /\ p \in SharePatches => DOMAIN p = {"shared"} /\ p["shared"] \in Seq(Nat)
         /\ p \in StreakPatches => DOMAIN p = {"streak"} /\ p["streak"] \in 0 .. MaxStreak
         /\ p = Nothing => DOMAIN p = {}
<1>1. p \in CheckPatches => DOMAIN p = {"lastCheck"} /\ p["lastCheck"] \in Nat
  BY DEF CheckPatches
<1>2. p \in UsedPatches => DOMAIN p = ExperienceKeys BY DEF UsedPatches, ExperienceKeys
<1>3. p \in SharePatches => DOMAIN p = {"shared"} /\ p["shared"] \in Seq(Nat) BY DEF SharePatches
<1>4. p \in StreakPatches => DOMAIN p = {"streak"} /\ p["streak"] \in 0 .. MaxStreak
  BY DEF StreakPatches
<1>5. p = Nothing => DOMAIN p = {} BY DEF Nothing
<1>6. \/ p = Nothing \/ p \in CheckPatches \/ p \in UsedPatches \/ p \in SharePatches
      \/ p \in StreakPatches
  BY DEF Patches
<1>q. QED BY <1>1, <1>2, <1>3, <1>4, <1>5, <1>6, KeysListed

LEMMA MergedRow ==
  ASSUME NEW r \in Requests, base[r] \in Bases, patch[r] \in Patches
  PROVE  /\ Merged(r) \in Rows
         /\ \A k \in Keys : Merged(r)[k] = IF k \in DOMAIN patch[r] THEN patch[r][k]
                                           ELSE base[r].runtime[k]
<1> DEFINE m == Merged(r)  p == patch[r]  b == base[r].runtime
<1>1. m = [k \in Keys |-> m[k]] BY DEF Merged
<1>2. \A k \in Keys : m[k] = IF k \in DOMAIN p THEN p[k] ELSE b[k] BY DEF Merged
<1>3. b \in Rows /\ p \in Patches BY DEF Bases
<1> HIDE DEF m, p, b
<1>4. "lastCheck" \in DOMAIN p => p["lastCheck"] \in Nat BY <1>3, PatchKinds
<1>5. "shared" \in DOMAIN p => p["shared"] \in Seq(Nat) /\ Len(p["shared"]) <= ShareHistory
  <2>1. p \in SharePatches => Len(p["shared"]) <= ShareHistory BY DEF SharePatches
  <2>q. QED BY <2>1, <1>3, PatchKinds
<1>6. "count" \in DOMAIN p => /\ p["lastAt"] \in Nat /\ p["date"] \in Nat /\ p["count"] \in Nat
                              /\ p["material"] \in Seq(Materials)
                              /\ Len(p["material"]) <= MaterialHistory
  <2>1. p \in UsedPatches => /\ p["lastAt"] \in Nat /\ p["date"] \in Nat /\ p["count"] \in Nat
                             /\ p["material"] \in Seq(Materials)
                             /\ Len(p["material"]) <= MaterialHistory
    BY DEF UsedPatches
  <2>q. QED BY <2>1, <1>3, PatchKinds
<1>7. \A k \in ExperienceKeys : k \in DOMAIN p => "count" \in DOMAIN p
  BY <1>3, PatchKinds, KeysListed DEF Patches
<1>8. m \in Rows
  <2>1. m["lastCheck"] \in Nat BY <1>2, <1>3, <1>4, RowFields, KeysListed
  <2>2. m["shared"] \in Seq(Nat) /\ Len(m["shared"]) <= ShareHistory
    BY <1>2, <1>3, <1>5, RowFields, KeysListed
  <2>3. /\ m["lastAt"] \in Nat /\ m["date"] \in Nat /\ m["count"] \in Nat
        /\ m["material"] \in Seq(Materials) /\ Len(m["material"]) <= MaterialHistory
    BY <1>2, <1>3, <1>6, <1>7, RowFields, KeysListed
  <2>q. QED BY <1>1, <2>1, <2>2, <2>3, RowOfKeys
<1>q. QED BY <1>2, <1>8 DEF m, p, b

\* The end of a sequence.
LEMMA LastOnes ==
  ASSUME NEW S, NEW s \in Seq(S), NEW n \in Nat
  PROVE  /\ KeepLast(s, n) \in Seq(S) /\ Len(KeepLast(s, n)) <= n
         /\ Len(KeepLast(s, n)) = IF Len(s) > n THEN n ELSE Len(s)
         /\ \A i \in 1 .. Len(KeepLast(s, n)) :
              KeepLast(s, n)[i] = s[Len(s) - Len(KeepLast(s, n)) + i]
         /\ Len(s) <= n => KeepLast(s, n) = s
<1>1. CASE Len(s) > n
  <2> DEFINE t == SubSeq(s, Len(s) - n + 1, Len(s))
  <2>1. KeepLast(s, n) = t BY <1>1 DEF KeepLast
  <2>2. Len(s) \in Nat OBVIOUS
  <2>3. Len(s) - n + 1 \in 1 .. Len(s) + 1 /\ Len(s) - (Len(s) - n + 1) + 1 = n BY <1>1, <2>2
  <2>4. t \in Seq(S) /\ Len(t) = n /\ \A i \in 1 .. n : t[i] = s[Len(s) - n + 1 + i - 1]
    BY <2>2, <2>3, <1>1, SubSeqProperties
  <2> HIDE DEF t
  <2>5. \A i \in 1 .. n : Len(s) - n + 1 + i - 1 = Len(s) - n + i BY <2>2
  <2>q. QED BY <2>1, <2>4, <2>5, <1>1, <2>2
<1>2. CASE ~(Len(s) > n)
  <2>1. KeepLast(s, n) = s BY <1>2 DEF KeepLast
  <2>2. Len(s) \in Nat /\ \A i \in 1 .. Len(s) : Len(s) - Len(s) + i = i OBVIOUS
  <2>q. QED BY <1>2, <2>1, <2>2
<1>q. QED BY <1>1, <1>2

-----------------------------------------------------------------------------
(* What each action does to the request it is of, and to the others *)

Acts(r) ==
  \/ IdleTick(r) \/ Create(r) \/ ProactiveCheck(r) \/ Reason(r) \/ Opener(r) \/ OpenerAnswer(r)
  \/ PatchRead(r) \/ PatchWrite(r) \/ UserTurn(r) \/ WriteStreak(r) \/ Fail(r)

Tables ==
  /\ pc \in [Requests -> Location] /\ moment \in [Requests -> Nat]
  /\ snap \in [Requests -> Rows] /\ choice \in [Requests -> Choices]
  /\ patch \in [Requests -> Patches] /\ base \in [Requests -> Bases]
  /\ stale \in [Requests -> SUBSET (Keys \cup {"streak"})]

LEMMA TablesOfTypes == TypeInv => Tables BY DEF TypeInv, Tables

\* A request knows what it knew, and what the action writes is stale for it.
SameFor(u) ==
  /\ pc'[u] = pc[u] /\ moment'[u] = moment[u] /\ snap'[u] = snap[u] /\ choice'[u] = choice[u]
  /\ patch'[u] = patch[u] /\ base'[u] = base[u]

LEMMA OthersKept ==
  ASSUME Tables, NEW r \in Requests, Acts(r), NEW u \in Requests, u # r
  PROVE  SameFor(u) /\ stale[u] \subseteq stale'[u]
<1>1. CASE IdleTick(r) BY <1>1 DEF IdleTick, Goto, Tables, SameFor
<1>2. CASE Create(r) BY <1>2 DEF Create, Goto, Tables, SameFor
<1>3. CASE ProactiveCheck(r) BY <1>3 DEF ProactiveCheck, Goto, Tables, SameFor
<1>4. CASE Reason(r) BY <1>4 DEF Reason, Goto, Tables, SameFor
<1>5. CASE Opener(r) BY <1>5 DEF Opener, Goto, Tables, SameFor
<1>6. CASE OpenerAnswer(r) BY <1>6 DEF OpenerAnswer, Goto, Tables, SameFor
<1>7. CASE PatchRead(r) BY <1>7 DEF PatchRead, Goto, Tables, SameFor
<1>8. CASE PatchWrite(r) BY <1>8 DEF PatchWrite, Forget, Tables, SameFor
<1>9. CASE UserTurn(r) BY <1>9 DEF UserTurn, Goto, Tables, SameFor
<1>10. CASE WriteStreak(r) BY <1>10 DEF WriteStreak, Finish, Forget, Tables, SameFor
<1>11. CASE Fail(r) BY <1>11 DEF Fail, Finish, Forget, Tables, SameFor
<1>q. QED BY <1>1, <1>2, <1>3, <1>4, <1>5, <1>6, <1>7, <1>8, <1>9, <1>10, <1>11 DEF Acts

LEMMA IdleTickDoes ==
  ASSUME Tables, NEW r \in Requests, IdleTick(r)
  PROVE  /\ Allowed(runtime, now) /\ pc[r] = "idle" /\ pc'[r] = "ask"
         /\ moment'[r] = now /\ snap'[r] = Reading(ExperienceKeys)
         /\ \E m \in Candidates(runtime) : choice'[r] = <<m>>
         /\ patch'[r] = patch[r] /\ base'[r] = base[r]
         /\ stale'[r] = IF Pending THEN ExperienceKeys ELSE {}
         /\ \A u \in Requests \ {r} : stale'[u] = stale[u]
         /\ UNCHANGED <<stored, history, faults>>
<1>1. UNCHANGED <<stored, history, faults, patch, base>> BY DEF IdleTick
<1>2. pc[r] = "idle" /\ pc'[r] = "ask" BY DEF IdleTick, Goto, Tables
<1>3. /\ Allowed(runtime, now) /\ moment'[r] = now /\ snap'[r] = Reading(ExperienceKeys)
  BY DEF IdleTick, Tables
<1>4. \E m \in Candidates(runtime) : choice'[r] = <<m>> BY DEF IdleTick, Tables
<1>5. /\ stale'[r] = IF Pending THEN ExperienceKeys ELSE {}
      /\ \A u \in Requests \ {r} : stale'[u] = stale[u]
  BY DEF IdleTick, Tables, Pending
<1>q. QED BY <1>1, <1>2, <1>3, <1>4, <1>5

LEMMA CreateDoes ==
  ASSUME Tables, NEW r \in Requests, Create(r)
  PROVE  /\ Len(experiences) < MaxExperiences /\ pc[r] = "ask" /\ pc'[r] = "patchRead"
         /\ experiences' = Append(experiences, [at |-> moment[r], material |-> choice[r][1]])
         /\ patch'[r] = MarkUsed(snap[r], moment[r], choice[r][1]) /\ snap'[r] = Fresh
         /\ moment'[r] = moment[r] /\ choice'[r] = choice[r] /\ base'[r] = base[r]
         /\ stale'[r] = stale[r]
         /\ \A u \in Requests \ {r} : stale'[u] = stale[u] \cup ExperienceKeys
         /\ raced' = (raced \/ ExperienceKeys \cap stale[r] # {})
         /\ UNCHANGED <<runtime, streak, now, drawn, origin, told, repeated, positive, faults>>
<1>1. pc[r] = "ask" /\ pc'[r] = "patchRead" BY DEF Create, Goto, Tables
<1>2. /\ patch'[r] = MarkUsed(snap[r], moment[r], choice[r][1]) /\ snap'[r] = Fresh
      /\ moment'[r] = moment[r] /\ choice'[r] = choice[r] /\ base'[r] = base[r]
  BY DEF Create, Tables
<1>3. /\ stale'[r] = stale[r]
      /\ \A u \in Requests \ {r} : stale'[u] = stale[u] \cup ExperienceKeys
  BY DEF Create, Tables
<1>q. QED BY <1>1, <1>2, <1>3 DEF Create

LEMMA ProactiveCheckDoes ==
  ASSUME Tables, NEW r \in Requests, ProactiveCheck(r)
  PROVE  /\ pc[r] = "idle" /\ pc'[r] = "patchRead"
         /\ snap'[r] = Reading({"lastCheck"}) /\ moment'[r] = now
         /\ patch'[r] = [k \in {"lastCheck"} |-> now] /\ choice'[r] = choice[r]
         /\ base'[r] = base[r] /\ stale'[r] = {}
         /\ \A u \in Requests \ {r} : stale'[u] = stale[u]
         /\ UNCHANGED <<stored, history, faults>>
<1>1. UNCHANGED <<stored, history, faults, choice, base>> BY DEF ProactiveCheck
<1>2. pc[r] = "idle" /\ pc'[r] = "patchRead" BY DEF ProactiveCheck, Goto, Tables
<1>3. /\ snap'[r] = Reading({"lastCheck"}) /\ moment'[r] = now
      /\ patch'[r] = [k \in {"lastCheck"} |-> now]
  BY DEF ProactiveCheck, Tables
<1>4. stale'[r] = {} /\ \A u \in Requests \ {r} : stale'[u] = stale[u]
  BY DEF ProactiveCheck, Tables
<1>q. QED BY <1>1, <1>2, <1>3, <1>4

LEMMA ReasonDoes ==
  ASSUME Tables, NEW r \in Requests, Reason(r)
  PROVE  /\ pc[r] = "reason" /\ pc'[r] = "opener"
         /\ choice'[r] = <<>> \/ \E i \in Shareable : choice'[r] = <<i>>
         /\ moment'[r] = moment[r] /\ snap'[r] = snap[r] /\ patch'[r] = patch[r]
         /\ base'[r] = base[r] /\ stale'[r] = {}
         /\ \A u \in Requests \ {r} : stale'[u] = stale[u]
         /\ UNCHANGED <<stored, history, faults>>
<1>1. UNCHANGED <<stored, history, faults, moment, snap, patch, base>> BY DEF Reason
<1>2. pc[r] = "reason" /\ pc'[r] = "opener" BY DEF Reason, Goto, Tables
<1>3. choice'[r] = <<>> \/ \E i \in Shareable : choice'[r] = <<i>> BY DEF Reason, Tables
<1>4. stale'[r] = {} /\ \A u \in Requests \ {r} : stale'[u] = stale[u] BY DEF Reason, Tables
<1>q. QED BY <1>1, <1>2, <1>3, <1>4

LEMMA OpenerDoes ==
  ASSUME Tables, NEW r \in Requests, Opener(r)
  PROVE  /\ pc[r] = "opener" /\ pc'[r] = "askOpener" /\ snap'[r] = Reading({"shared"})
         /\ moment'[r] = moment[r] /\ choice'[r] = choice[r] /\ patch'[r] = patch[r]
         /\ base'[r] = base[r]
         /\ stale'[r] = IF choice[r] = <<>> THEN {} ELSE stale[r] \cap {"shared"}
         /\ \A u \in Requests \ {r} : stale'[u] = stale[u]
         /\ UNCHANGED <<stored, history, faults>>
<1>1. UNCHANGED <<stored, history, faults, moment, choice, patch, base>> BY DEF Opener
<1>2. pc[r] = "opener" /\ pc'[r] = "askOpener" /\ snap'[r] = Reading({"shared"})
  BY DEF Opener, Goto, Tables
<1>3. /\ stale'[r] = IF choice[r] = <<>> THEN {} ELSE stale[r] \cap {"shared"}
      /\ \A u \in Requests \ {r} : stale'[u] = stale[u]
  BY DEF Opener, Tables
<1>q. QED BY <1>1, <1>2, <1>3

LEMMA OpenerAnswerDoes ==
  ASSUME Tables, NEW r \in Requests, OpenerAnswer(r), NEW list,
         list = KeepLast(snap[r].shared \o choice[r], ShareHistory)
  PROVE  /\ pc[r] = "askOpener" /\ pc'[r] = "patchRead"
         /\ patch'[r] = IF list = <<>> THEN Nothing ELSE [k \in {"shared"} |-> list]
         /\ snap'[r] = Fresh /\ moment'[r] = moment[r] /\ choice'[r] = choice[r]
         /\ base'[r] = base[r] /\ stale' = stale
         /\ UNCHANGED <<stored, history, faults>>
<1>1. UNCHANGED <<stored, history, faults, moment, choice, base, stale>> BY DEF OpenerAnswer
<1>2. pc[r] = "askOpener" /\ pc'[r] = "patchRead" /\ snap'[r] = Fresh
  BY DEF OpenerAnswer, Goto, Tables
<1>3. patch'[r] = IF list = <<>> THEN Nothing ELSE [k \in {"shared"} |-> list]
  BY DEF OpenerAnswer, Tables
<1>q. QED BY <1>1, <1>2, <1>3

LEMMA PatchReadDoes ==
  ASSUME Tables, NEW r \in Requests, PatchRead(r)
  PROVE  /\ pc[r] = "patchRead" /\ pc'[r] = "patchWrite"
         /\ base'[r] = [runtime |-> runtime, streak |-> streak]
         /\ moment' = moment /\ snap' = snap /\ choice' = choice /\ patch' = patch
         /\ stale' = stale
         /\ UNCHANGED <<stored, history, faults>>
<1>1. UNCHANGED <<stored, history, faults, moment, choice, snap, patch, stale>> BY DEF PatchRead
<1>2. pc[r] = "patchRead" /\ pc'[r] = "patchWrite" BY DEF PatchRead, Goto, Tables
<1>3. base'[r] = [runtime |-> runtime, streak |-> streak] BY DEF PatchRead, Tables
<1>q. QED BY <1>1, <1>2, <1>3

\* What a request has left when it is through.
Forgot(r) ==
  /\ moment'[r] = 0 /\ snap'[r] = Fresh /\ choice'[r] = <<>> /\ patch'[r] = Nothing
  /\ base'[r] = [runtime |-> Fresh, streak |-> 0]

LEMMA ForgetDoes == ASSUME Tables, NEW r \in Requests, Forget(r) PROVE Forgot(r)
BY DEF Forget, Tables, Forgot

LEMMA PatchWriteDoes ==
  ASSUME Tables, NEW r \in Requests, PatchWrite(r)
  PROVE  /\ pc[r] = "patchWrite" /\ pc'[r] = IF IsCheck(r) THEN "reason" ELSE "idle"
         /\ Forgot(r) /\ stale'[r] = {}
         /\ \A u \in Requests \ {r} : stale'[u] = stale[u] \cup DOMAIN patch[r]
         /\ runtime' = Merged(r) /\ streak' = base[r].streak
         /\ ~raced' => /\ ~raced /\ base[r] = [runtime |-> runtime, streak |-> streak]
                       /\ DOMAIN patch[r] \cap stale[r] = {}
         /\ raced' \in BOOLEAN
         /\ UNCHANGED <<experiences, now, positive, faults>>
<1>1. pc[r] = "patchWrite" /\ pc'[r] = IF IsCheck(r) THEN "reason" ELSE "idle"
  BY DEF PatchWrite, Tables
<1>2. /\ stale'[r] = {} /\ \A u \in Requests \ {r} : stale'[u] = stale[u] \cup DOMAIN patch[r]
  BY DEF PatchWrite, Tables
<1>3. Forgot(r) BY ForgetDoes DEF PatchWrite
<1>4. /\ ~raced' => /\ ~raced /\ base[r] = [runtime |-> runtime, streak |-> streak]
                    /\ DOMAIN patch[r] \cap stale[r] = {}
      /\ raced' \in BOOLEAN
  BY DEF PatchWrite
<1>q. QED BY <1>1, <1>2, <1>3, <1>4 DEF PatchWrite, KeptStreak

LEMMA UserTurnDoes ==
  ASSUME Tables, NEW r \in Requests, UserTurn(r)
  PROVE  /\ pc[r] = "idle" /\ pc'[r] = "streak"
         /\ \/ patch'[r] = [k \in {"streak"} |-> 0]
            \/ streak < MaxStreak /\ patch'[r] = [k \in {"streak"} |-> streak + 1]
         /\ moment' = moment /\ snap' = snap /\ choice' = choice /\ base' = base
         /\ stale'[r] = {} /\ \A u \in Requests \ {r} : stale'[u] = stale[u]
         /\ UNCHANGED <<stored, history, faults>>
<1>1. UNCHANGED <<stored, history, faults, moment, choice, snap, base>> BY DEF UserTurn
<1>2. pc[r] = "idle" /\ pc'[r] = "streak" BY DEF UserTurn, Goto, Tables
<1>3. \/ patch'[r] = [k \in {"streak"} |-> 0]
      \/ streak < MaxStreak /\ patch'[r] = [k \in {"streak"} |-> streak + 1]
  BY DEF UserTurn, Tables
<1>4. stale'[r] = {} /\ \A u \in Requests \ {r} : stale'[u] = stale[u] BY DEF UserTurn, Tables
<1>q. QED BY <1>1, <1>2, <1>3, <1>4

LEMMA WriteStreakDoes ==
  ASSUME Tables, NEW r \in Requests, WriteStreak(r)
  PROVE  /\ pc[r] = "streak" /\ pc'[r] = "idle" /\ Forgot(r)
         /\ streak' = patch[r]["streak"]
         /\ positive' = IF patch[r]["streak"] = 0 THEN 0
                        ELSE IF positive < MaxStreak THEN positive + 1 ELSE positive
         /\ raced' = (raced \/ "streak" \in stale[r])
         /\ stale'[r] = {}
         /\ \A u \in Requests \ {r} : stale'[u] = stale[u] \cup {"streak"}
         /\ UNCHANGED <<runtime, experiences, now, drawn, origin, told, repeated, faults>>
<1>1. pc[r] = "streak" /\ pc'[r] = "idle" BY DEF WriteStreak, Finish, Tables
<1>2. Forgot(r) BY ForgetDoes DEF WriteStreak, Finish
<1>3. stale'[r] = {} /\ \A u \in Requests \ {r} : stale'[u] = stale[u] \cup {"streak"}
  BY DEF WriteStreak, Tables
<1>q. QED BY <1>1, <1>2, <1>3 DEF WriteStreak

LEMMA FailDoes ==
  ASSUME Tables, NEW r \in Requests, Fail(r)
  PROVE  /\ pc'[r] = "idle" /\ Forgot(r)
         /\ faults' = IF Unrecorded(r) THEN faults + 1 ELSE faults
         /\ stale'[r] = {} /\ \A u \in Requests \ {r} : stale'[u] = stale[u]
         /\ UNCHANGED <<stored, history>>
<1>1. pc'[r] = "idle" BY DEF Fail, Finish, Tables
<1>2. Forgot(r) BY ForgetDoes DEF Fail, Finish
<1>3. stale'[r] = {} /\ \A u \in Requests \ {r} : stale'[u] = stale[u] BY DEF Fail, Tables
<1>4. UNCHANGED <<stored, history>> BY DEF Fail
<1>5. faults' = IF Unrecorded(r) THEN faults + 1 ELSE faults BY DEF Fail
<1>q. QED BY <1>1, <1>2, <1>3, <1>4, <1>5

-----------------------------------------------------------------------------
(* Every step keeps the types *)

AreTables ==
  /\ pc' = [u \in Requests |-> pc'[u]] /\ moment' = [u \in Requests |-> moment'[u]]
  /\ snap' = [u \in Requests |-> snap'[u]] /\ choice' = [u \in Requests |-> choice'[u]]
  /\ patch' = [u \in Requests |-> patch'[u]] /\ base' = [u \in Requests |-> base'[u]]
  /\ stale' = [u \in Requests |-> stale'[u]]

LEMMA ActTables == ASSUME Tables, NEW r \in Requests, Acts(r) PROVE AreTables
<1>1. CASE IdleTick(r) BY <1>1 DEF IdleTick, Goto, Tables, AreTables
<1>2. CASE Create(r) BY <1>2 DEF Create, Goto, Tables, AreTables
<1>3. CASE ProactiveCheck(r) BY <1>3 DEF ProactiveCheck, Goto, Tables, AreTables
<1>4. CASE Reason(r) BY <1>4 DEF Reason, Goto, Tables, AreTables
<1>5. CASE Opener(r) BY <1>5 DEF Opener, Goto, Tables, AreTables
<1>6. CASE OpenerAnswer(r) BY <1>6 DEF OpenerAnswer, Goto, Tables, AreTables
<1>7. CASE PatchRead(r) BY <1>7 DEF PatchRead, Goto, Tables, AreTables
<1>8. CASE PatchWrite(r) BY <1>8 DEF PatchWrite, Forget, Tables, AreTables
<1>9. CASE UserTurn(r) BY <1>9 DEF UserTurn, Goto, Tables, AreTables
<1>10. CASE WriteStreak(r) BY <1>10 DEF WriteStreak, Finish, Forget, Tables, AreTables
<1>11. CASE Fail(r) BY <1>11 DEF Fail, Finish, Forget, Tables, AreTables
<1>q. QED BY <1>1, <1>2, <1>3, <1>4, <1>5, <1>6, <1>7, <1>8, <1>9, <1>10, <1>11 DEF Acts

\* A request that works with values of their types holds what it should.
Typed(u) ==
  /\ pc[u] \in Location /\ moment[u] \in Nat /\ snap[u] \in Rows /\ choice[u] \in Choices
  /\ patch[u] \in Patches /\ base[u] \in Bases /\ stale[u] \subseteq Keys \cup {"streak"}

LEMMA TypedKept ==
  ASSUME TypeInv, NEW r \in Requests, Acts(r), Typed(r)', Holds(r)', now' = now,
         \A u \in Requests \ {r} : stale'[u] \subseteq Keys \cup {"streak"}
  PROVE  Tables' /\ \A u \in Requests : Holds(u)'
<1>t. Tables BY TablesOfTypes
<1>1. AreTables BY <1>t, ActTables
<1>2. ASSUME NEW u \in Requests, u # r PROVE Typed(u)' /\ Holds(u)'
  <2>1. SameFor(u) BY <1>t, <1>2, OthersKept
  <2>2. Typed(u) BY <1>t DEF Tables, Typed
  <2>3. Typed(u)' BY <2>1, <2>2, <1>2 DEF SameFor, Typed
  <2>4. Holds(u) BY DEF TypeInv
  <2>5. Holds(u)' BY <2>1, <2>4 DEF SameFor, Holds, Patching, Marks, Records, Lists
  <2>q. QED BY <2>3, <2>5
<1>3. \A u \in Requests : Typed(u)' BY <1>2
<1>4. Tables'
  <2>1. pc' \in [Requests -> Location] /\ moment' \in [Requests -> Nat]
    BY <1>1, <1>3 DEF AreTables, Typed
  <2>2. snap' \in [Requests -> Rows] /\ choice' \in [Requests -> Choices]
    BY <1>1, <1>3 DEF AreTables, Typed
  <2>3. patch' \in [Requests -> Patches] /\ base' \in [Requests -> Bases]
    BY <1>1, <1>3 DEF AreTables, Typed
  <2>4. stale' \in [Requests -> SUBSET (Keys \cup {"streak"})]
    BY <1>1, <1>3 DEF AreTables, Typed
  <2>q. QED BY <2>1, <2>2, <2>3, <2>4 DEF Tables
<1>q. QED BY <1>2, <1>4

\* What a request has left fits any place it can be in.
LEMMA ForgotTyped ==
  ASSUME NEW r \in Requests, Forgot(r), pc'[r] \in {"idle", "reason"}, stale'[r] = {},
         now' \in Nat
  PROVE  Typed(r)' /\ Holds(r)'
<1>1. Fresh \in Rows BY FreshRow
<1>2. [runtime |-> Fresh, streak |-> 0] \in Bases BY <1>1, BoundsAssumption DEF Bases
<1>3. Typed(r)'
  BY <1>1, <1>2 DEF Forgot, Typed, Location, Choices, Patches
<1>4. Holds(r)' BY DEF Forgot, Holds, Patching
<1>q. QED BY <1>3, <1>4

\* What an experience makes of a row.
LEMMA MarkUsedTyped ==
  ASSUME NEW m \in Rows, NEW t \in Nat, NEW x \in Materials
  PROVE  MarkUsed(m, t, x) \in UsedPatches
<1> DEFINE s == Append(m.material, x)
<1>1. m.material \in Seq(Materials) /\ m.date \in Nat /\ m.count \in Nat BY RowFields
<1>2. s \in Seq(Materials) BY <1>1
<1>3. MaterialHistory \in Nat BY HistoryAssumption
<1> HIDE DEF s
<1>4. KeepLast(s, MaterialHistory) \in Seq(Materials)
      /\ Len(KeepLast(s, MaterialHistory)) <= MaterialHistory
  BY <1>2, <1>3, LastOnes
<1>5. Day(t) \in Nat BY LimitsAssumption DEF Day
<1>6. CountToday(m, t) + 1 \in Nat BY <1>1 DEF CountToday
<1>7. MarkUsed(m, t, x) = [lastAt |-> t, date |-> Day(t), count |-> CountToday(m, t) + 1,
                           material |-> KeepLast(s, MaterialHistory)]
  BY DEF MarkUsed, s
<1> HIDE DEF KeepLast, CountToday, Day, MarkUsed
<1>q. QED BY <1>4, <1>5, <1>6, <1>7 DEF UsedPatches

LEMMA PicksTyped ==
  /\ Picks \subseteq Choices /\ Shares \subseteq Choices
  /\ \A c \in Picks : c[1] \in Materials /\ c = <<c[1]>> /\ c # <<>>
  /\ \A c \in Shares : c \in Seq(Nat) /\ (c # <<>> => c[1] \in Nat /\ c = <<c[1]>>)
<1>1. Picks \subseteq Choices /\ Shares \subseteq Choices BY DEF Picks, Shares, Choices
<1>2. \A c \in Picks : c[1] \in Materials /\ c = <<c[1]>> /\ c # <<>> BY DEF Picks
<1>3. \A c \in Shares : c \in Seq(Nat) /\ (c # <<>> => c[1] \in Nat /\ c = <<c[1]>>)
  <2>1. \A i \in 1 .. MaxExperiences :
          /\ <<i>> \in Seq(Nat) /\ <<i>> # <<>> /\ <<i>>[1] = i /\ i \in Nat
    BY BoundsAssumption
  <2>2. <<>> \in Seq(Nat) OBVIOUS
  <2>q. QED BY <2>1, <2>2 DEF Shares
<1>q. QED BY <1>1, <1>2, <1>3

LEMMA TypeStep == ASSUME TypeInv, [Next]_vars PROVE TypeInv'
<1>t. Tables BY TablesOfTypes
<1>h. /\ runtime \in Rows /\ streak \in 0 .. MaxStreak /\ Len(experiences) <= MaxExperiences
      /\ experiences \in Seq([at : Nat, material : Materials])
      /\ now \in Nat \ {0} /\ raced \in BOOLEAN /\ drawn \in Nat /\ origin \in Nat
      /\ positive \in 0 .. MaxStreak /\ told \in Seq(Nat) /\ Len(told) <= ShareHistory
      /\ repeated \in BOOLEAN /\ faults \in Nat /\ \A r \in Requests : Holds(r)
  BY DEF TypeInv
<1>n. MaxStreak \in Nat /\ MaxExperiences \in Nat /\ ShareHistory \in Nat
  BY BoundsAssumption, HistoryAssumption
<1>g. ASSUME Tables', \A r \in Requests : Holds(r)',
             UNCHANGED <<stored, history>>, faults' \in Nat
      PROVE  TypeInv'
  BY <1>g, <1>h DEF TypeInv, Tables, stored, history
<1>v. ASSUME NEW r \in Requests
      PROVE  /\ pc[r] \in Location /\ moment[r] \in Nat /\ snap[r] \in Rows
             /\ choice[r] \in Choices /\ patch[r] \in Patches /\ base[r] \in Bases
             /\ stale[r] \subseteq Keys \cup {"streak"}
  BY <1>t DEF Tables
<1>1. ASSUME NEW r \in Requests, IdleTick(r) PROVE TypeInv'
  <2>1. /\ pc[r] = "idle" /\ pc'[r] = "ask" /\ moment'[r] = now
        /\ snap'[r] = Reading(ExperienceKeys) /\ UNCHANGED <<stored, history, faults>>
        /\ patch'[r] = patch[r] /\ base'[r] = base[r] /\ stale'[r] \subseteq ExperienceKeys
        /\ \E m \in Candidates(runtime) : choice'[r] = <<m>>
        /\ \A u \in Requests \ {r} : stale'[u] = stale[u]
    BY <1>t, <1>1, IdleTickDoes
  <2>2. choice'[r] \in Picks BY <2>1 DEF Candidates, Picks
  <2>3. snap'[r] \in Rows BY <2>1, <1>h, ReadingRow
  <2>4. now' = now BY <2>1 DEF stored
  <2>5. Typed(r)' BY <2>1, <2>2, <2>3, <1>v, <1>h, PicksTyped DEF Typed, Location, Keys
  <2>6. patch'[r] = Nothing BY <2>1, <1>h DEF Holds
  <2>7. Holds(r)' BY <2>1, <2>2, <2>4, <2>6, <1>h DEF Holds, Patching
  <2>q. QED BY <1>1, <1>g, <1>h, <1>v, <2>1, <2>4, <2>5, <2>7, TypedKept DEF Acts
<1>2. ASSUME NEW r \in Requests, Create(r) PROVE TypeInv'
  <2>1. /\ Len(experiences) < MaxExperiences /\ pc[r] = "ask" /\ pc'[r] = "patchRead"
        /\ experiences' = Append(experiences, [at |-> moment[r], material |-> choice[r][1]])
        /\ patch'[r] = MarkUsed(snap[r], moment[r], choice[r][1]) /\ snap'[r] = Fresh
        /\ moment'[r] = moment[r] /\ choice'[r] = choice[r] /\ base'[r] = base[r]
        /\ stale'[r] = stale[r]
        /\ \A u \in Requests \ {r} : stale'[u] = stale[u] \cup ExperienceKeys
        /\ raced' = (raced \/ ExperienceKeys \cap stale[r] # {})
        /\ UNCHANGED <<runtime, streak, now, drawn, origin, told, repeated, positive, faults>>
    BY <1>t, <1>2, CreateDoes
  <2>2. choice[r] \in Picks /\ moment[r] > 0 /\ moment[r] <= now BY <2>1, <1>h DEF Holds
  <2>3. choice[r][1] \in Materials BY <2>2, PicksTyped
  <2>4. patch'[r] \in UsedPatches BY <2>1, <2>3, <1>v, MarkUsedTyped
  <2>5. Typed(r)'
    <3>1. patch'[r] \in Patches BY <2>4 DEF Patches
    <3>q. QED BY <3>1, <2>1, <1>v, FreshRow DEF Typed, Location
  <2>6. Holds(r)' BY <2>1, <2>2, <2>4 DEF Holds, Patching, Records
  <2>7. \A u \in Requests \ {r} : stale'[u] \subseteq Keys \cup {"streak"}
    BY <2>1, <1>v DEF Keys
  <2>8. Tables' /\ \A u \in Requests : Holds(u)'
    BY <1>2, <2>1, <2>5, <2>6, <2>7, TypedKept DEF Acts
  <2>9. /\ experiences' \in Seq([at : Nat, material : Materials])
        /\ Len(experiences') <= MaxExperiences
    BY <2>1, <2>3, <1>v, <1>h, <1>n
  <2>10. raced' \in BOOLEAN BY <2>1
  <2>q. QED BY <2>1, <2>8, <2>9, <2>10, <1>h DEF TypeInv, Tables
<1>3. ASSUME NEW r \in Requests, ProactiveCheck(r) PROVE TypeInv'
  <2>1. /\ pc[r] = "idle" /\ pc'[r] = "patchRead"
        /\ snap'[r] = Reading({"lastCheck"}) /\ moment'[r] = now
        /\ patch'[r] = [k \in {"lastCheck"} |-> now] /\ choice'[r] = choice[r]
        /\ base'[r] = base[r] /\ stale'[r] = {}
        /\ \A u \in Requests \ {r} : stale'[u] = stale[u]
        /\ UNCHANGED <<stored, history, faults>>
    BY <1>t, <1>3, ProactiveCheckDoes
  <2>2. patch'[r] \in CheckPatches /\ patch'[r]["lastCheck"] = now
    BY <2>1, <1>h DEF CheckPatches
  <2>3. snap'[r] \in Rows BY <2>1, <1>h, ReadingRow
  <2>4. now' = now BY <2>1 DEF stored
  <2>5. Typed(r)'
    <3>1. patch'[r] \in Patches BY <2>2 DEF Patches
    <3>q. QED BY <3>1, <2>1, <2>3, <1>v, <1>h DEF Typed, Location
  <2>6. choice'[r] = <<>> BY <2>1, <1>h DEF Holds
  <2>7. Holds(r)' BY <2>1, <2>2, <2>4, <2>6, <1>h DEF Holds, Patching, Marks
  <2>q. QED BY <1>3, <1>g, <1>h, <1>v, <2>1, <2>4, <2>5, <2>7, TypedKept DEF Acts
<1>4. ASSUME NEW r \in Requests, Reason(r) PROVE TypeInv'
  <2>1. /\ pc[r] = "reason" /\ pc'[r] = "opener"
        /\ choice'[r] = <<>> \/ \E i \in Shareable : choice'[r] = <<i>>
        /\ moment'[r] = moment[r] /\ snap'[r] = snap[r] /\ patch'[r] = patch[r]
        /\ base'[r] = base[r] /\ stale'[r] = {}
        /\ \A u \in Requests \ {r} : stale'[u] = stale[u]
        /\ UNCHANGED <<stored, history, faults>>
    BY <1>t, <1>4, ReasonDoes
  <2>2. choice'[r] \in Shares
    <3>1. DOMAIN experiences = 1 .. Len(experiences) /\ Len(experiences) \in Nat BY <1>h
    <3>2. DOMAIN experiences \subseteq 1 .. MaxExperiences BY <3>1, <1>h, <1>n
    <3>3. Shareable \subseteq 1 .. MaxExperiences BY <3>2 DEF Shareable
    <3>q. QED BY <2>1, <3>3 DEF Shares
  <2>3. now' = now BY <2>1 DEF stored
  <2>4. Typed(r)' BY <2>1, <2>2, <1>v, PicksTyped DEF Typed, Location
  <2>5. patch'[r] = Nothing /\ moment'[r] <= now BY <2>1, <1>h DEF Holds
  <2>6. Holds(r)' BY <2>1, <2>2, <2>3, <2>5 DEF Holds, Patching
  <2>q. QED BY <1>4, <1>g, <1>h, <1>v, <2>1, <2>3, <2>4, <2>6, TypedKept DEF Acts
<1>5. ASSUME NEW r \in Requests, Opener(r) PROVE TypeInv'
  <2>1. /\ pc[r] = "opener" /\ pc'[r] = "askOpener" /\ snap'[r] = Reading({"shared"})
        /\ moment'[r] = moment[r] /\ choice'[r] = choice[r] /\ patch'[r] = patch[r]
        /\ base'[r] = base[r] /\ stale'[r] \subseteq stale[r]
        /\ \A u \in Requests \ {r} : stale'[u] = stale[u]
        /\ UNCHANGED <<stored, history, faults>>
    BY <1>t, <1>5, OpenerDoes
  <2>2. snap'[r] \in Rows BY <2>1, <1>h, ReadingRow
  <2>3. now' = now BY <2>1 DEF stored
  <2>4. Typed(r)' BY <2>1, <2>2, <1>v DEF Typed, Location
  <2>5. choice'[r] \in Shares /\ patch'[r] = Nothing /\ moment'[r] <= now
    BY <2>1, <1>h DEF Holds
  <2>6. Holds(r)' BY <2>1, <2>3, <2>5 DEF Holds, Patching
  <2>q. QED BY <1>5, <1>g, <1>h, <1>v, <2>1, <2>3, <2>4, <2>6, TypedKept DEF Acts
<1>6. ASSUME NEW r \in Requests, OpenerAnswer(r) PROVE TypeInv'
  <2> DEFINE list == KeepLast(snap[r].shared \o choice[r], ShareHistory)
  <2>1. /\ pc[r] = "askOpener" /\ pc'[r] = "patchRead"
        /\ patch'[r] = IF list = <<>> THEN Nothing ELSE [k \in {"shared"} |-> list]
        /\ snap'[r] = Fresh /\ moment'[r] = moment[r] /\ choice'[r] = choice[r]
        /\ base'[r] = base[r] /\ stale' = stale
        /\ UNCHANGED <<stored, history, faults>>
    BY <1>t, <1>6, OpenerAnswerDoes
  <2>2. choice[r] \in Shares /\ moment[r] <= now BY <2>1, <1>h DEF Holds
  <2>3. list \in Seq(Nat) /\ Len(list) <= ShareHistory
    <3>1. snap[r].shared \in Seq(Nat) BY <1>v, RowFields
    <3>2. snap[r].shared \o choice[r] \in Seq(Nat) BY <3>1, <2>2, PicksTyped
    <3>q. QED BY <3>2, <1>n, LastOnes
  <2>4. list = <<>> => choice[r] = <<>>
    <3>1. snap[r].shared \in Seq(Nat) /\ choice[r] \in Seq(Nat) BY <1>v, <2>2, RowFields, PicksTyped
    <3>2. Len(snap[r].shared \o choice[r]) = Len(snap[r].shared) + Len(choice[r]) BY <3>1
    <3>3. choice[r] # <<>> => Len(choice[r]) > 0 BY <3>1
    <3>4. snap[r].shared \o choice[r] \in Seq(Nat) BY <3>1
    <3>5. ShareHistory > 0 BY HistoryAssumption
    <3>6. Len(snap[r].shared) \in Nat /\ Len(choice[r]) \in Nat BY <3>1
    <3> DEFINE all == snap[r].shared \o choice[r]
    <3>7. Len(list) = IF Len(all) > ShareHistory THEN ShareHistory ELSE Len(all)
      BY <3>4, <1>n, LastOnes
    <3>9. choice[r] # <<>> => Len(list) > 0
      <4> HIDE DEF list, all
      <4>1. Len(all) = Len(snap[r].shared) + Len(choice[r]) BY <3>2 DEF all
      <4>2. SUFFICES ASSUME choice[r] # <<>> PROVE Len(list) > 0 OBVIOUS
      <4>3. Len(choice[r]) > 0 BY <4>2, <3>3
      <4>4. Len(all) \in Nat /\ Len(all) > 0
        <5> DEFINE a == Len(snap[r].shared)  b == Len(choice[r])
        <5>1. a \in Nat /\ b \in Nat /\ b > 0 /\ Len(all) = a + b BY <4>1, <4>3, <3>6
        <5> HIDE DEF a, b
        <5>q. QED BY <5>1
      <4>q. QED BY <4>4, <3>5, <3>7, <1>n
    <3>8. Len(<<>>) = 0 OBVIOUS
    <3> HIDE DEF list
    <3>q. QED BY <3>9, <3>8
  <2> HIDE DEF list
  <2>5. patch'[r] = Nothing \/ patch'[r] \in SharePatches BY <2>1, <2>3 DEF SharePatches
  <2>6. Lists(r)'
    <3>1. CASE list = <<>> BY <3>1, <2>1, <2>4 DEF Lists
    <3>2. CASE list # <<>>
      <4>1. patch'[r] = [k \in {"shared"} |-> list] BY <3>2, <2>1
      <4>2. patch'[r] \in SharePatches BY <4>1, <2>3 DEF SharePatches
      <4>q. QED BY <4>2, <2>1, <2>2 DEF Lists
    <3>q. QED BY <3>1, <3>2
  <2>7. now' = now BY <2>1 DEF stored
  <2>8. Typed(r)'
    <3>1. patch'[r] \in Patches BY <2>5 DEF Patches
    <3>q. QED BY <3>1, <2>1, <1>v, FreshRow DEF Typed, Location
  <2>9. Holds(r)' BY <2>1, <2>2, <2>6, <2>7 DEF Holds, Patching
  <2>q. QED BY <1>6, <1>g, <1>h, <1>v, <2>1, <2>7, <2>8, <2>9, TypedKept DEF Acts
<1>7. ASSUME NEW r \in Requests, PatchRead(r) PROVE TypeInv'
  <2>1. /\ pc[r] = "patchRead" /\ pc'[r] = "patchWrite"
        /\ base'[r] = [runtime |-> runtime, streak |-> streak]
        /\ moment' = moment /\ snap' = snap /\ choice' = choice /\ patch' = patch
        /\ stale' = stale
        /\ UNCHANGED <<stored, history, faults>>
    BY <1>t, <1>7, PatchReadDoes
  <2>2. base'[r] \in Bases BY <2>1, <1>h DEF Bases
  <2>3. now' = now BY <2>1 DEF stored
  <2>4. Typed(r)' BY <2>1, <2>2, <1>v DEF Typed, Location
  <2>5. Holds(r)' BY <2>1, <2>3, <1>h DEF Holds, Patching, Marks, Records, Lists
  <2>q. QED BY <1>7, <1>g, <1>h, <1>v, <2>1, <2>3, <2>4, <2>5, TypedKept DEF Acts
<1>8. ASSUME NEW r \in Requests, PatchWrite(r) PROVE TypeInv'
  <2>1. /\ pc[r] = "patchWrite" /\ pc'[r] = (IF IsCheck(r) THEN "reason" ELSE "idle")
        /\ Forgot(r) /\ stale'[r] = {}
        /\ \A u \in Requests \ {r} : stale'[u] = stale[u] \cup DOMAIN patch[r]
        /\ runtime' = Merged(r) /\ streak' = base[r].streak /\ raced' \in BOOLEAN
        /\ UNCHANGED <<experiences, now, positive, faults>>
    BY <1>t, <1>8, PatchWriteDoes
  <2>2. runtime' \in Rows /\ streak' \in 0 .. MaxStreak
    <3>1. base[r].streak \in 0 .. MaxStreak BY <1>v DEF Bases
    <3>q. QED BY <2>1, <3>1, <1>v, MergedRow
  <2>3. pc'[r] \in {"idle", "reason"} BY <2>1
  <2>4. Typed(r)' /\ Holds(r)' BY <2>1, <2>3, <1>h, ForgotTyped
  <2>5. DOMAIN patch[r] \subseteq Keys \cup {"streak"}
    <3>1. patch[r] \in Patches BY <1>v
    <3>q. QED BY <3>1, PatchKinds, KeysListed DEF Patches
  <2>6. \A u \in Requests \ {r} : stale'[u] \subseteq Keys \cup {"streak"} BY <2>1, <2>5, <1>v
  <2>7. Tables' /\ \A u \in Requests : Holds(u)'
    BY <1>8, <2>1, <2>4, <2>6, TypedKept DEF Acts
  <2>8. drawn' \in Nat /\ origin' \in Nat
    <3>1. moment[r] \in Nat /\ snap[r].lastCheck \in Nat BY <1>v, RowFields
    <3>q. QED BY <3>1, <1>h, <1>8 DEF PatchWrite
  <2>9. told' \in Seq(Nat) /\ Len(told') <= ShareHistory /\ repeated' \in BOOLEAN
    <3>1. repeated' \in BOOLEAN BY <1>8 DEF PatchWrite
    <3>2. CASE ~IsShare(r) BY <3>1, <3>2, <1>8, <1>h DEF PatchWrite
    <3>3. CASE IsShare(r)
      <4>1. told' = KeepLast(told \o choice[r], ShareHistory) BY <3>3, <1>8 DEF PatchWrite
      <4>2. Lists(r)
        <5>1. Marks(r) \/ Records(r) \/ Lists(r) BY <2>1, <1>h DEF Holds, Patching
        <5>2. ~Marks(r) /\ ~Records(r)
          BY <3>3, <1>v, PatchKinds DEF IsShare, IsCheck, Marks, Records
        <5>q. QED BY <5>1, <5>2
      <4>3. choice[r] \in Seq(Nat)
        <5>1. <<>> \in Seq(Nat) OBVIOUS
        <5>q. QED BY <4>2, <5>1, PicksTyped DEF Lists
      <4>4. told \o choice[r] \in Seq(Nat) BY <4>3, <1>h
      <4>q. QED BY <3>1, <4>1, <4>4, <1>n, LastOnes
    <3>q. QED BY <3>2, <3>3
  <2>q. QED BY <2>1, <2>2, <2>7, <2>8, <2>9, <1>h DEF TypeInv, Tables
<1>9. ASSUME NEW r \in Requests, UserTurn(r) PROVE TypeInv'
  <2>1. /\ pc[r] = "idle" /\ pc'[r] = "streak"
        /\ \/ patch'[r] = [k \in {"streak"} |-> 0]
           \/ streak < MaxStreak /\ patch'[r] = [k \in {"streak"} |-> streak + 1]
        /\ moment' = moment /\ snap' = snap /\ choice' = choice /\ base' = base
        /\ stale'[r] = {} /\ \A u \in Requests \ {r} : stale'[u] = stale[u]
        /\ UNCHANGED <<stored, history, faults>>
    BY <1>t, <1>9, UserTurnDoes
  <2>2. patch'[r] \in StreakPatches BY <2>1, <1>h, <1>n DEF StreakPatches
  <2>3. now' = now BY <2>1 DEF stored
  <2>4. Typed(r)'
    <3>1. patch'[r] \in Patches BY <2>2 DEF Patches
    <3>q. QED BY <3>1, <2>1, <1>v DEF Typed, Location
  <2>5. Holds(r)' BY <2>1, <2>2, <2>3, <1>h DEF Holds, Patching
  <2>q. QED BY <1>9, <1>g, <1>h, <1>v, <2>1, <2>3, <2>4, <2>5, TypedKept DEF Acts
<1>10. ASSUME NEW r \in Requests, WriteStreak(r) PROVE TypeInv'
  <2>1. /\ pc[r] = "streak" /\ pc'[r] = "idle" /\ Forgot(r)
        /\ streak' = patch[r]["streak"]
        /\ positive' = (IF patch[r]["streak"] = 0 THEN 0
                        ELSE IF positive < MaxStreak THEN positive + 1 ELSE positive)
        /\ raced' = (raced \/ "streak" \in stale[r]) /\ stale'[r] = {}
        /\ \A u \in Requests \ {r} : stale'[u] = stale[u] \cup {"streak"}
        /\ UNCHANGED <<runtime, experiences, now, drawn, origin, told, repeated, faults>>
    BY <1>t, <1>10, WriteStreakDoes
  <2>2. streak' \in 0 .. MaxStreak
    <3>1. patch[r] \in StreakPatches BY <2>1, <1>h DEF Holds
    <3>q. QED BY <2>1, <3>1 DEF StreakPatches
  <2>3. positive' \in 0 .. MaxStreak BY <2>1, <1>h, <1>n
  <2>4. Typed(r)' /\ Holds(r)' BY <2>1, <1>h, ForgotTyped
  <2>5. \A u \in Requests \ {r} : stale'[u] \subseteq Keys \cup {"streak"} BY <2>1, <1>v
  <2>6. Tables' /\ \A u \in Requests : Holds(u)'
    BY <1>10, <2>1, <2>4, <2>5, TypedKept DEF Acts
  <2>7. raced' \in BOOLEAN BY <2>1
  <2>q. QED BY <2>1, <2>2, <2>3, <2>6, <2>7, <1>h DEF TypeInv, Tables
<1>11. ASSUME NEW r \in Requests, Fail(r) PROVE TypeInv'
  <2>1. /\ pc'[r] = "idle" /\ Forgot(r)
        /\ faults' = (IF Unrecorded(r) THEN faults + 1 ELSE faults)
        /\ stale'[r] = {} /\ \A u \in Requests \ {r} : stale'[u] = stale[u]
        /\ UNCHANGED <<stored, history>>
    BY <1>t, <1>11, FailDoes
  <2>2. now' = now BY <2>1 DEF stored
  <2>3. Typed(r)' /\ Holds(r)' BY <2>1, <2>2, <1>h, ForgotTyped
  <2>4. faults' \in Nat BY <2>1, <1>h
  <2>q. QED BY <1>11, <1>g, <1>v, <2>1, <2>2, <2>3, <2>4, TypedKept DEF Acts
<1>12. CASE Tick
  <2>1. now' = now + 1
        /\ UNCHANGED <<runtime, streak, experiences, pc, request, stale, history, faults>>
    BY <1>12 DEF Tick
  <2>2. Tables' BY <2>1, <1>t DEF Tables, request
  <2>3. \A r \in Requests : Holds(r)'
    BY <2>1, <1>h, <1>v DEF request, Holds, Patching, Marks, Records, Lists
  <2>q. QED BY <2>1, <2>2, <2>3, <1>h DEF TypeInv, Tables, history
<1>13. CASE UNCHANGED vars
  <2>1. Tables' BY <1>13, <1>t DEF Tables, vars, request
  <2>2. \A r \in Requests : Holds(r)'
    BY <1>13, <1>h DEF vars, request, Holds, Patching, Marks, Records, Lists
  <2>q. QED BY <1>13, <1>g, <1>h, <2>1, <2>2 DEF vars, stored, history
<1>q. QED
  BY <1>1, <1>2, <1>3, <1>4, <1>5, <1>6, <1>7, <1>8, <1>9, <1>10, <1>11, <1>12, <1>13 DEF Next

\* A patch that races with nothing changes its own keys and nothing else.
LEMMA WriteKeeps ==
  ASSUME TypeInv, NEW r \in Requests, PatchWrite(r), ~raced'
  PROVE  /\ ~raced /\ streak' = streak /\ DOMAIN patch[r] \cap stale[r] = {}
         /\ \A k \in Keys : runtime'[k] = IF k \in DOMAIN patch[r] THEN patch[r][k]
                                          ELSE runtime[k]
<1>t. Tables BY TablesOfTypes
<1>1. /\ ~raced /\ base[r] = [runtime |-> runtime, streak |-> streak]
      /\ DOMAIN patch[r] \cap stale[r] = {}
      /\ runtime' = Merged(r) /\ streak' = base[r].streak
  BY <1>t, PatchWriteDoes
<1>2. base[r].runtime = runtime /\ base[r].streak = streak BY <1>1
<1>3. base[r] \in Bases /\ patch[r] \in Patches BY <1>t DEF Tables
<1>q. QED BY <1>1, <1>2, <1>3, MergedRow

\* Which of the three a patch is.
LEMMA WhichPatch ==
  ASSUME TypeInv, NEW r \in Requests, Patching(r)
  PROVE  /\ Marks(r) <=> "lastCheck" \in DOMAIN patch[r]
         /\ Records(r) <=> "count" \in DOMAIN patch[r]
         /\ Lists(r) <=> ~Marks(r) /\ ~Records(r)
         /\ Marks(r) <=> IsCheck(r)
         /\ Records(r) <=> Unrecorded(r)
         /\ IsShare(r) <=> Lists(r) /\ choice[r] # <<>>
         /\ DOMAIN patch[r] \subseteq Keys
         /\ Records(r) => DOMAIN patch[r] = ExperienceKeys
         /\ Marks(r) => DOMAIN patch[r] = {"lastCheck"}
         /\ Lists(r) => DOMAIN patch[r] \subseteq {"shared"}
<1>1. patch[r] \in Patches /\ Holds(r) BY DEF TypeInv
<1>2. Marks(r) \/ Records(r) \/ Lists(r) BY <1>1 DEF Holds
<1>3. /\ Marks(r) => DOMAIN patch[r] = {"lastCheck"}
      /\ Records(r) => DOMAIN patch[r] = ExperienceKeys
      /\ Lists(r) => DOMAIN patch[r] \subseteq {"shared"}
  <2>1. patch[r] = Nothing => DOMAIN patch[r] = {} BY <1>1, PatchKinds
  <2>q. QED BY <1>1, <2>1, PatchKinds DEF Marks, Records, Lists
<1>4. /\ ~(Marks(r) /\ Records(r)) /\ ~(Marks(r) /\ Lists(r)) /\ ~(Records(r) /\ Lists(r))
  BY <1>3, KeysListed
<1>5. /\ Marks(r) <=> "lastCheck" \in DOMAIN patch[r]
      /\ Records(r) <=> "count" \in DOMAIN patch[r]
  BY <1>2, <1>3, KeysListed
<1>q. QED
  BY <1>2, <1>3, <1>4, <1>5, KeysListed DEF IsCheck, IsShare, Unrecorded, Patching

-----------------------------------------------------------------------------
(* The counts *)

LEMMA CountStep == ASSUME TypeInv, CountInv, [Next]_vars PROVE CountInv'
<1> SUFFICES ASSUME ~raced' PROVE CountInv' BY DEF CountInv
<1>t. Tables BY TablesOfTypes
<1>h. /\ runtime \in Rows /\ streak \in 0 .. MaxStreak /\ positive \in 0 .. MaxStreak
      /\ now \in Nat \ {0} /\ drawn \in Nat /\ origin \in Nat /\ \A r \in Requests : Holds(r)
  BY DEF TypeInv
<1>n. MaxStreak \in Nat /\ runtime.lastCheck \in Nat BY <1>h, BoundsAssumption, RowFields
<1>v. \A u \in Requests : moment[u] \in Nat /\ snap[u] \in Rows BY <1>t DEF Tables
\* What is asked of one request.
<1> DEFINE Check(u) == Patching(u) /\ Marks(u) /\ "lastCheck" \notin stale[u] =>
                         snap[u].lastCheck = runtime.lastCheck /\ runtime.lastCheck <= moment[u]
           Beat(u)  == pc[u] = "streak" /\ "streak" \notin stale[u] =>
                         patch[u]["streak"] \in {0, streak + 1}
           Base == /\ runtime.lastCheck = origin + drawn /\ runtime.lastCheck <= now
                   /\ origin = 0 => drawn = 0
                   /\ streak = positive
<1>c. CountInv <=> (~raced => Base /\ \A u \in Requests : Check(u) /\ Beat(u)) BY DEF CountInv
<1>p. CountInv' <=> (~raced' => Base' /\ \A u \in Requests : Check(u)' /\ Beat(u)')
  BY DEF CountInv
\* A request that did not act, as long as nothing was written that it goes by.
<1>o. ASSUME NEW r \in Requests, Acts(r), ~raced, NEW u \in Requests, u # r
      PROVE  /\ runtime'.lastCheck = runtime.lastCheck \/ "lastCheck" \in stale'[u] => Check(u)'
             /\ streak' = streak \/ "streak" \in stale'[u] => Beat(u)'
  <2>1. SameFor(u) /\ stale[u] \subseteq stale'[u] BY <1>t, <1>o, OthersKept
  <2>2. Check(u) /\ Beat(u) BY <1>o, <1>c
  <2>3. ASSUME runtime'.lastCheck = runtime.lastCheck \/ "lastCheck" \in stale'[u] PROVE Check(u)'
    BY <2>1, <2>2, <2>3 DEF SameFor, Patching, Marks
  <2>4. ASSUME streak' = streak \/ "streak" \in stale'[u] PROVE Beat(u)'
    BY <2>1, <2>2, <2>4 DEF SameFor
  <2>q. QED BY <2>3, <2>4
<1> HIDE DEF Check, Beat, Base
\* An action that writes no row, and no streak.
<1>w. ASSUME NEW r \in Requests, Acts(r), ~raced, Check(r)', Beat(r)',
             UNCHANGED <<runtime, streak, now, drawn, origin, positive>>
      PROVE  CountInv'
  <2>1. Base' BY <1>w, <1>c DEF Base
  <2>2. \A u \in Requests : Check(u)' /\ Beat(u)' BY <1>w, <1>o
  <2>q. QED BY <2>1, <2>2, <1>p
<1>1. ASSUME NEW r \in Requests, IdleTick(r) PROVE CountInv'
  <2>1. pc'[r] = "ask" /\ UNCHANGED <<stored, history>> BY <1>t, <1>1, IdleTickDoes
  <2>q. QED BY <1>1, <1>w, <2>1 DEF stored, history, Acts, Check, Beat, Patching
<1>2. ASSUME NEW r \in Requests, Create(r) PROVE CountInv'
  <2>1. /\ pc'[r] = "patchRead" /\ patch'[r] = MarkUsed(snap[r], moment[r], choice[r][1])
        /\ raced => raced'
        /\ UNCHANGED <<runtime, streak, now, drawn, origin, positive>>
    BY <1>t, <1>2, CreateDoes
  <2>2. ~Marks(r)'
    <3>1. "lastCheck" \notin DOMAIN patch'[r] BY <2>1 DEF MarkUsed
    <3>q. QED BY <3>1 DEF Marks, CheckPatches
  <2>q. QED BY <1>2, <1>w, <2>1, <2>2 DEF Acts, Check, Beat
<1>3. ASSUME NEW r \in Requests, ProactiveCheck(r) PROVE CountInv'
  <2>1. /\ pc'[r] = "patchRead" /\ snap'[r] = Reading({"lastCheck"}) /\ moment'[r] = now
        /\ UNCHANGED <<stored, history>>
    BY <1>t, <1>3, ProactiveCheckDoes
  <2>2. snap'[r].lastCheck = runtime.lastCheck BY <2>1 DEF Reading, Keys
  <2>3. runtime' = runtime /\ ~raced BY <2>1 DEF stored, history
  <2>4. runtime.lastCheck <= now BY <1>c, <2>3 DEF Base
  <2>5. Check(r)' BY <2>1, <2>2, <2>3, <2>4 DEF Check
  <2>q. QED BY <1>3, <1>w, <2>1, <2>5 DEF stored, history, Acts, Beat
<1>4. ASSUME NEW r \in Requests, Reason(r) PROVE CountInv'
  <2>1. pc'[r] = "opener" /\ UNCHANGED <<stored, history>> BY <1>t, <1>4, ReasonDoes
  <2>q. QED BY <1>4, <1>w, <2>1 DEF stored, history, Acts, Check, Beat, Patching
<1>5. ASSUME NEW r \in Requests, Opener(r) PROVE CountInv'
  <2>1. pc'[r] = "askOpener" /\ UNCHANGED <<stored, history>> BY <1>t, <1>5, OpenerDoes
  <2>q. QED BY <1>5, <1>w, <2>1 DEF stored, history, Acts, Check, Beat, Patching
<1>6. ASSUME NEW r \in Requests, OpenerAnswer(r) PROVE CountInv'
  <2> DEFINE list == KeepLast(snap[r].shared \o choice[r], ShareHistory)
  <2>1. /\ pc'[r] = "patchRead"
        /\ patch'[r] = IF list = <<>> THEN Nothing ELSE [k \in {"shared"} |-> list]
        /\ UNCHANGED <<stored, history>>
    BY <1>t, <1>6, OpenerAnswerDoes
  <2> HIDE DEF list
  <2>2. "lastCheck" \notin DOMAIN patch'[r] BY <2>1 DEF Nothing
  <2>3. ~Marks(r)' BY <2>2 DEF Marks, CheckPatches
  <2>q. QED BY <1>6, <1>w, <2>1, <2>3 DEF stored, history, Acts, Check, Beat
<1>7. ASSUME NEW r \in Requests, PatchRead(r) PROVE CountInv'
  <2>1. /\ pc[r] = "patchRead" /\ pc'[r] = "patchWrite" /\ UNCHANGED <<stored, history>>
        /\ moment' = moment /\ snap' = snap /\ choice' = choice /\ patch' = patch
        /\ stale' = stale
    BY <1>t, <1>7, PatchReadDoes
  <2>2. Check(r) /\ ~raced BY <1>c, <2>1 DEF history
  <2>3. Check(r)' BY <2>1, <2>2 DEF stored, Check, Patching, Marks
  <2>q. QED BY <1>7, <1>w, <2>1, <2>3 DEF stored, history, Acts, Beat
<1>8. ASSUME NEW r \in Requests, PatchWrite(r) PROVE CountInv'
  <2>1. /\ pc[r] = "patchWrite" /\ pc'[r] \in {"idle", "reason"}
        /\ \A u \in Requests \ {r} : stale'[u] = stale[u] \cup DOMAIN patch[r]
        /\ UNCHANGED <<now, positive>>
    BY <1>t, <1>8, PatchWriteDoes
  <2>2. /\ ~raced /\ streak' = streak /\ DOMAIN patch[r] \cap stale[r] = {}
        /\ \A k \in Keys : runtime'[k] = IF k \in DOMAIN patch[r] THEN patch[r][k]
                                         ELSE runtime[k]
    BY <1>8, WriteKeeps
  <2>3. Patching(r) BY <2>1 DEF Patching
  <2>4. Base /\ Check(r) BY <1>c, <2>2
  <2>5. Base' /\ (runtime'.lastCheck = runtime.lastCheck \/ "lastCheck" \in DOMAIN patch[r])
    <3>1. CASE Marks(r)
      <4>1. IsCheck(r) /\ DOMAIN patch[r] = {"lastCheck"} BY <3>1, <2>3, WhichPatch
      <4>2. runtime'.lastCheck = moment[r] BY <2>2, <3>1, <4>1 DEF Keys, Marks
      <4>3. snap[r].lastCheck = runtime.lastCheck /\ runtime.lastCheck <= moment[r]
        BY <2>2, <2>3, <2>4, <3>1, <4>1 DEF Check
      <4>4. moment[r] > 0 /\ moment[r] <= now
        <5>1. Holds(r) BY <1>h
        <5>2. ~Lists(r) BY <2>3, <3>1, WhichPatch
        <5>q. QED BY <2>3, <5>1, <5>2 DEF Holds
      <4>5. /\ drawn' = IF snap[r].lastCheck > 0 /\ moment[r] > snap[r].lastCheck
                          THEN drawn + (moment[r] - snap[r].lastCheck) ELSE drawn
            /\ origin' = IF origin = 0 THEN moment[r] ELSE origin
        BY <1>8, <4>1 DEF PatchWrite
      <4>7. /\ runtime.lastCheck = origin + drawn
            /\ (origin = 0 => drawn = 0)
            /\ moment[r] \in Nat
        BY <2>4, <1>v DEF Base
      <4>8. runtime'.lastCheck = origin' + drawn' /\ origin' # 0
        BY <4>2, <4>3, <4>4, <4>5, <4>7, <1>h, <1>n
      <4>9. now' = now /\ streak' = streak /\ positive' = positive BY <2>1, <2>2
      <4>q. QED BY <4>1, <4>2, <4>4, <4>8, <4>9, <2>4 DEF Base
    <3>2. CASE ~Marks(r)
      <4>1. ~IsCheck(r) /\ "lastCheck" \notin DOMAIN patch[r] BY <3>2, <2>3, WhichPatch
      <4>2. runtime'.lastCheck = runtime.lastCheck BY <2>2, <4>1 DEF Keys
      <4>3. drawn' = drawn /\ origin' = origin BY <1>8, <4>1 DEF PatchWrite
      <4>q. QED BY <4>2, <4>3, <2>1, <2>2, <2>4 DEF Base
    <3>q. QED BY <3>1, <3>2
  <2>6. Check(r)' /\ Beat(r)' BY <2>1 DEF Check, Beat, Patching
  <2>7. ASSUME NEW u \in Requests, u # r PROVE Check(u)' /\ Beat(u)'
    BY <1>8, <1>o, <2>1, <2>2, <2>5, <2>7 DEF Acts
  <2>q. QED BY <2>5, <2>6, <2>7, <1>p
<1>9. ASSUME NEW r \in Requests, UserTurn(r) PROVE CountInv'
  <2>1. /\ pc'[r] = "streak"
        /\ \/ patch'[r] = [k \in {"streak"} |-> 0]
           \/ streak < MaxStreak /\ patch'[r] = [k \in {"streak"} |-> streak + 1]
        /\ UNCHANGED <<stored, history>>
    BY <1>t, <1>9, UserTurnDoes
  <2>2. Beat(r)' BY <2>1 DEF Beat, stored
  <2>q. QED BY <1>9, <1>w, <2>1, <2>2 DEF stored, history, Acts, Check, Patching
<1>10. ASSUME NEW r \in Requests, WriteStreak(r) PROVE CountInv'
  <2>1. /\ pc[r] = "streak" /\ pc'[r] = "idle"
        /\ streak' = patch[r]["streak"]
        /\ positive' = (IF patch[r]["streak"] = 0 THEN 0
                        ELSE IF positive < MaxStreak THEN positive + 1 ELSE positive)
        /\ raced' = (raced \/ "streak" \in stale[r])
        /\ \A u \in Requests \ {r} : stale'[u] = stale[u] \cup {"streak"}
        /\ UNCHANGED <<runtime, now, drawn, origin>>
    BY <1>t, <1>10, WriteStreakDoes
  <2>2. ~raced /\ "streak" \notin stale[r] BY <2>1
  <2>3. Base /\ Beat(r) BY <1>c, <2>2
  <2>4. patch[r]["streak"] \in {0, streak + 1} BY <2>1, <2>2, <2>3 DEF Beat
  <2>5. patch[r]["streak"] \in 0 .. MaxStreak
    <3>1. patch[r] \in StreakPatches BY <2>1, <1>h DEF Holds
    <3>q. QED BY <3>1 DEF StreakPatches
  <2>6. streak' = positive' BY <2>1, <2>3, <2>4, <2>5, <1>h, <1>n DEF Base
  <2>7. Base' BY <2>1, <2>3, <2>6 DEF Base
  <2>8. Check(r)' /\ Beat(r)' BY <2>1 DEF Check, Beat, Patching
  <2>9. ASSUME NEW u \in Requests, u # r PROVE Check(u)' /\ Beat(u)'
    BY <1>10, <1>o, <2>1, <2>2, <2>9 DEF Acts
  <2>q. QED BY <2>7, <2>8, <2>9, <1>p
<1>11. ASSUME NEW r \in Requests, Fail(r) PROVE CountInv'
  <2>1. pc'[r] = "idle" /\ UNCHANGED <<stored, history>> BY <1>t, <1>11, FailDoes
  <2>q. QED BY <1>11, <1>w, <2>1 DEF stored, history, Acts, Check, Beat, Patching
<1>12. CASE Tick
  <2>1. now' = now + 1 /\ UNCHANGED <<runtime, streak, pc, request, stale, history>>
    BY <1>12 DEF Tick
  <2>2. Base /\ \A u \in Requests : Check(u) /\ Beat(u) BY <2>1, <1>c DEF history
  <2>3. Base' BY <2>1, <2>2, <1>h, <1>n DEF history, Base
  <2>4. \A u \in Requests : Check(u)' /\ Beat(u)'
    BY <2>1, <2>2 DEF request, Check, Beat, Patching, Marks
  <2>q. QED BY <2>3, <2>4, <1>p
<1>13. CASE UNCHANGED vars
  <2>1. Base /\ \A u \in Requests : Check(u) /\ Beat(u) BY <1>13, <1>c DEF vars, history
  <2>2. Base' BY <1>13, <2>1 DEF vars, history, Base
  <2>3. \A u \in Requests : Check(u)' /\ Beat(u)'
    BY <1>13, <2>1 DEF vars, request, Check, Beat, Patching, Marks
  <2>q. QED BY <2>2, <2>3, <1>p
<1>q. QED
  BY <1>1, <1>2, <1>3, <1>4, <1>5, <1>6, <1>7, <1>8, <1>9, <1>10, <1>11, <1>12, <1>13 DEF Next

-----------------------------------------------------------------------------
(* The drafts of experiences *)

LEMMA DayGrows ==
  ASSUME NEW t \in Nat, NEW u \in Nat, t <= u
  PROVE  Day(t) \in Nat /\ Day(u) \in Nat /\ Day(t) <= Day(u)
<1> DEFINE D == DayLength
<1>1. D \in Nat \ {0} BY LimitsAssumption
<1> HIDE DEF D
<1>2. ASSUME NEW x \in Nat
      PROVE  /\ x \div D \in Nat /\ D * (x \div D) \in Nat
             /\ D * (x \div D) <= x /\ x < D * (x \div D) + D
  <2>1. x % D \in 0 .. (D - 1) /\ x \div D \in Nat /\ x = D * (x \div D) + (x % D) BY <1>1
  <2>2. D * (x \div D) \in Nat BY <1>1, <2>1
  <2>q. QED BY <1>1, <2>1, <2>2
<1>3. ASSUME NEW x \in Nat, NEW y \in Nat, x < y PROVE D * x + D <= D * y
  <2>1. y - x - 1 \in Nat BY <1>3
  <2>2. D * (y - x - 1) \in Nat BY <1>1, <2>1
  <2>3. D * y = D * x + D + D * (y - x - 1) BY <1>1
  <2>4. D * x \in Nat BY <1>1
  <2>q. QED BY <1>1, <2>2, <2>3, <2>4
<1> DEFINE p == t \div D  q == u \div D  a == D * p  b == D * q
<1>4. p \in Nat /\ q \in Nat /\ a \in Nat /\ b \in Nat BY <1>2
<1>5. a <= t /\ u < b + D BY <1>2
<1>6. q < p => b + D <= a BY <1>3, <1>4
<1>7. Day(t) = 1 + p /\ Day(u) = 1 + q BY DEF Day, D
<1> HIDE DEF p, q, a, b
<1>8. ~(q < p) BY <1>1, <1>4, <1>5, <1>6
<1>q. QED BY <1>4, <1>7, <1>8

\* The gate, the choice and the mark go by the keys of the experiences alone.
LEMMA SameRecordSame ==
  ASSUME NEW m, NEW n, SameRecord(m, n), NEW t, NEW x
  PROVE  /\ Allowed(m, t) <=> Allowed(n, t)
         /\ CountToday(m, t) = CountToday(n, t)
         /\ Candidates(m) = Candidates(n) /\ MarkUsed(m, t, x) = MarkUsed(n, t, x)
         /\ m.lastAt = n.lastAt /\ m.date = n.date /\ m.count = n.count
         /\ m.material = n.material
<1>1. /\ m.lastAt = n.lastAt /\ m.date = n.date /\ m.count = n.count /\ m.material = n.material
  BY DEF SameRecord, ExperienceKeys
<1>2. CountToday(m, t) = CountToday(n, t) BY <1>1 DEF CountToday
<1>q. QED BY <1>1, <1>2 DEF Allowed, Candidates, MarkUsed

LEMMA UnrecordedKept ==
  ASSUME Tables, NEW r \in Requests, Acts(r), NEW u \in Requests, u # r
  PROVE  Unrecorded(u)' <=> Unrecorded(u)
BY OthersKept DEF SameFor, Unrecorded

LEMMA DraftStep == ASSUME TypeInv, DraftInv, [Next]_vars PROVE DraftInv'
<1> SUFFICES ASSUME ~raced' PROVE DraftInv' BY DEF DraftInv
<1>t. Tables BY TablesOfTypes
<1>h. runtime \in Rows /\ now \in Nat /\ \A r \in Requests : Holds(r) BY DEF TypeInv
<1>v. \A u \in Requests : moment[u] \in Nat /\ snap[u] \in Rows /\ moment[u] <= now
  BY <1>t, <1>h DEF Tables, Holds
<1>k. ExperienceKeys \cap ExperienceKeys # {} BY KeysListed
\* What is asked of one request.
<1> DEFINE Ready(u) == pc[u] = "ask" /\ ExperienceKeys \cap stale[u] = {} =>
              /\ ~Pending /\ SameRecord(snap[u], runtime)
              /\ Allowed(runtime, moment[u]) /\ runtime.date <= Day(moment[u])
              /\ choice[u][1] \in Candidates(runtime)
           Drafted(u) == Unrecorded(u) =>
              /\ patch[u] = MarkUsed(runtime, moment[u], choice[u][1])
              /\ Allowed(runtime, moment[u]) /\ runtime.date <= Day(moment[u])
              /\ experiences # <<>>
              /\ experiences[Len(experiences)] = [at |-> moment[u], material |-> choice[u][1]]
           Single == \A x, u \in Requests : Unrecorded(x) /\ Unrecorded(u) => x = u
<1>c. DraftInv <=> (~raced => /\ Single /\ runtime.date <= Day(now)
                              /\ \A u \in Requests : Ready(u) /\ Drafted(u))
  BY DEF DraftInv
<1>p. DraftInv' <=> (~raced' => /\ Single' /\ runtime'.date <= Day(now')
                                /\ \A u \in Requests : Ready(u)' /\ Drafted(u)')
  BY DEF DraftInv, Day
<1>s. SameRecord(runtime, runtime) BY DEF SameRecord
\* Nothing is made or recorded, and no request of another kind has become one that did.
<1>o. ASSUME NEW r \in Requests, Acts(r), ~raced, SameRecord(runtime', runtime),
             experiences' = experiences, now' = now, Unrecorded(r)' => Unrecorded(r),
             Ready(r)', Drafted(r)'
      PROVE  DraftInv'
  <2>1. \A u \in Requests : Unrecorded(u)' => Unrecorded(u) BY <1>t, <1>o, UnrecordedKept
  <2>2. Single' BY <1>o, <1>c, <2>1
  <2>3. ~Pending => ~Pending' BY <2>1 DEF Pending
  <2>4. runtime'.date <= Day(now') BY <1>o, <1>c, SameRecordSame
  <2>5. ASSUME NEW u \in Requests, u # r PROVE Ready(u)' /\ Drafted(u)'
    <3>1. SameFor(u) /\ stale[u] \subseteq stale'[u] BY <1>t, <1>o, <2>5, OthersKept
    <3>2. Ready(u) /\ Drafted(u) BY <1>o, <1>c
    <3>3. SameRecord(snap[u], runtime) => SameRecord(snap[u], runtime')
      BY <1>o DEF SameRecord
    <3>4. /\ Allowed(runtime', moment[u]) <=> Allowed(runtime, moment[u])
          /\ Candidates(runtime') = Candidates(runtime) /\ runtime'.date = runtime.date
          /\ MarkUsed(runtime', moment[u], choice[u][1])
               = MarkUsed(runtime, moment[u], choice[u][1])
      BY <1>o, SameRecordSame
    <3>5. Ready(u)'
      <4>1. SUFFICES ASSUME pc[u] = "ask", ExperienceKeys \cap stale'[u] = {} PROVE Ready(u)'
        BY <3>1 DEF SameFor
      <4>2. ExperienceKeys \cap stale[u] = {} BY <3>1, <4>1
      <4>3. /\ ~Pending /\ SameRecord(snap[u], runtime)
            /\ Allowed(runtime, moment[u]) /\ runtime.date <= Day(moment[u])
            /\ choice[u][1] \in Candidates(runtime)
        BY <3>2, <4>1, <4>2
      <4> HIDE DEF Drafted, Single
      <4>4. /\ snap'[u] = snap[u] /\ moment'[u] = moment[u] /\ choice'[u] = choice[u]
        BY <3>1 DEF SameFor
      <4>5. ~Pending' /\ SameRecord(snap'[u], runtime') BY <2>3, <3>3, <4>3, <4>4
      <4>6. /\ Allowed(runtime', moment'[u]) /\ runtime'.date <= Day(moment'[u])
            /\ choice'[u][1] \in Candidates(runtime')
        BY <3>4, <4>3, <4>4
      <4>q. QED BY <4>5, <4>6 DEF Allowed, Candidates, SameRecord, Day
    <3>6. Drafted(u)'
      <4>1. SUFFICES ASSUME Unrecorded(u)' PROVE Drafted(u)' OBVIOUS
      <4>2. Unrecorded(u) BY <4>1, <2>1
      <4>3. /\ patch'[u] = patch[u] /\ moment'[u] = moment[u] /\ choice'[u] = choice[u]
        BY <3>1 DEF SameFor
      <4>4. /\ patch'[u] = MarkUsed(runtime', moment'[u], choice'[u][1])
            /\ Allowed(runtime', moment'[u]) /\ runtime'.date <= Day(moment'[u])
            /\ experiences' # <<>>
            /\ experiences'[Len(experiences')]
                 = [at |-> moment'[u], material |-> choice'[u][1]]
        BY <1>o, <3>2, <3>4, <4>2, <4>3
      <4>q. QED BY <4>4 DEF MarkUsed, Allowed, CountToday, Day
    <3>q. QED BY <3>5, <3>6
  <2>6. \A u \in Requests : Ready(u)' /\ Drafted(u)' BY <1>o, <2>5
  <2>q. QED BY <2>2, <2>4, <2>6, <1>p
<1> HIDE DEF Ready, Drafted, Single
\* A step that leaves all this alone.
<1>w. ASSUME NEW r \in Requests, Acts(r), UNCHANGED <<stored, history>>,
             pc'[r] # "ask", ~Unrecorded(r)'
      PROVE  DraftInv'
  <2>1. Ready(r)' /\ Drafted(r)' BY <1>w DEF Ready, Drafted
  <2>2. runtime' = runtime /\ experiences' = experiences /\ now' = now /\ ~raced
    BY <1>w DEF stored, history
  <2>q. QED BY <1>o, <1>s, <1>w, <2>1, <2>2
<1>1. ASSUME NEW r \in Requests, IdleTick(r) PROVE DraftInv'
  <2>1. /\ Allowed(runtime, now) /\ pc'[r] = "ask" /\ moment'[r] = now
        /\ snap'[r] = Reading(ExperienceKeys) /\ UNCHANGED <<stored, history>>
        /\ stale'[r] = IF Pending THEN ExperienceKeys ELSE {}
        /\ \E m \in Candidates(runtime) : choice'[r] = <<m>>
    BY <1>t, <1>1, IdleTickDoes
  <2>2. runtime' = runtime /\ experiences' = experiences /\ now' = now /\ ~raced
    BY <2>1 DEF stored, history
  <2>3. ~Unrecorded(r)' BY <2>1 DEF Unrecorded
  <2>4. choice'[r][1] \in Candidates(runtime) BY <2>1
  <2>5. SameRecord(snap'[r], runtime) BY <2>1 DEF SameRecord, Reading, Keys
  <2>6. ~Pending => ~Pending'
    BY <1>t, <1>1, <2>3, UnrecordedKept DEF Pending, Acts
  <2>7. runtime.date <= Day(now) BY <1>c, <2>2
  <2>8. Ready(r)'
    <3>1. SUFFICES ASSUME ~Pending PROVE Ready(r)' BY <1>k, <2>1 DEF Ready
    <3>2. ~Pending' BY <2>6, <3>1
    <3>3. /\ SameRecord(snap'[r], runtime') /\ Allowed(runtime', moment'[r])
          /\ runtime'.date <= Day(moment'[r]) /\ choice'[r][1] \in Candidates(runtime')
      BY <2>1, <2>2, <2>4, <2>5, <2>7
    <3>q. QED BY <3>2, <3>3 DEF Ready, Allowed, Candidates, SameRecord, Day
  <2>9. Drafted(r)' BY <2>3 DEF Drafted
  <2>10. SameRecord(runtime', runtime) BY <2>2, <1>s
  <2>11. Acts(r) BY <1>1 DEF Acts
  <2>q. QED BY <1>o, <2>2, <2>3, <2>8, <2>9, <2>10, <2>11
<1>2. ASSUME NEW r \in Requests, Create(r) PROVE DraftInv'
  <2>1. /\ pc[r] = "ask" /\ pc'[r] = "patchRead" /\ ~raced /\ ExperienceKeys \cap stale[r] = {}
        /\ experiences' = Append(experiences, [at |-> moment[r], material |-> choice[r][1]])
        /\ patch'[r] = MarkUsed(snap[r], moment[r], choice[r][1])
        /\ moment'[r] = moment[r] /\ choice'[r] = choice[r]
        /\ \A u \in Requests \ {r} : stale'[u] = stale[u] \cup ExperienceKeys
        /\ UNCHANGED <<runtime, now>>
    BY <1>t, <1>2, CreateDoes
  <2>2. /\ ~Pending /\ SameRecord(snap[r], runtime)
        /\ Allowed(runtime, moment[r]) /\ runtime.date <= Day(moment[r])
    BY <1>c, <2>1 DEF Ready
  <2>3. \A u \in Requests \ {r} : ~Unrecorded(u)'
    BY <1>t, <1>2, <2>2, UnrecordedKept DEF Pending, Acts
  <2>4. Single' BY <2>3 DEF Single
  <2>5. ASSUME NEW u \in Requests, u # r PROVE Ready(u)' /\ Drafted(u)'
    <3>1. ExperienceKeys \cap stale'[u] # {} BY <2>1, <2>5, KeysListed
    <3>q. QED BY <2>3, <2>5, <3>1 DEF Ready, Drafted
  <2>6. Ready(r)' BY <2>1 DEF Ready
  <2>7. Drafted(r)'
    <3>1. patch'[r] = MarkUsed(runtime', moment'[r], choice'[r][1])
      BY <2>1, <2>2, SameRecordSame
    <3>2. experiences \in Seq([at : Nat, material : Materials]) BY DEF TypeInv
    <3>3. choice[r][1] \in Materials /\ moment[r] \in Nat
      <4>1. choice[r] \in Picks BY <1>h, <2>1 DEF Holds
      <4>q. QED BY <4>1, <1>v, PicksTyped
    <3>4. /\ experiences' # <<>>
          /\ experiences'[Len(experiences')] = [at |-> moment'[r], material |-> choice'[r][1]]
      <4> DEFINE e == [at |-> moment[r], material |-> choice[r][1]]
      <4>1. e \in [at : Nat, material : Materials] BY <3>3
      <4> HIDE DEF e
      <4>2. Append(experiences, e) # <<>>
            /\ Append(experiences, e)[Len(Append(experiences, e))] = e
        BY <3>2, <4>1
      <4>q. QED BY <2>1, <4>2 DEF e
    <3>5. Allowed(runtime', moment'[r]) /\ runtime'.date <= Day(moment'[r]) BY <2>1, <2>2
    <3>q. QED BY <3>1, <3>4, <3>5 DEF Drafted, MarkUsed, Allowed, CountToday, Day
  <2>8. runtime'.date <= Day(now') BY <1>c, <2>1
  <2>9. \A u \in Requests : Ready(u)' /\ Drafted(u)' BY <2>5, <2>6, <2>7
  <2>q. QED BY <2>4, <2>8, <2>9, <1>p
<1>3. ASSUME NEW r \in Requests, ProactiveCheck(r) PROVE DraftInv'
  <2>1. /\ pc'[r] = "patchRead" /\ patch'[r] = [k \in {"lastCheck"} |-> now]
        /\ UNCHANGED <<stored, history>>
    BY <1>t, <1>3, ProactiveCheckDoes
  <2>2. ~Unrecorded(r)' BY <2>1 DEF Unrecorded
  <2>q. QED BY <1>3, <1>w, <2>1, <2>2 DEF Acts
<1>4. ASSUME NEW r \in Requests, Reason(r) PROVE DraftInv'
  <2>1. pc'[r] = "opener" /\ UNCHANGED <<stored, history>> BY <1>t, <1>4, ReasonDoes
  <2>q. QED BY <1>4, <1>w, <2>1 DEF Acts, Unrecorded
<1>5. ASSUME NEW r \in Requests, Opener(r) PROVE DraftInv'
  <2>1. pc'[r] = "askOpener" /\ UNCHANGED <<stored, history>> BY <1>t, <1>5, OpenerDoes
  <2>q. QED BY <1>5, <1>w, <2>1 DEF Acts, Unrecorded
<1>6. ASSUME NEW r \in Requests, OpenerAnswer(r) PROVE DraftInv'
  <2> DEFINE list == KeepLast(snap[r].shared \o choice[r], ShareHistory)
  <2>1. /\ pc'[r] = "patchRead" /\ UNCHANGED <<stored, history>>
        /\ patch'[r] = IF list = <<>> THEN Nothing ELSE [k \in {"shared"} |-> list]
    BY <1>t, <1>6, OpenerAnswerDoes
  <2> HIDE DEF list
  <2>2. ~Unrecorded(r)' BY <2>1 DEF Unrecorded, Nothing
  <2>q. QED BY <1>6, <1>w, <2>1, <2>2 DEF Acts
<1>7. ASSUME NEW r \in Requests, PatchRead(r) PROVE DraftInv'
  <2>1. /\ pc[r] = "patchRead" /\ pc'[r] = "patchWrite" /\ UNCHANGED <<stored, history>>
        /\ moment' = moment /\ choice' = choice /\ patch' = patch
    BY <1>t, <1>7, PatchReadDoes
  <2>2. runtime' = runtime /\ experiences' = experiences /\ now' = now /\ ~raced
    BY <2>1 DEF stored, history
  <2>3. Unrecorded(r)' <=> Unrecorded(r) BY <2>1 DEF Unrecorded
  <2>4. Drafted(r) BY <1>c, <2>2
  <2>5. Drafted(r)'
    BY <2>1, <2>2, <2>3, <2>4 DEF Drafted, MarkUsed, Allowed, CountToday, Day
  <2>6. Ready(r)' BY <2>1 DEF Ready
  <2>7. Acts(r) /\ SameRecord(runtime', runtime) BY <1>7, <2>2, <1>s DEF Acts
  <2>q. QED BY <1>o, <2>2, <2>3, <2>5, <2>6, <2>7
<1>8. ASSUME NEW r \in Requests, PatchWrite(r) PROVE DraftInv'
  <2>1. /\ pc[r] = "patchWrite" /\ pc'[r] \in {"idle", "reason"}
        /\ \A u \in Requests \ {r} : stale'[u] = stale[u] \cup DOMAIN patch[r]
        /\ UNCHANGED <<now, experiences>>
    BY <1>t, <1>8, PatchWriteDoes
  <2>2. /\ ~raced
        /\ \A k \in Keys : runtime'[k] = IF k \in DOMAIN patch[r] THEN patch[r][k]
                                         ELSE runtime[k]
    BY <1>8, WriteKeeps
  <2>3. Patching(r) /\ Acts(r) BY <1>8, <2>1 DEF Patching, Acts
  <2>4. ~Unrecorded(r)' /\ Ready(r)' /\ Drafted(r)' BY <2>1 DEF Unrecorded, Ready, Drafted
  <2>5. CASE ~Records(r)
    <3>1. DOMAIN patch[r] \cap ExperienceKeys = {} BY <2>3, <2>5, WhichPatch, KeysListed
    <3>2. SameRecord(runtime', runtime) BY <2>2, <3>1 DEF SameRecord, Keys
    <3>q. QED BY <1>o, <2>1, <2>2, <2>3, <2>4, <3>2
  <2>6. CASE Records(r)
    <3>1. Unrecorded(r) /\ DOMAIN patch[r] = ExperienceKeys BY <2>3, <2>6, WhichPatch
    <3>2. \A u \in Requests : ~Unrecorded(u)'
      <4>1. \A u \in Requests \ {r} : ~Unrecorded(u) BY <1>c, <2>2, <3>1 DEF Single
      <4>q. QED BY <1>t, <2>3, <2>4, <4>1, UnrecordedKept
    <3>3. ASSUME NEW u \in Requests, u # r PROVE Ready(u)' /\ Drafted(u)'
      <4>1. ExperienceKeys \cap stale'[u] # {} BY <2>1, <3>1, <3>3, KeysListed
      <4>q. QED BY <3>2, <4>1 DEF Ready, Drafted
    <3>4. runtime'.date <= Day(now')
      <4>1. Drafted(r) BY <1>c, <2>2
      <4>2. patch[r] = MarkUsed(runtime, moment[r], choice[r][1]) BY <3>1, <4>1 DEF Drafted
      <4>3. patch[r].date = Day(moment[r]) BY <4>2 DEF MarkUsed
      <4>4. runtime'.date = Day(moment[r]) BY <2>2, <3>1, <4>3, KeysListed
      <4>q. QED BY <2>1, <4>4, <1>v, <1>h, DayGrows
    <3>5. Single' BY <3>2 DEF Single
    <3>6. \A u \in Requests : Ready(u)' /\ Drafted(u)' BY <2>4, <3>3
    <3>q. QED BY <3>4, <3>5, <3>6, <1>p
  <2>q. QED BY <2>5, <2>6
<1>9. ASSUME NEW r \in Requests, UserTurn(r) PROVE DraftInv'
  <2>1. pc'[r] = "streak" /\ UNCHANGED <<stored, history>> BY <1>t, <1>9, UserTurnDoes
  <2>q. QED BY <1>9, <1>w, <2>1 DEF Acts, Unrecorded
<1>10. ASSUME NEW r \in Requests, WriteStreak(r) PROVE DraftInv'
  <2>2. (raced => raced') /\ pc'[r] = "idle" /\ UNCHANGED <<runtime, experiences, now>>
    BY <1>t, <1>10, WriteStreakDoes
  <2>3. ~Unrecorded(r)' /\ Ready(r)' /\ Drafted(r)' BY <2>2 DEF Unrecorded, Ready, Drafted
  <2>4. Acts(r) /\ SameRecord(runtime', runtime) BY <1>10, <2>2, <1>s DEF Acts
  <2>q. QED BY <1>o, <2>2, <2>3, <2>4
<1>11. ASSUME NEW r \in Requests, Fail(r) PROVE DraftInv'
  <2>1. pc'[r] = "idle" /\ UNCHANGED <<stored, history>> BY <1>t, <1>11, FailDoes
  <2>q. QED BY <1>11, <1>w, <2>1 DEF Acts, Unrecorded
<1>12. ASSUME UNCHANGED <<runtime, experiences, pc, request, stale, raced>>, now' \in Nat,
              now <= now'
       PROVE  DraftInv'
  <2>1. \A u \in Requests : Unrecorded(u)' <=> Unrecorded(u) BY <1>12 DEF request, Unrecorded
  <2>2. Single /\ runtime.date <= Day(now) /\ \A u \in Requests : Ready(u) /\ Drafted(u)
    BY <1>12, <1>c
  <2>3. Single' BY <2>1, <2>2 DEF Single
  <2>4. Pending' <=> Pending BY <2>1 DEF Pending
  <2>5. \A u \in Requests : Ready(u)'
    BY <1>12, <2>2, <2>4 DEF request, Ready, SameRecord, Allowed, CountToday, Day, Candidates
  <2>6. \A u \in Requests : Drafted(u)'
    BY <1>12, <2>1, <2>2 DEF request, Drafted, MarkUsed, Allowed, CountToday, Day
  <2>7. runtime'.date <= Day(now')
    <3>1. Day(now) \in Nat /\ Day(now') \in Nat /\ Day(now) <= Day(now')
      BY <1>12, <1>h, DayGrows
    <3>2. runtime.date \in Nat BY <1>h, RowFields
    <3>3. runtime' = runtime BY <1>12
    <3> HIDE DEF Day
    <3>q. QED BY <2>2, <3>1, <3>2, <3>3
  <2>q. QED BY <2>3, <2>5, <2>6, <2>7, <1>p
<1>13. CASE Tick BY <1>12, <1>13, <1>h DEF Tick, history
<1>14. CASE UNCHANGED vars BY <1>12, <1>14, <1>h DEF vars, history
<1>q. QED
  BY <1>1, <1>2, <1>3, <1>4, <1>5, <1>6, <1>7, <1>8, <1>9, <1>10, <1>11, <1>13, <1>14 DEF Next

-----------------------------------------------------------------------------
(* The experiences of a day *)

LEMMA MadeFinite ==
  ASSUME experiences \in Seq([at : Nat, material : Materials]), NEW d
  PROVE  IsFiniteSet(MadeOn(d)) /\ Cardinality(MadeOn(d)) \in Nat
<1>1. IsFiniteSet(1 .. Len(experiences)) BY FS_Interval
<1>2. MadeOn(d) \in SUBSET (1 .. Len(experiences)) BY DEF MadeOn
<1>3. IsFiniteSet(MadeOn(d)) BY <1>1, <1>2, FS_Subset
<1>q. QED BY <1>3, FS_CardinalityType

\* One more experience is one more on its day.
LEMMA MadeMore ==
  ASSUME experiences \in Seq([at : Nat, material : Materials]), NEW t \in Nat,
         NEW x \in Materials, experiences' = Append(experiences, [at |-> t, material |-> x]),
         NEW d
  PROVE  /\ Day(t) # d => MadeOn(d)' = MadeOn(d)
         /\ Cardinality(MadeOn(d)') <= Cardinality(MadeOn(d)) + 1
         /\ Cardinality(MadeOn(d)') \in Nat
<1> DEFINE e == [at |-> t, material |-> x]  n == Len(experiences) + 1
<1>1. e \in [at : Nat, material : Materials] /\ e.at = t OBVIOUS
<1> HIDE DEF e
<1>2. /\ DOMAIN experiences = 1 .. Len(experiences) /\ Len(experiences) \in Nat
      /\ DOMAIN Append(experiences, e) = 1 .. n
      /\ \A i \in 1 .. Len(experiences) : Append(experiences, e)[i] = experiences[i]
      /\ Append(experiences, e)[n] = e
  BY <1>1
<1>3. /\ DOMAIN experiences' = 1 .. n /\ experiences'[n].at = t
      /\ \A i \in 1 .. Len(experiences) : experiences'[i] = experiences[i]
  BY <1>1, <1>2 DEF e
<1>4. 1 .. n = (DOMAIN experiences) \cup {n} BY <1>2
<1>5. MadeOn(d)' = {i \in 1 .. n : Day(experiences'[i].at) = d} BY <1>3 DEF MadeOn, Day
<1>6. MadeOn(d)' = MadeOn(d) \cup (IF Day(t) = d THEN {n} ELSE {})
  BY <1>2, <1>3, <1>4, <1>5 DEF MadeOn
<1>7. IsFiniteSet(MadeOn(d)) /\ Cardinality(MadeOn(d)) \in Nat BY MadeFinite
<1>8. CASE Day(t) # d BY <1>6, <1>7, <1>8
<1>9. CASE Day(t) = d
  <2>1. MadeOn(d)' = MadeOn(d) \cup {n} BY <1>6, <1>9
  <2>2. /\ IsFiniteSet(MadeOn(d) \cup {n})
        /\ Cardinality(MadeOn(d) \cup {n})
             = IF n \in MadeOn(d) THEN Cardinality(MadeOn(d)) ELSE Cardinality(MadeOn(d)) + 1
    BY <1>7, FS_AddElement
  <2>q. QED BY <1>7, <1>9, <2>1, <2>2
<1>q. QED BY <1>8, <1>9

LEMMA CountsNat ==
  ASSUME runtime \in Rows, NEW d PROVE CountOn(d) \in Nat /\ PendingOn(d) \in {0, 1}
BY RowFields DEF CountOn, PendingOn

LEMMA DailyStep == ASSUME TypeInv, DraftInv, DailyInv, [Next]_vars PROVE DailyInv'
<1> SUFFICES ASSUME ~raced' PROVE DailyInv' BY DEF DailyInv
<1>t. Tables BY TablesOfTypes
<1>h. /\ runtime \in Rows /\ now \in Nat /\ faults \in Nat /\ \A r \in Requests : Holds(r)
      /\ experiences \in Seq([at : Nat, material : Materials])
  BY DEF TypeInv
<1>v. \A u \in Requests : moment[u] \in Nat BY <1>t DEF Tables
<1>x. DailyMax \in Nat BY LimitsAssumption
<1>y. runtime' \in Rows /\ experiences' \in Seq([at : Nat, material : Materials])
      /\ faults' \in Nat
  BY TypeStep DEF TypeInv
<1>d. ASSUME NEW d \in Nat
      PROVE  /\ CountOn(d) \in Nat /\ CountOn(d)' \in Nat
             /\ PendingOn(d) \in {0, 1} /\ PendingOn(d)' \in {0, 1}
             /\ Cardinality(MadeOn(d)) \in Nat
  <2>1. CountOn(d)' \in Nat BY <1>y, RowFields DEF CountOn
  <2>2. PendingOn(d)' \in {0, 1} BY DEF PendingOn
  <2>q. QED BY <2>1, <2>2, <1>h, CountsNat, MadeFinite
<1> DEFINE Few(d) == /\ Cardinality(MadeOn(d)) <= DailyMax + faults
                     /\ d >= runtime.date =>
                          Cardinality(MadeOn(d)) <= CountOn(d) + PendingOn(d) + faults
<1>c. DailyInv <=> (~raced => \A d \in Nat : Few(d)) BY DEF DailyInv
<1>p. DailyInv' <=> (~raced' => \A d \in Nat : Few(d)') BY DEF DailyInv
\* A step that neither makes an experience nor takes one off a request's hands.
<1>w. ASSUME ~raced, SameRecord(runtime', runtime), experiences' = experiences,
             faults' = faults,
             \A u \in Requests : (Unrecorded(u)' <=> Unrecorded(u)) /\
                                 (Unrecorded(u) => moment'[u] = moment[u])
      PROVE  DailyInv'
  <2>1. ASSUME NEW d \in Nat PROVE Few(d)'
    <3>1. PendingOn(d)' = PendingOn(d)
      <4>1. (\E u \in Requests : Unrecorded(u)' /\ Day(moment'[u]) = d)
              <=> (\E u \in Requests : Unrecorded(u) /\ Day(moment[u]) = d)
        BY <1>w
      <4>2. PendingOn(d)' = IF \E u \in Requests : Unrecorded(u)' /\ Day(moment'[u]) = d
                            THEN 1 ELSE 0
        BY DEF PendingOn, Day
      <4>q. QED BY <4>1, <4>2 DEF PendingOn
    <3>2. runtime'.date = runtime.date /\ runtime'.count = runtime.count
      BY <1>w, SameRecordSame
    <3>3. CountOn(d)' = CountOn(d) BY <3>2 DEF CountOn
    <3>4. MadeOn(d)' = MadeOn(d) BY <1>w DEF MadeOn, Day
    <3>5. Few(d) BY <1>w, <1>c
    <3>q. QED BY <1>w, <3>1, <3>2, <3>3, <3>4, <3>5
  <2>q. QED BY <2>1, <1>p
<1> HIDE DEF Few
<1>s. SameRecord(runtime, runtime) BY DEF SameRecord
\* The same, said of the action of one request.
<1>r. ASSUME NEW r \in Requests, Acts(r), ~raced, SameRecord(runtime', runtime),
             experiences' = experiences, faults' = faults,
             Unrecorded(r)' <=> Unrecorded(r), Unrecorded(r) => moment'[r] = moment[r]
      PROVE  DailyInv'
  <2>1. ASSUME NEW u \in Requests, u # r
        PROVE  (Unrecorded(u)' <=> Unrecorded(u)) /\ moment'[u] = moment[u]
    BY <1>t, <1>r, <2>1, UnrecordedKept, OthersKept DEF SameFor
  <2>2. \A u \in Requests : (Unrecorded(u)' <=> Unrecorded(u)) /\
                            (Unrecorded(u) => moment'[u] = moment[u])
    BY <1>r, <2>1
  <2>q. QED BY <1>w, <1>r, <2>2
<1>z. ASSUME NEW r \in Requests, Acts(r), UNCHANGED <<stored, history, faults>>,
             ~Unrecorded(r)', ~Unrecorded(r)
      PROVE  DailyInv'
  <2>1. runtime' = runtime /\ experiences' = experiences /\ ~raced /\ faults' = faults
    BY <1>z DEF stored, history
  <2>q. QED BY <1>r, <1>s, <1>z, <2>1
<1>1. ASSUME NEW r \in Requests, IdleTick(r) PROVE DailyInv'
  <2>1. pc[r] = "idle" /\ pc'[r] = "ask" /\ UNCHANGED <<stored, history, faults>>
    BY <1>t, <1>1, IdleTickDoes
  <2>q. QED BY <1>1, <1>z, <2>1 DEF Acts, Unrecorded
<1>2. ASSUME NEW r \in Requests, Create(r) PROVE DailyInv'
  <2>1. /\ pc[r] = "ask" /\ pc'[r] = "patchRead" /\ ~raced /\ ExperienceKeys \cap stale[r] = {}
        /\ experiences' = Append(experiences, [at |-> moment[r], material |-> choice[r][1]])
        /\ patch'[r] = MarkUsed(snap[r], moment[r], choice[r][1])
        /\ moment'[r] = moment[r] /\ UNCHANGED <<runtime, faults>>
    BY <1>t, <1>2, CreateDoes
  <2>2. /\ ~Pending /\ Allowed(runtime, moment[r]) /\ runtime.date <= Day(moment[r])
    BY <2>1 DEF DraftInv
  <2>3. choice[r][1] \in Materials /\ moment[r] \in Nat
    <3>1. choice[r] \in Picks BY <1>h, <2>1 DEF Holds
    <3>q. QED BY <3>1, <1>v, PicksTyped
  <2> DEFINE t == moment[r]
  <2>4. Unrecorded(r)' BY <2>1 DEF Unrecorded, MarkUsed
  <2>5. ASSUME NEW d \in Nat PROVE Few(d)'
    <3>1. Few(d) BY <2>1, <1>c
    <3>2. CountOn(d)' = CountOn(d) BY <2>1 DEF CountOn
    <3>3. PendingOn(d) = 0 BY <2>2 DEF PendingOn, Pending
    <3>4. /\ Day(t) # d => MadeOn(d)' = MadeOn(d)
          /\ Cardinality(MadeOn(d)') <= Cardinality(MadeOn(d)) + 1
          /\ Cardinality(MadeOn(d)') \in Nat
      BY <1>h, <2>1, <2>3, MadeMore
    <3>5. CASE Day(t) # d
      <4>1. Cardinality(MadeOn(d)') = Cardinality(MadeOn(d)) BY <3>4, <3>5
      <4>2. /\ Cardinality(MadeOn(d)) <= DailyMax + faults
            /\ d >= runtime.date => Cardinality(MadeOn(d)) <= CountOn(d) + 0 + faults
        BY <3>1, <3>3 DEF Few
      <4>3. d >= runtime.date => Cardinality(MadeOn(d)) <= CountOn(d) + PendingOn(d)' + faults
        <5> DEFINE c == Cardinality(MadeOn(d))  n == CountOn(d)  p == PendingOn(d)'
        <5>1. c \in Nat /\ n \in Nat /\ p \in {0, 1} BY <1>d
        <5>2. d >= runtime.date => c <= n + 0 + faults BY <4>2
        <5> HIDE DEF c, n, p
        <5>3. d >= runtime.date => c <= n + p + faults BY <5>1, <5>2, <1>h
        <5>q. QED BY <5>3 DEF c, n, p
      <4>q. QED BY <2>1, <3>2, <4>1, <4>2, <4>3 DEF Few
    <3>6. CASE Day(t) = d
      <4>1. PendingOn(d)' = 1
        <5>1. PendingOn(d)' = IF \E u \in Requests : Unrecorded(u)' /\ Day(moment'[u]) = d
                              THEN 1 ELSE 0
          BY DEF PendingOn, Day
        <5>2. Day(moment'[r]) = d BY <2>1, <3>6
        <5>q. QED BY <2>4, <5>1, <5>2
      <4>2. CountToday(runtime, t) = CountOn(d) BY <3>6 DEF CountToday, CountOn
      <4>3. CountOn(d) < DailyMax BY <2>2, <4>2 DEF Allowed
      <4>4. d >= runtime.date BY <2>2, <3>6
      <4>5. Cardinality(MadeOn(d)) <= CountOn(d) + faults
        BY <1>d, <1>h, <3>1, <3>3, <4>4 DEF Few
      <4>6. /\ Cardinality(MadeOn(d)') <= CountOn(d) + 1 + faults
            /\ Cardinality(MadeOn(d)') <= DailyMax + faults
        <5> DEFINE c == Cardinality(MadeOn(d))  e == Cardinality(MadeOn(d)')  n == CountOn(d)
        <5>1. c \in Nat /\ e \in Nat /\ n \in Nat BY <1>d, <3>4
        <5>2. e <= c + 1 /\ c <= n + faults /\ n < DailyMax BY <3>4, <4>3, <4>5
        <5> HIDE DEF c, e, n
        <5>3. e <= n + 1 + faults /\ e <= DailyMax + faults BY <5>1, <5>2, <1>h, <1>x
        <5>q. QED BY <5>3 DEF c, e, n
      <4>q. QED BY <2>1, <3>2, <4>1, <4>6 DEF Few
    <3>q. QED BY <3>5, <3>6
  <2>q. QED BY <2>5, <1>p
<1>3. ASSUME NEW r \in Requests, ProactiveCheck(r) PROVE DailyInv'
  <2>1. /\ pc[r] = "idle" /\ patch'[r] = [k \in {"lastCheck"} |-> now]
        /\ UNCHANGED <<stored, history, faults>>
    BY <1>t, <1>3, ProactiveCheckDoes
  <2>2. ~Unrecorded(r)' BY <2>1 DEF Unrecorded
  <2>q. QED BY <1>3, <1>z, <2>1, <2>2 DEF Acts, Unrecorded
<1>4. ASSUME NEW r \in Requests, Reason(r) PROVE DailyInv'
  <2>1. pc[r] = "reason" /\ pc'[r] = "opener" /\ UNCHANGED <<stored, history, faults>>
    BY <1>t, <1>4, ReasonDoes
  <2>q. QED BY <1>4, <1>z, <2>1 DEF Acts, Unrecorded
<1>5. ASSUME NEW r \in Requests, Opener(r) PROVE DailyInv'
  <2>1. pc[r] = "opener" /\ pc'[r] = "askOpener" /\ UNCHANGED <<stored, history, faults>>
    BY <1>t, <1>5, OpenerDoes
  <2>q. QED BY <1>5, <1>z, <2>1 DEF Acts, Unrecorded
<1>6. ASSUME NEW r \in Requests, OpenerAnswer(r) PROVE DailyInv'
  <2> DEFINE list == KeepLast(snap[r].shared \o choice[r], ShareHistory)
  <2>1. /\ pc[r] = "askOpener" /\ UNCHANGED <<stored, history, faults>>
        /\ patch'[r] = IF list = <<>> THEN Nothing ELSE [k \in {"shared"} |-> list]
    BY <1>t, <1>6, OpenerAnswerDoes
  <2> HIDE DEF list
  <2>2. ~Unrecorded(r)' BY <2>1 DEF Unrecorded, Nothing
  <2>q. QED BY <1>6, <1>z, <2>1, <2>2 DEF Acts, Unrecorded
<1>7. ASSUME NEW r \in Requests, PatchRead(r) PROVE DailyInv'
  <2>1. /\ pc[r] = "patchRead" /\ pc'[r] = "patchWrite"
        /\ UNCHANGED <<stored, history, faults>> /\ moment' = moment /\ patch' = patch
    BY <1>t, <1>7, PatchReadDoes
  <2>2. Unrecorded(r)' <=> Unrecorded(r) BY <2>1 DEF Unrecorded
  <2>3. runtime' = runtime /\ experiences' = experiences /\ ~raced /\ faults' = faults
    BY <2>1 DEF stored, history
  <2>4. Acts(r) /\ SameRecord(runtime', runtime) /\ moment'[r] = moment[r]
    BY <1>7, <1>s, <2>1, <2>3 DEF Acts
  <2>q. QED BY <1>r, <2>2, <2>3, <2>4
<1>8. ASSUME NEW r \in Requests, PatchWrite(r) PROVE DailyInv'
  <2>1. /\ pc[r] = "patchWrite" /\ pc'[r] \in {"idle", "reason"}
        /\ UNCHANGED <<now, experiences, faults>>
    BY <1>t, <1>8, PatchWriteDoes
  <2>2. /\ ~raced
        /\ \A k \in Keys : runtime'[k] = IF k \in DOMAIN patch[r] THEN patch[r][k]
                                         ELSE runtime[k]
    BY <1>8, WriteKeeps
  <2>3. Patching(r) /\ Acts(r) /\ ~Unrecorded(r)'
    BY <1>8, <2>1 DEF Patching, Acts, Unrecorded
  <2>4. CASE ~Records(r)
    <3>1. DOMAIN patch[r] \cap ExperienceKeys = {} /\ ~Unrecorded(r)
      BY <2>3, <2>4, WhichPatch, KeysListed
    <3>2. SameRecord(runtime', runtime) BY <2>2, <3>1 DEF SameRecord, Keys
    <3>q. QED BY <1>r, <2>1, <2>2, <2>3, <3>1, <3>2
  <2>5. CASE Records(r)
    <3> DEFINE t == moment[r]
    <3>1. Unrecorded(r) /\ DOMAIN patch[r] = ExperienceKeys BY <2>3, <2>5, WhichPatch
    <3>2. \A u \in Requests \ {r} : ~Unrecorded(u) BY <2>2, <3>1 DEF DraftInv
    <3>3. \A u \in Requests : ~Unrecorded(u)'
      BY <1>t, <2>3, <3>2, UnrecordedKept
    <3>4. patch[r] = MarkUsed(runtime, t, choice[r][1]) /\ runtime.date <= Day(t)
      BY <2>2, <3>1 DEF DraftInv
    <3>5. patch[r].date = Day(t) /\ patch[r].count = CountToday(runtime, t) + 1
      BY <3>4 DEF MarkUsed
    <3>6. runtime'.date = Day(t) /\ runtime'.count = CountToday(runtime, t) + 1
      BY <2>2, <3>1, <3>5, KeysListed
    <3>7. Day(t) \in Nat /\ runtime.date \in Nat BY <1>v, <1>h, DayGrows, RowFields
    <3>8. ASSUME NEW d \in Nat PROVE Few(d)'
      <4>1. Few(d) BY <2>2, <1>c
      <4>2. MadeOn(d)' = MadeOn(d) BY <2>1 DEF MadeOn, Day
      <4>3. PendingOn(d)' = 0 BY <3>3 DEF PendingOn
      <4>4. PendingOn(d) = IF Day(t) = d THEN 1 ELSE 0 BY <3>1, <3>2 DEF PendingOn
      <4>5. ASSUME d >= runtime'.date
            PROVE  Cardinality(MadeOn(d)) <= CountOn(d)' + faults
        <5>1. d >= runtime.date BY <3>4, <3>6, <3>7, <4>5
        <5>2. Cardinality(MadeOn(d)) <= CountOn(d) + PendingOn(d) + faults
          BY <4>1, <5>1 DEF Few
        <5>3. CASE Day(t) = d
          <6>1. CountOn(d)' = CountToday(runtime, t) + 1 BY <3>6, <5>3 DEF CountOn
          <6>2. CountToday(runtime, t) = CountOn(d) BY <5>3 DEF CountToday, CountOn
          <6>q. QED BY <1>d, <1>h, <4>4, <5>2, <5>3, <6>1, <6>2
        <5>4. CASE Day(t) # d
          <6>1. runtime.date # d BY <3>4, <3>6, <3>7, <4>5, <5>4
          <6>2. CountOn(d) = 0 BY <6>1 DEF CountOn
          <6>q. QED BY <1>d, <1>h, <4>4, <5>2, <5>4, <6>2
        <5>q. QED BY <5>3, <5>4
      <4>6. faults' = faults BY <2>1
      <4>7. CountOn(d)' + 0 = CountOn(d)' BY <1>d
      <4>q. QED BY <4>1, <4>2, <4>3, <4>5, <4>6, <4>7 DEF Few
    <3>q. QED BY <3>8, <1>p
  <2>q. QED BY <2>4, <2>5
<1>9. ASSUME NEW r \in Requests, UserTurn(r) PROVE DailyInv'
  <2>1. pc[r] = "idle" /\ pc'[r] = "streak" /\ UNCHANGED <<stored, history, faults>>
    BY <1>t, <1>9, UserTurnDoes
  <2>q. QED BY <1>9, <1>z, <2>1 DEF Acts, Unrecorded
<1>10. ASSUME NEW r \in Requests, WriteStreak(r) PROVE DailyInv'
  <2>1. /\ pc[r] = "streak" /\ pc'[r] = "idle" /\ (raced => raced')
        /\ UNCHANGED <<runtime, experiences, faults>>
    BY <1>t, <1>10, WriteStreakDoes
  <2>2. ~Unrecorded(r)' /\ ~Unrecorded(r) /\ Acts(r) BY <1>10, <2>1 DEF Unrecorded, Acts
  <2>3. SameRecord(runtime', runtime) BY <2>1, <1>s
  <2>q. QED BY <1>r, <2>1, <2>2, <2>3
<1>11. ASSUME NEW r \in Requests, Fail(r) PROVE DailyInv'
  <2>1. /\ pc'[r] = "idle" /\ UNCHANGED <<stored, history>>
        /\ faults' = IF Unrecorded(r) THEN faults + 1 ELSE faults
    BY <1>t, <1>11, FailDoes
  <2>2. ~Unrecorded(r)' BY <2>1 DEF Unrecorded
  <2>3. CASE ~Unrecorded(r) BY <1>11, <1>z, <2>1, <2>2, <2>3 DEF Acts
  <2>4. CASE Unrecorded(r)
    <3>1. runtime' = runtime /\ experiences' = experiences /\ ~raced BY <2>1 DEF stored, history
    <3>2. ASSUME NEW d \in Nat PROVE Few(d)'
      <4>1. Few(d) BY <3>1, <1>c
      <4>2. MadeOn(d)' = MadeOn(d) BY <3>1 DEF MadeOn, Day
      <4>3. CountOn(d)' = CountOn(d) BY <3>1 DEF CountOn
      <4>4. faults' = faults + 1 BY <2>1, <2>4
      <4>5. Cardinality(MadeOn(d)) <= DailyMax + faults' BY <1>d, <1>h, <1>x, <4>1, <4>4 DEF Few
      <4>6. d >= runtime.date =>
              Cardinality(MadeOn(d)) <= CountOn(d) + PendingOn(d)' + faults'
        <5> DEFINE c == Cardinality(MadeOn(d))  n == CountOn(d)
                   p == PendingOn(d)  q == PendingOn(d)'
        <5>1. c \in Nat /\ n \in Nat /\ p \in {0, 1} /\ q \in {0, 1} BY <1>d
        <5>2. d >= runtime.date => c <= n + p + faults BY <4>1 DEF Few
        <5> HIDE DEF c, n, p, q
        <5>3. d >= runtime.date => c <= n + q + faults' BY <5>1, <5>2, <4>4, <1>h
        <5>q. QED BY <5>3 DEF c, n, q
      <4>q. QED BY <3>1, <4>2, <4>3, <4>5, <4>6 DEF Few
    <3>q. QED BY <3>2, <1>p
  <2>q. QED BY <2>3, <2>4
<1>12. ASSUME UNCHANGED <<runtime, experiences, pc, request, raced, faults>> PROVE DailyInv'
  <2>1. \A u \in Requests : (Unrecorded(u)' <=> Unrecorded(u)) /\ moment'[u] = moment[u]
    BY <1>12 DEF request, Unrecorded
  <2>q. QED BY <1>w, <1>s, <1>12, <2>1
<1>13. CASE Tick BY <1>12, <1>13 DEF Tick, history
<1>14. CASE UNCHANGED vars BY <1>12, <1>14 DEF vars, history
<1>q. QED
  BY <1>1, <1>2, <1>3, <1>4, <1>5, <1>6, <1>7, <1>8, <1>9, <1>10, <1>11, <1>13, <1>14 DEF Next

-----------------------------------------------------------------------------
(* The last experiences *)

\* A pool that is larger than the history always has a material that is not in it.
LEMMA SomethingNew ==
  ASSUME NEW s \in Seq(Materials), Len(s) <= MaterialHistory,
         Cardinality(Materials) > MaterialHistory
  PROVE  \E x \in Materials : ~Among(x, s)
<1> SUFFICES ASSUME \A x \in Materials : Among(x, s) PROVE FALSE OBVIOUS
<1>1. Len(s) \in Nat /\ s \in [1 .. Len(s) -> Materials] OBVIOUS
<1>2. s \in Surjection(1 .. Len(s), Materials) BY <1>1 DEF Surjection, Among
<1>3. IsFiniteSet(1 .. Len(s)) /\ Cardinality(1 .. Len(s)) = Len(s) BY <1>1, FS_Interval
<1>4. IsFiniteSet(Materials) /\ Cardinality(Materials) <= Len(s) BY <1>2, <1>3, FS_Surjection
<1>5. Cardinality(Materials) \in Nat BY <1>4, FS_CardinalityType
<1>6. MaterialHistory \in Nat BY HistoryAssumption
<1> DEFINE c == Cardinality(Materials)  n == Len(s)
<1>7. c \in Nat /\ n \in Nat /\ c <= n /\ n <= MaterialHistory /\ c > MaterialHistory
  BY <1>1, <1>4, <1>5
<1> HIDE DEF c, n
<1>q. QED BY <1>6, <1>7

\* A new experience keeps the distance the rows ask for, in time and in material.
LEMMA NewOneFits ==
  ASSUME experiences \in Seq([at : Nat, material : Materials]), runtime \in Rows,
         Mirrors(Len(experiences)), Spaced, Varied,
         NEW t \in Nat, t > 0, NEW x \in Candidates(runtime), Allowed(runtime, t),
         experiences' = Append(experiences, [at |-> t, material |-> x])
  PROVE  Spaced' /\ Varied'
<1> DEFINE e == [at |-> t, material |-> x]  n == Len(experiences)  k == Len(runtime.material)
<1>1. x \in Materials BY DEF Candidates
<1>2. e \in [at : Nat, material : Materials] /\ e.at = t /\ e.material = x BY <1>1
<1> HIDE DEF e
<1>3. /\ n \in Nat /\ DOMAIN experiences = 1 .. n /\ DOMAIN experiences' = 1 .. n + 1
      /\ \A i \in 1 .. n : experiences'[i] = experiences[i]
      /\ experiences'[n + 1] = e
      /\ \A i \in 1 .. n : experiences[i].at \in Nat
  <2>1. /\ DOMAIN Append(experiences, e) = 1 .. n + 1
        /\ \A i \in 1 .. n : Append(experiences, e)[i] = experiences[i]
        /\ Append(experiences, e)[n + 1] = e
    BY <1>2
  <2>2. n \in Nat /\ DOMAIN experiences = 1 .. n OBVIOUS
  <2>3. \A i \in 1 .. n : experiences[i] \in [at : Nat, material : Materials]
    BY ElementOfSeq
  <2>4. \A i \in 1 .. n : experiences[i].at \in Nat BY <2>3
  <2>q. QED BY <2>1, <2>2, <2>4 DEF e
<1>g. MinGap \in Nat /\ MaterialHistory \in Nat BY LimitsAssumption, HistoryAssumption
<1>4. ASSUME NEW i \in 1 .. n PROVE t >= experiences[i].at + MinGap
  <2>1. n # 0 /\ n \in 1 .. n BY <1>3
  <2>2. runtime.lastAt = experiences[n].at BY <2>1 DEF Mirrors
  <2>3. experiences[n].at > 0 /\ (i < n => experiences[n].at >= experiences[i].at + MinGap)
    BY <2>1, <1>3 DEF Spaced
  <2>4. t >= experiences[n].at + MinGap BY <2>2, <2>3 DEF Allowed
  <2>5. i = n \/ i < n
    <3>1. n \in Nat BY <1>3
    <3> HIDE DEF n
    <3>q. QED BY <3>1
  <2>6. experiences[n].at \in Nat /\ experiences[i].at \in Nat BY <1>3, <2>1
  <2>7. CASE i = n BY <2>4, <2>7
  <2>8. CASE i < n
    <3> DEFINE a == experiences[i].at  b == experiences[n].at
    <3>1. a \in Nat /\ b \in Nat /\ b >= a + MinGap /\ t >= b + MinGap
      BY <2>3, <2>4, <2>6, <2>8
    <3> HIDE DEF a, b
    <3>2. t >= a + MinGap BY <3>1, <1>g
    <3>q. QED BY <3>2 DEF a
  <2>q. QED BY <2>5, <2>7, <2>8
<1>5. Spaced'
  <2>1. ASSUME NEW i \in 1 .. n + 1 PROVE experiences'[i].at > 0
    <3>1. CASE i = n + 1 BY <1>2, <1>3, <3>1
    <3>2. CASE i # n + 1
      <4>1. i \in 1 .. n BY <1>3, <3>2
      <4>q. QED BY <1>3, <4>1 DEF Spaced
    <3>q. QED BY <3>1, <3>2
  <2>2. ASSUME NEW i \in 1 .. n + 1, NEW j \in 1 .. n + 1, i < j
        PROVE  experiences'[j].at >= experiences'[i].at + MinGap
    <3>1. i \in 1 .. n BY <1>3, <2>2
    <3>2. CASE j = n + 1 BY <1>2, <1>3, <1>4, <3>1, <3>2
    <3>3. CASE j # n + 1
      <4>1. j \in 1 .. n BY <1>3, <3>3
      <4>q. QED BY <1>3, <2>2, <3>1, <4>1 DEF Spaced
    <3>q. QED BY <3>2, <3>3
  <2>q. QED BY <1>3, <2>1, <2>2 DEF Spaced
<1>6. ASSUME Cardinality(Materials) > MaterialHistory,
             NEW i \in 1 .. n, n + 1 <= i + MaterialHistory
      PROVE  experiences[i].material # x
  <2>1. runtime.material \in Seq(Materials) /\ k <= MaterialHistory BY RowFields
  <2>2. \E y \in Materials : ~Among(y, runtime.material) BY <1>6, <2>1, SomethingNew
  <2>3. ~Among(x, runtime.material) BY <2>2 DEF Candidates
  <2>4. k = (IF n < MaterialHistory THEN n ELSE MaterialHistory) BY DEF Mirrors
  <2> DEFINE q == i - n + k
  <2>5. q \in 1 .. k /\ n - k + q = i
    <3>1. n \in Nat /\ k \in Nat BY <1>3, <2>1
    <3> HIDE DEF n, k
    <3>q. QED BY <1>6, <1>g, <2>4, <3>1
  <2>6. runtime.material[q] = experiences[n - k + q].material BY <2>5 DEF Mirrors
  <2>7. DOMAIN runtime.material = 1 .. k BY <2>1
  <2>8. runtime.material[q] # x BY <2>3, <2>5, <2>7 DEF Among
  <2>q. QED BY <2>5, <2>6, <2>8
<1>7. Varied'
  <2>1. SUFFICES ASSUME Cardinality(Materials) > MaterialHistory,
                        NEW i \in 1 .. n + 1, NEW j \in 1 .. n + 1,
                        i < j, j <= i + MaterialHistory
                 PROVE  experiences'[i].material # experiences'[j].material
    BY <1>3 DEF Varied
  <2>2. i \in 1 .. n BY <1>3, <2>1
  <2>3. CASE j = n + 1 BY <1>2, <1>3, <1>6, <2>1, <2>2, <2>3
  <2>4. CASE j # n + 1
    <3>1. j \in 1 .. n BY <1>3, <2>4
    <3>q. QED BY <1>3, <2>1, <2>2, <3>1 DEF Varied
  <2>q. QED BY <2>3, <2>4
<1>q. QED BY <1>5, <1>7

\* Once it is recorded, the rows mirror one experience more.
LEMMA MirrorsOneMore ==
  ASSUME experiences \in Seq([at : Nat, material : Materials]), runtime \in Rows,
         NEW n \in Nat, n + 1 \in DOMAIN experiences, Mirrors(n),
         NEW t, t = experiences[n + 1].at, NEW x \in Materials,
         x = experiences[n + 1].material,
         runtime'.lastAt = t,
         runtime'.material = KeepLast(Append(runtime.material, x), MaterialHistory),
         experiences' = experiences
  PROVE  Mirrors(n + 1)'
<1> DEFINE m == runtime.material  a == Append(m, x)  b == KeepLast(a, MaterialHistory)
           k == Len(m)
<1>1. m \in Seq(Materials) /\ k \in Nat BY RowFields
<1>2. MaterialHistory \in Nat \ {0} BY HistoryAssumption
<1>3. k = (IF n < MaterialHistory THEN n ELSE MaterialHistory) BY DEF Mirrors
<1>4. a \in Seq(Materials) /\ Len(a) = k + 1 BY <1>1
<1>5. \A i \in 1 .. k + 1 : a[i] = experiences[n - k + i].material
  <2>1. SUFFICES ASSUME NEW i \in 1 .. k + 1 PROVE a[i] = experiences[n - k + i].material
    OBVIOUS
  <2>2. CASE i = k + 1
    <3>1. a[i] = x BY <1>1, <2>2
    <3>2. n - k + i = n + 1
      <4> HIDE DEF k
      <4>q. QED BY <1>1, <2>2
    <3>q. QED BY <3>1, <3>2
  <2>3. CASE i # k + 1
    <3>1. i \in 1 .. k BY <1>1, <2>3
    <3>2. a[i] = m[i] BY <1>1, <3>1
    <3>3. m[i] = experiences[n - k + i].material BY <3>1 DEF Mirrors
    <3>q. QED BY <3>2, <3>3
  <2>q. QED BY <2>2, <2>3
<1> HIDE DEF a
<1>6. /\ Len(b) = IF Len(a) > MaterialHistory THEN MaterialHistory ELSE Len(a)
      /\ \A i \in 1 .. Len(b) : b[i] = a[Len(a) - Len(b) + i]
  <2>1. MaterialHistory \in Nat BY <1>2
  <2>2. a \in Seq(Materials) BY <1>4
  <2>3. b = KeepLast(a, MaterialHistory) BY DEF b
  <2> HIDE DEF b
  <2>4. /\ Len(KeepLast(a, MaterialHistory)) =
             IF Len(a) > MaterialHistory THEN MaterialHistory ELSE Len(a)
        /\ \A i \in 1 .. Len(KeepLast(a, MaterialHistory)) :
             KeepLast(a, MaterialHistory)[i] =
               a[Len(a) - Len(KeepLast(a, MaterialHistory)) + i]
    BY <2>1, <2>2, LastOnes
  <2>q. QED BY <2>3, <2>4
<1> HIDE DEF b, k
<1>7. Len(b) = IF n + 1 < MaterialHistory THEN n + 1 ELSE MaterialHistory
  BY <1>1, <1>2, <1>3, <1>4, <1>6
<1>8. \A q \in 1 .. Len(b) : b[q] = experiences[n + 1 - Len(b) + q].material
  <2>1. SUFFICES ASSUME NEW q \in 1 .. Len(b)
                 PROVE  b[q] = experiences[n + 1 - Len(b) + q].material
    OBVIOUS
  <2>2. Len(b) \in Nat /\ Len(b) <= k + 1 BY <1>1, <1>2, <1>4, <1>6
  <2>3. k + 1 - Len(b) + q \in 1 .. k + 1 BY <1>1, <2>1, <2>2
  <2>4. b[q] = a[k + 1 - Len(b) + q]
    <3>1. b[q] = a[Len(a) - Len(b) + q] BY <1>6, <2>1
    <3>2. Len(a) = k + 1 BY <1>4
    <3>3. (k + 1) - Len(b) + q = k + 1 - Len(b) + q BY <1>1, <2>2
    <3>q. QED BY <3>1, <3>2, <3>3
  <2>5. b[q] = experiences[n - k + (k + 1 - Len(b) + q)].material BY <1>5, <2>3, <2>4
  <2>6. n - k + (k + 1 - Len(b) + q) = n + 1 - Len(b) + q BY <1>1, <2>2
  <2>q. QED BY <2>5, <2>6
<1>9. runtime'.material = b BY DEF a, b
<1>10. n + 1 # 0 OBVIOUS
<1>11. Mirrors(n + 1)' <=>
        /\ runtime'.lastAt = IF n + 1 = 0 THEN 0 ELSE experiences'[n + 1].at
        /\ Len(runtime'.material) = IF n + 1 < MaterialHistory THEN n + 1 ELSE MaterialHistory
        /\ \A q \in 1 .. Len(runtime'.material) :
             runtime'.material[q] = experiences'[n + 1 - Len(runtime'.material) + q].material
  BY DEF Mirrors
<1>q. QED BY <1>7, <1>8, <1>9, <1>10, <1>11

LEMMA RecentStep == ASSUME TypeInv, DraftInv, RecentInv, [Next]_vars PROVE RecentInv'
<1> SUFFICES ASSUME ~raced', faults' = 0 PROVE RecentInv' BY DEF RecentInv
<1>t. Tables BY TablesOfTypes
<1>h. /\ runtime \in Rows /\ faults \in Nat /\ \A r \in Requests : Holds(r)
      /\ experiences \in Seq([at : Nat, material : Materials])
  BY DEF TypeInv
<1>v. \A u \in Requests : moment[u] \in Nat BY <1>t DEF Tables
<1>c. ~raced /\ faults = 0 => Mirrors(Recorded) /\ Spaced /\ Varied BY DEF RecentInv
<1>p. Mirrors(Recorded)' /\ Spaced' /\ Varied' => RecentInv' BY DEF RecentInv
<1>w. ASSUME ~raced, SameRecord(runtime', runtime), experiences' = experiences, faults = 0,
             \A u \in Requests : Unrecorded(u)' <=> Unrecorded(u)
      PROVE  RecentInv'
  <2>1. Pending' <=> Pending BY <1>w DEF Pending
  <2>2. Recorded' = Recorded BY <1>w, <2>1 DEF Recorded
  <2>3. runtime'.lastAt = runtime.lastAt /\ runtime'.material = runtime.material
    BY <1>w, SameRecordSame
  <2>4. Mirrors(Recorded)' BY <1>c, <1>w, <2>2, <2>3 DEF Mirrors
  <2>5. Spaced' /\ Varied' BY <1>c, <1>w DEF Spaced, Varied
  <2>q. QED BY <1>p, <2>4, <2>5
<1>s. SameRecord(runtime, runtime) BY DEF SameRecord
<1>r. ASSUME NEW r \in Requests, Acts(r), ~raced, SameRecord(runtime', runtime),
             experiences' = experiences, faults = 0, Unrecorded(r)' <=> Unrecorded(r)
      PROVE  RecentInv'
  <2>1. \A u \in Requests : Unrecorded(u)' <=> Unrecorded(u) BY <1>t, <1>r, UnrecordedKept
  <2>q. QED BY <1>w, <1>r, <2>1
<1>z. ASSUME NEW r \in Requests, Acts(r), UNCHANGED <<stored, history, faults>>,
             ~Unrecorded(r)', ~Unrecorded(r)
      PROVE  RecentInv'
  <2>1. runtime' = runtime /\ experiences' = experiences /\ ~raced /\ faults = 0
    BY <1>z DEF stored, history
  <2>q. QED BY <1>r, <1>s, <1>z, <2>1
<1>1. ASSUME NEW r \in Requests, IdleTick(r) PROVE RecentInv'
  <2>1. pc[r] = "idle" /\ pc'[r] = "ask" /\ UNCHANGED <<stored, history, faults>>
    BY <1>t, <1>1, IdleTickDoes
  <2>q. QED BY <1>1, <1>z, <2>1 DEF Acts, Unrecorded
<1>2. ASSUME NEW r \in Requests, Create(r) PROVE RecentInv'
  <2> DEFINE t == moment[r]  x == choice[r][1]  n == Len(experiences)
  <2>1. /\ pc[r] = "ask" /\ pc'[r] = "patchRead" /\ ~raced /\ ExperienceKeys \cap stale[r] = {}
        /\ experiences' = Append(experiences, [at |-> t, material |-> x])
        /\ patch'[r] = MarkUsed(snap[r], t, x) /\ UNCHANGED <<runtime, faults>>
    BY <1>t, <1>2, CreateDoes
  <2>2. ~Pending /\ Allowed(runtime, t) /\ x \in Candidates(runtime) BY <2>1 DEF DraftInv
  <2>3. t \in Nat /\ t > 0 BY <1>h, <1>v, <2>1 DEF Holds
  <2>4. Recorded = n /\ n \in Nat BY <1>h, <2>2 DEF Recorded
  <2>5. Mirrors(n) /\ Spaced /\ Varied BY <1>c, <2>1, <2>4
  <2>6. Spaced' /\ Varied' BY <1>h, <2>1, <2>2, <2>3, <2>5, NewOneFits
  <2>7. Unrecorded(r)' BY <2>1 DEF Unrecorded, MarkUsed
  <2>8. x \in Materials BY <2>2 DEF Candidates
  <2>9. /\ Len(experiences') = n + 1 /\ \A i \in 1 .. n : experiences'[i] = experiences[i]
    <3> DEFINE e == [at |-> t, material |-> x]
    <3>1. e \in [at : Nat, material : Materials] BY <2>3, <2>8
    <3> HIDE DEF e
    <3>2. /\ Len(Append(experiences, e)) = n + 1
          /\ \A i \in 1 .. n : Append(experiences, e)[i] = experiences[i]
      BY <1>h, <3>1
    <3>q. QED BY <2>1, <3>2 DEF e
  <2>10. Recorded' = n
    <3>1. Pending' BY <2>7 DEF Pending
    <3>2. Recorded' = Len(experiences') - 1 BY <3>1 DEF Recorded
    <3>q. QED BY <2>4, <2>9, <3>2
  <2>11. Mirrors(Recorded)'
    <3> DEFINE k == Len(runtime.material)
    <3>1. k \in Nat BY <1>h, RowFields
    <3>2. k = (IF n < MaterialHistory THEN n ELSE MaterialHistory) BY <2>5 DEF Mirrors
    <3>3. MaterialHistory \in Nat BY HistoryAssumption
    <3>4. \A q \in 1 .. k : n - k + q \in 1 .. n BY <2>4, <3>1, <3>2, <3>3
    <3>5. n # 0 => n \in 1 .. n BY <2>4
    <3>6. runtime' = runtime BY <2>1
    <3>7. runtime.lastAt = IF n = 0 THEN 0 ELSE experiences'[n].at
      BY <2>5, <2>9, <3>5 DEF Mirrors
    <3>8. \A q \in 1 .. k : runtime.material[q] = experiences'[n - k + q].material
      BY <2>5, <2>9, <3>4 DEF Mirrors
    <3> HIDE DEF n
    <3>q. QED BY <2>10, <3>2, <3>6, <3>7, <3>8 DEF Mirrors
  <2>q. QED BY <1>p, <2>6, <2>11
<1>3. ASSUME NEW r \in Requests, ProactiveCheck(r) PROVE RecentInv'
  <2>1. /\ pc[r] = "idle" /\ patch'[r] = [k \in {"lastCheck"} |-> now]
        /\ UNCHANGED <<stored, history, faults>>
    BY <1>t, <1>3, ProactiveCheckDoes
  <2>2. ~Unrecorded(r)' BY <2>1 DEF Unrecorded
  <2>q. QED BY <1>3, <1>z, <2>1, <2>2 DEF Acts, Unrecorded
<1>4. ASSUME NEW r \in Requests, Reason(r) PROVE RecentInv'
  <2>1. pc[r] = "reason" /\ pc'[r] = "opener" /\ UNCHANGED <<stored, history, faults>>
    BY <1>t, <1>4, ReasonDoes
  <2>q. QED BY <1>4, <1>z, <2>1 DEF Acts, Unrecorded
<1>5. ASSUME NEW r \in Requests, Opener(r) PROVE RecentInv'
  <2>1. pc[r] = "opener" /\ pc'[r] = "askOpener" /\ UNCHANGED <<stored, history, faults>>
    BY <1>t, <1>5, OpenerDoes
  <2>q. QED BY <1>5, <1>z, <2>1 DEF Acts, Unrecorded
<1>6. ASSUME NEW r \in Requests, OpenerAnswer(r) PROVE RecentInv'
  <2> DEFINE list == KeepLast(snap[r].shared \o choice[r], ShareHistory)
  <2>1. /\ pc[r] = "askOpener" /\ UNCHANGED <<stored, history, faults>>
        /\ patch'[r] = IF list = <<>> THEN Nothing ELSE [k \in {"shared"} |-> list]
    BY <1>t, <1>6, OpenerAnswerDoes
  <2> HIDE DEF list
  <2>2. ~Unrecorded(r)' BY <2>1 DEF Unrecorded, Nothing
  <2>q. QED BY <1>6, <1>z, <2>1, <2>2 DEF Acts, Unrecorded
<1>7. ASSUME NEW r \in Requests, PatchRead(r) PROVE RecentInv'
  <2>1. /\ pc[r] = "patchRead" /\ pc'[r] = "patchWrite"
        /\ UNCHANGED <<stored, history, faults>> /\ patch' = patch
    BY <1>t, <1>7, PatchReadDoes
  <2>2. Unrecorded(r)' <=> Unrecorded(r) BY <2>1 DEF Unrecorded
  <2>3. runtime' = runtime /\ experiences' = experiences /\ ~raced /\ faults = 0
    BY <2>1 DEF stored, history
  <2>4. Acts(r) /\ SameRecord(runtime', runtime) BY <1>7, <1>s, <2>3 DEF Acts
  <2>q. QED BY <1>r, <2>2, <2>3, <2>4
<1>8. ASSUME NEW r \in Requests, PatchWrite(r) PROVE RecentInv'
  <2>1. /\ pc[r] = "patchWrite" /\ pc'[r] \in {"idle", "reason"} /\ faults = 0
        /\ UNCHANGED <<experiences, faults>>
    BY <1>t, <1>8, PatchWriteDoes
  <2>2. /\ ~raced
        /\ \A k \in Keys : runtime'[k] = IF k \in DOMAIN patch[r] THEN patch[r][k]
                                         ELSE runtime[k]
    BY <1>8, WriteKeeps
  <2>3. Patching(r) /\ Acts(r) /\ ~Unrecorded(r)'
    BY <1>8, <2>1 DEF Patching, Acts, Unrecorded
  <2>4. CASE ~Records(r)
    <3>1. DOMAIN patch[r] \cap ExperienceKeys = {} /\ ~Unrecorded(r)
      BY <2>3, <2>4, WhichPatch, KeysListed
    <3>2. SameRecord(runtime', runtime) BY <2>2, <3>1 DEF SameRecord, Keys
    <3>q. QED BY <1>r, <2>1, <2>2, <2>3, <3>1, <3>2
  <2>5. CASE Records(r)
    <3> DEFINE t == moment[r]  x == choice[r][1]
    <3>1. Unrecorded(r) /\ DOMAIN patch[r] = ExperienceKeys BY <2>3, <2>5, WhichPatch
    <3>2. \A u \in Requests \ {r} : ~Unrecorded(u) BY <2>2, <3>1 DEF DraftInv
    <3>3. ~Pending' BY <1>t, <2>3, <3>2, UnrecordedKept DEF Pending
    <3>4. /\ patch[r] = MarkUsed(runtime, t, x) /\ experiences # <<>>
          /\ experiences[Len(experiences)] = [at |-> t, material |-> x]
      BY <2>2, <3>1 DEF DraftInv
    <3>5. /\ patch[r].lastAt = t
          /\ patch[r].material = KeepLast(Append(runtime.material, x), MaterialHistory)
      BY <3>4 DEF MarkUsed
    <3>6. /\ runtime'.lastAt = t
          /\ runtime'.material = KeepLast(Append(runtime.material, x), MaterialHistory)
      BY <2>2, <3>1, <3>5, KeysListed
    <3>7. PICK n \in Nat : n = Len(experiences) - 1 /\ n + 1 = Len(experiences)
                            /\ n + 1 \in DOMAIN experiences
      <4>1. Len(experiences) \in Nat \ {0} /\ DOMAIN experiences = 1 .. Len(experiences)
        BY <1>h, <3>4
      <4> DEFINE k == Len(experiences)
      <4> HIDE DEF k
      <4>2. k - 1 \in Nat /\ (k - 1) + 1 = k /\ k \in 1 .. k BY <4>1 DEF k
      <4>q. QED BY <4>1, <4>2 DEF k
    <3>8. Recorded = n BY <3>1, <3>7 DEF Recorded, Pending
    <3>9. Mirrors(n) /\ Spaced /\ Varied BY <1>c, <2>1, <2>2, <3>8
    <3>10. x \in Materials /\ t = experiences[n + 1].at /\ x = experiences[n + 1].material
      BY <2>5, <3>4, <3>7, PicksTyped DEF Records
    <3>11. Mirrors(n + 1)'
      <4>1. experiences' = experiences BY <2>1
      <4>q. QED BY <1>h, <3>6, <3>7, <3>9, <3>10, <4>1, MirrorsOneMore
    <3>12. Recorded' = Len(experiences') BY <3>3 DEF Recorded
    <3>13. Recorded' = n + 1 BY <2>1, <3>7, <3>12
    <3>14. Mirrors(Recorded)' BY <3>11, <3>13 DEF Mirrors
    <3>15. Spaced' /\ Varied' BY <2>1, <3>9 DEF Spaced, Varied
    <3>q. QED BY <1>p, <3>14, <3>15
  <2>q. QED BY <2>4, <2>5
<1>9. ASSUME NEW r \in Requests, UserTurn(r) PROVE RecentInv'
  <2>1. pc[r] = "idle" /\ pc'[r] = "streak" /\ UNCHANGED <<stored, history, faults>>
    BY <1>t, <1>9, UserTurnDoes
  <2>q. QED BY <1>9, <1>z, <2>1 DEF Acts, Unrecorded
<1>10. ASSUME NEW r \in Requests, WriteStreak(r) PROVE RecentInv'
  <2>1. /\ pc[r] = "streak" /\ pc'[r] = "idle" /\ (raced => raced')
        /\ UNCHANGED <<runtime, experiences, faults>>
    BY <1>t, <1>10, WriteStreakDoes
  <2>2. ~Unrecorded(r)' /\ ~Unrecorded(r) /\ Acts(r) BY <1>10, <2>1 DEF Unrecorded, Acts
  <2>3. SameRecord(runtime', runtime) BY <2>1, <1>s
  <2>q. QED BY <1>r, <2>1, <2>2, <2>3
<1>11. ASSUME NEW r \in Requests, Fail(r) PROVE RecentInv'
  <2>1. /\ pc'[r] = "idle" /\ UNCHANGED <<stored, history>>
        /\ faults' = IF Unrecorded(r) THEN faults + 1 ELSE faults
    BY <1>t, <1>11, FailDoes
  <2>2. ~Unrecorded(r)' BY <2>1 DEF Unrecorded
  <2>3. ~Unrecorded(r) BY <2>1, <1>h
  <2>q. QED BY <1>11, <1>z, <2>1, <2>2, <2>3 DEF Acts
<1>12. ASSUME UNCHANGED <<runtime, experiences, pc, request, raced, faults>> PROVE RecentInv'
  <2>1. \A u \in Requests : Unrecorded(u)' <=> Unrecorded(u) BY <1>12 DEF request, Unrecorded
  <2>q. QED BY <1>w, <1>s, <1>12, <2>1
<1>13. CASE Tick BY <1>12, <1>13 DEF Tick, history
<1>14. CASE UNCHANGED vars BY <1>12, <1>14 DEF vars, history
<1>q. QED
  BY <1>1, <1>2, <1>3, <1>4, <1>5, <1>6, <1>7, <1>8, <1>9, <1>10, <1>11, <1>13, <1>14 DEF Next

-----------------------------------------------------------------------------
(* What was shared *)

LEMMA SharedStep == ASSUME TypeInv, SharedInv, [Next]_vars PROVE SharedInv'
<1> SUFFICES ASSUME ~raced' PROVE SharedInv' BY DEF SharedInv
<1>t. Tables BY TablesOfTypes
<1>h. runtime \in Rows /\ repeated \in BOOLEAN /\ \A r \in Requests : Holds(r) BY DEF TypeInv
<1>n. ShareHistory \in Nat BY HistoryAssumption
<1> DEFINE Fine(u) == Sharing(u) /\ "shared" \notin stale[u] => Agreed(u)
           Base == told = runtime.shared /\ ~repeated
<1>c. SharedInv <=> (~raced => Base /\ \A u \in Requests : Fine(u)) BY DEF SharedInv
<1>p. SharedInv' <=> (~raced' => Base' /\ \A u \in Requests : Fine(u)') BY DEF SharedInv
\* A request that did not act, as long as the list it goes by was not written.
<1>k. ASSUME NEW u \in Requests, ~raced, SameFor(u), stale[u] \subseteq stale'[u],
             runtime'.shared = runtime.shared \/ "shared" \in stale'[u]
      PROVE  Fine(u)'
  <2>1. Fine(u) BY <1>k, <1>c
  <2>2. SUFFICES ASSUME Sharing(u)', "shared" \notin stale'[u] PROVE Agreed(u)' OBVIOUS
  <2>3. Sharing(u) /\ "shared" \notin stale[u]
    BY <1>k, <2>2 DEF SameFor, Sharing, Patching, Lists
  <2>4. Agreed(u) BY <2>1, <2>3
  <2>5. runtime'.shared = runtime.shared BY <1>k, <2>2
  <2>q. QED BY <1>k, <2>4, <2>5 DEF SameFor, Agreed, Patching
<1>o. ASSUME NEW r \in Requests, Acts(r), ~raced, NEW u \in Requests, u # r,
             runtime'.shared = runtime.shared \/ "shared" \in stale'[u]
      PROVE  Fine(u)'
  BY <1>t, <1>o, <1>k, OthersKept
<1>f. ASSUME NEW u \in Requests, ~Sharing(u)' PROVE Fine(u)' BY <1>f
<1> HIDE DEF Fine, Base
\* An action that writes no list.
<1>w. ASSUME NEW r \in Requests, Acts(r), ~raced, Fine(r)',
             runtime'.shared = runtime.shared, told' = told, repeated' = repeated
      PROVE  SharedInv'
  <2>1. Base' BY <1>w, <1>c DEF Base
  <2>2. \A u \in Requests : Fine(u)' BY <1>w, <1>o
  <2>q. QED BY <2>1, <2>2, <1>p
<1>z. ASSUME NEW r \in Requests, Acts(r), Fine(r)', UNCHANGED <<stored, history>>
      PROVE  SharedInv'
  BY <1>w, <1>z DEF stored, history
<1>1. ASSUME NEW r \in Requests, IdleTick(r) PROVE SharedInv'
  <2>1. pc'[r] = "ask" /\ UNCHANGED <<stored, history>> BY <1>t, <1>1, IdleTickDoes
  <2>2. ~Sharing(r)' BY <2>1 DEF Sharing, Patching
  <2>q. QED BY <1>1, <1>f, <1>z, <2>1, <2>2 DEF Acts
<1>2. ASSUME NEW r \in Requests, Create(r) PROVE SharedInv'
  <2>1. /\ pc'[r] = "patchRead" /\ patch'[r] = MarkUsed(snap[r], moment[r], choice[r][1])
        /\ raced => raced'
        /\ UNCHANGED <<runtime, told, repeated>>
    BY <1>t, <1>2, CreateDoes
  <2>2. "count" \in DOMAIN patch'[r] BY <2>1 DEF MarkUsed
  <2>3. ~Lists(r)' BY <2>2 DEF Lists, Nothing, SharePatches
  <2>4. ~Sharing(r)' BY <2>1, <2>3 DEF Sharing
  <2>q. QED BY <1>2, <1>f, <1>w, <2>1, <2>4 DEF Acts
<1>3. ASSUME NEW r \in Requests, ProactiveCheck(r) PROVE SharedInv'
  <2>1. /\ pc'[r] = "patchRead" /\ patch'[r] = [k \in {"lastCheck"} |-> now]
        /\ UNCHANGED <<stored, history>>
    BY <1>t, <1>3, ProactiveCheckDoes
  <2>2. "lastCheck" \in DOMAIN patch'[r] BY <2>1
  <2>3. ~Lists(r)' BY <2>2 DEF Lists, Nothing, SharePatches
  <2>4. ~Sharing(r)' BY <2>1, <2>3 DEF Sharing
  <2>q. QED BY <1>3, <1>f, <1>z, <2>1, <2>4 DEF Acts
<1>4. ASSUME NEW r \in Requests, Reason(r) PROVE SharedInv'
  <2>1. /\ pc'[r] = "opener" /\ UNCHANGED <<stored, history>>
        /\ choice'[r] = <<>> \/ \E i \in Shareable : choice'[r] = <<i>>
    BY <1>t, <1>4, ReasonDoes
  <2>2. choice'[r] # <<>> => ~Among(choice'[r][1], runtime.shared)
    BY <2>1 DEF Shareable
  <2>3. runtime' = runtime BY <2>1 DEF stored
  <2>4. Agreed(r)' BY <2>1, <2>2, <2>3 DEF Agreed, Patching
  <2>q. QED BY <1>4, <1>z, <2>1, <2>4 DEF Acts, Fine
<1>5. ASSUME NEW r \in Requests, Opener(r) PROVE SharedInv'
  <2>1. /\ pc[r] = "opener" /\ pc'[r] = "askOpener" /\ UNCHANGED <<stored, history>>
        /\ snap'[r] = Reading({"shared"}) /\ choice'[r] = choice[r]
        /\ stale'[r] = IF choice[r] = <<>> THEN {} ELSE stale[r] \cap {"shared"}
    BY <1>t, <1>5, OpenerDoes
  <2>2. runtime' = runtime /\ ~raced BY <2>1 DEF stored, history
  <2>3. snap'[r].shared = runtime.shared BY <2>1 DEF Reading, Keys
  <2>4. ASSUME "shared" \notin stale'[r], choice'[r] # <<>>
        PROVE  ~Among(choice'[r][1], runtime.shared)
    <3>1. "shared" \notin stale[r] BY <2>1, <2>4
    <3>2. Agreed(r) BY <1>c, <2>1, <2>2, <3>1 DEF Fine, Sharing
    <3>q. QED BY <2>1, <2>4, <3>2 DEF Agreed
  <2>5. "shared" \notin stale'[r] => Agreed(r)'
    BY <2>1, <2>2, <2>3, <2>4 DEF Agreed, Patching
  <2>q. QED BY <1>5, <1>z, <2>1, <2>5 DEF Acts, Fine
<1>6. ASSUME NEW r \in Requests, OpenerAnswer(r) PROVE SharedInv'
  <2> DEFINE list == KeepLast(snap[r].shared \o choice[r], ShareHistory)
  <2>1. /\ pc[r] = "askOpener" /\ pc'[r] = "patchRead" /\ UNCHANGED <<stored, history>>
        /\ patch'[r] = IF list = <<>> THEN Nothing ELSE [k \in {"shared"} |-> list]
        /\ choice'[r] = choice[r] /\ stale' = stale
    BY <1>t, <1>6, OpenerAnswerDoes
  <2>2. runtime' = runtime /\ ~raced BY <2>1 DEF stored, history
  <2>3. ASSUME "shared" \notin stale'[r] PROVE Agreed(r)'
    <3>1. Agreed(r) BY <1>c, <2>1, <2>2, <2>3 DEF Fine, Sharing
    <3>2. list = KeepLast(runtime.shared \o choice[r], ShareHistory) BY <2>1, <3>1 DEF Agreed
    <3>3. choice[r] # <<>> => ~Among(choice[r][1], runtime.shared) BY <3>1 DEF Agreed
    <3> HIDE DEF list
    <3>4. patch'[r] \in SharePatches => patch'[r].shared = list
      <4>1. Nothing \notin SharePatches BY DEF Nothing, SharePatches
      <4>q. QED BY <2>1, <4>1
    <3>q. QED BY <2>1, <2>2, <3>2, <3>3, <3>4 DEF Agreed
  <2>q. QED BY <1>6, <1>z, <2>1, <2>3 DEF Acts, Fine
<1>7. ASSUME NEW r \in Requests, PatchRead(r) PROVE SharedInv'
  <2>1. /\ pc[r] = "patchRead" /\ pc'[r] = "patchWrite" /\ UNCHANGED <<stored, history>>
        /\ choice' = choice /\ patch' = patch /\ stale' = stale
    BY <1>t, <1>7, PatchReadDoes
  <2>2. runtime' = runtime /\ ~raced BY <2>1 DEF stored, history
  <2>3. Fine(r) BY <1>c, <2>2
  <2>4. Sharing(r)' => Sharing(r) BY <2>1 DEF Sharing, Patching, Lists
  <2>5. Agreed(r) => Agreed(r)' BY <2>1, <2>2 DEF Agreed, Patching
  <2>6. Fine(r)' BY <2>1, <2>3, <2>4, <2>5 DEF Fine
  <2>q. QED BY <1>7, <1>z, <2>1, <2>6 DEF Acts
<1>8. ASSUME NEW r \in Requests, PatchWrite(r) PROVE SharedInv'
  <2>1. /\ pc[r] = "patchWrite" /\ pc'[r] \in {"idle", "reason"}
        /\ \A u \in Requests \ {r} : stale'[u] = stale[u] \cup DOMAIN patch[r]
    BY <1>t, <1>8, PatchWriteDoes
  <2>2. /\ ~raced /\ DOMAIN patch[r] \cap stale[r] = {}
        /\ \A k \in Keys : runtime'[k] = IF k \in DOMAIN patch[r] THEN patch[r][k]
                                         ELSE runtime[k]
    BY <1>8, WriteKeeps
  <2>3. Patching(r) BY <2>1 DEF Patching
  <2>4. Base /\ Fine(r) BY <1>c, <2>2
  <2>5. /\ told' = IF IsShare(r) THEN KeepLast(told \o choice[r], ShareHistory) ELSE told
        /\ repeated' = (repeated \/ (IsShare(r) /\ Among(choice[r][1], told)))
    BY <1>8 DEF PatchWrite
  <2>6. /\ runtime'.shared = runtime.shared \/ "shared" \in DOMAIN patch[r]
        /\ Base'
    <3>1. CASE patch[r] \in SharePatches
      <4>1. DOMAIN patch[r] = {"shared"}
        BY <3>1 DEF SharePatches
      <4>2. Lists(r)
        <5>1. ~Marks(r) /\ ~Records(r) BY <2>3, <4>1, WhichPatch
        <5>q. QED BY <2>3, <5>1, WhichPatch
      <4>3. Agreed(r) BY <2>2, <2>3, <2>4, <4>1, <4>2 DEF Fine, Sharing
      <4>4. runtime'.shared = KeepLast(runtime.shared \o choice[r], ShareHistory)
        BY <2>2, <2>3, <3>1, <4>1, <4>3 DEF Agreed, Keys
      <4>5. CASE choice[r] # <<>>
        <5>1. IsShare(r) BY <2>3, <4>2, <4>5, WhichPatch
        <5>2. ~Among(choice[r][1], told) BY <4>3, <4>5, <2>4 DEF Agreed, Base
        <5>3. told' = runtime'.shared BY <2>4, <2>5, <4>4, <5>1 DEF Base
        <5>q. QED BY <2>4, <2>5, <4>1, <5>2, <5>3 DEF Base
      <4>6. CASE choice[r] = <<>>
        <5>1. ~IsShare(r) BY <2>3, <4>6, WhichPatch
        <5>2. runtime.shared \in Seq(Nat) /\ Len(runtime.shared) <= ShareHistory
          BY <1>h, RowFields
        <5>3. runtime.shared \o choice[r] = runtime.shared BY <4>6, <5>2
        <5>4. runtime'.shared = runtime.shared BY <1>n, <4>4, <5>2, <5>3, LastOnes
        <5>q. QED BY <2>4, <2>5, <5>1, <5>4 DEF Base
      <4>q. QED BY <4>5, <4>6
    <3>2. CASE patch[r] \notin SharePatches
      <4>1. patch[r] \in Patches BY <1>t DEF Tables
      <4>2. "shared" \notin DOMAIN patch[r] BY <3>2, <4>1, PatchKinds
      <4>3. runtime'.shared = runtime.shared BY <2>2, <4>2 DEF Keys
      <4>4. ~IsShare(r)
        <5>1. Lists(r) => choice[r] = <<>> BY <3>2 DEF Lists
        <5>q. QED BY <2>3, <5>1, WhichPatch
      <4>q. QED BY <2>4, <2>5, <4>3, <4>4 DEF Base
    <3>q. QED BY <3>1, <3>2
  <2>7. Fine(r)' BY <1>f, <2>1 DEF Sharing, Patching
  <2>8. ASSUME NEW u \in Requests, u # r PROVE Fine(u)'
    BY <1>8, <1>o, <2>1, <2>2, <2>6, <2>8 DEF Acts
  <2>q. QED BY <2>6, <2>7, <2>8, <1>p
<1>9. ASSUME NEW r \in Requests, UserTurn(r) PROVE SharedInv'
  <2>1. pc'[r] = "streak" /\ UNCHANGED <<stored, history>> BY <1>t, <1>9, UserTurnDoes
  <2>2. ~Sharing(r)' BY <2>1 DEF Sharing, Patching
  <2>q. QED BY <1>9, <1>f, <1>z, <2>1, <2>2 DEF Acts
<1>10. ASSUME NEW r \in Requests, WriteStreak(r) PROVE SharedInv'
  <2>1. /\ pc'[r] = "idle" /\ (raced => raced') /\ UNCHANGED <<runtime, told, repeated>>
    BY <1>t, <1>10, WriteStreakDoes
  <2>2. ~Sharing(r)' BY <2>1 DEF Sharing, Patching
  <2>q. QED BY <1>10, <1>f, <1>w, <2>1, <2>2 DEF Acts
<1>11. ASSUME NEW r \in Requests, Fail(r) PROVE SharedInv'
  <2>1. pc'[r] = "idle" /\ UNCHANGED <<stored, history>> BY <1>t, <1>11, FailDoes
  <2>2. ~Sharing(r)' BY <2>1 DEF Sharing, Patching
  <2>q. QED BY <1>11, <1>f, <1>z, <2>1, <2>2 DEF Acts
<1>12. ASSUME UNCHANGED <<runtime, pc, request, stale, raced, told, repeated>> PROVE SharedInv'
  <2>1. Base /\ ~raced BY <1>12, <1>c
  <2>2. Base' BY <1>12, <2>1 DEF Base
  <2>3. \A u \in Requests : Fine(u)' BY <1>12, <1>k, <2>1 DEF request, SameFor
  <2>q. QED BY <2>2, <2>3, <1>p
<1>13. CASE Tick BY <1>12, <1>13 DEF Tick, history
<1>14. CASE UNCHANGED vars BY <1>12, <1>14 DEF vars, history
<1>q. QED
  BY <1>1, <1>2, <1>3, <1>4, <1>5, <1>6, <1>7, <1>8, <1>9, <1>10, <1>11, <1>13, <1>14 DEF Next

-----------------------------------------------------------------------------
(* The theorems *)

ProactiveInv ==
  TypeInv /\ CountInv /\ DraftInv /\ DailyInv /\ RecentInv /\ SharedInv

LEMMA ProactiveInit == Init => ProactiveInv
<1> SUFFICES ASSUME Init PROVE ProactiveInv OBVIOUS
<1>1. /\ runtime = Fresh /\ streak = 0 /\ experiences = <<>> /\ now = 1 /\ told = <<>>
      /\ ~raced /\ drawn = 0 /\ origin = 0 /\ ~repeated /\ positive = 0 /\ faults = 0
      /\ raced \in BOOLEAN /\ repeated \in BOOLEAN
  BY DEF Init
<1>2. \A r \in Requests :
        /\ pc[r] = "idle" /\ moment[r] = 0 /\ choice[r] = <<>> /\ patch[r] = Nothing
  BY DEF Init
<1>3. /\ Fresh.lastCheck = 0 /\ Fresh.shared = <<>> /\ Fresh.lastAt = 0 /\ Fresh.date = 0
      /\ Fresh.count = 0 /\ Fresh.material = <<>>
  BY DEF Fresh
<1>b. /\ {MaterialHistory, ShareHistory, DailyMax, MaxStreak, MaxExperiences} \subseteq Nat
      /\ DayLength \in Nat \ {0}
  BY HistoryAssumption, LimitsAssumption, BoundsAssumption
<1>4. TypeInv
  <2>1. [runtime |-> Fresh, streak |-> 0] \in Bases BY <1>b, FreshRow DEF Bases
  <2>2. Tables BY <2>1, FreshRow DEF Init, Tables, Location, Choices, Patches
  <2>3. \A r \in Requests : Holds(r) BY <1>1, <1>2 DEF Holds, Patching
  <2>4. /\ <<>> \in Seq([at : Nat, material : Materials]) /\ Len(<<>>) = 0
        /\ <<>> \in Seq(Nat)
    OBVIOUS
  <2>q. QED BY <1>1, <1>b, <2>2, <2>3, <2>4, FreshRow DEF TypeInv, Tables
<1>5. \A r \in Requests : ~Unrecorded(r) /\ ~Patching(r) /\ ~Sharing(r)
  BY <1>2 DEF Unrecorded, Patching, Sharing
<1>6. CountInv BY <1>1, <1>2, <1>3, <1>5 DEF CountInv
<1>7. DraftInv
  <2>1. 0 <= Day(now) BY <1>1, <1>b DEF Day
  <2>q. QED BY <1>1, <1>2, <1>3, <1>5, <2>1 DEF DraftInv
<1>8. DailyInv
  <2>1. SUFFICES ASSUME NEW d \in Nat
                 PROVE  /\ Cardinality(MadeOn(d)) = 0 /\ CountOn(d) = 0 /\ PendingOn(d) = 0
    BY <1>1, <1>b DEF DailyInv
  <2>2. MadeOn(d) = {} BY <1>1 DEF MadeOn
  <2>q. QED BY <1>1, <1>3, <1>5, <2>2, FS_EmptySet DEF CountOn, PendingOn
<1>9. RecentInv
  <2>1. Recorded = 0 BY <1>1, <1>5 DEF Recorded, Pending
  <2>2. Mirrors(0) BY <1>1, <1>3, <1>b DEF Mirrors
  <2>3. Spaced /\ Varied BY <1>1 DEF Spaced, Varied
  <2>q. QED BY <2>1, <2>2, <2>3 DEF RecentInv
<1>10. SharedInv BY <1>1, <1>3, <1>5 DEF SharedInv
<1>q. QED BY <1>4, <1>6, <1>7, <1>8, <1>9, <1>10 DEF ProactiveInv

\* The invariants keep one another: the drafts need the types, the days and the distances
\* need the drafts.
LEMMA ProactiveInvariant == Spec => []ProactiveInv
<1>1. ASSUME ProactiveInv, [Next]_vars PROVE ProactiveInv'
  BY <1>1, TypeStep, CountStep, DraftStep, DailyStep, RecentStep, SharedStep DEF ProactiveInv
<1>q. QED BY <1>1, ProactiveInit, PTL DEF Spec

\* The rows, what every request has read, chosen and is going to write, and the histories
\* are of their types; the histories of the materials and of what was shared are never
\* longer than the budget allows.
THEOREM ProactiveTypeCorrect == Spec => []TypeOK
<1>1. ASSUME TypeInv PROVE TypeOK
  <2>1. Tables BY <1>1, TablesOfTypes
  <2>2. \A r \in Requests : DOMAIN patch[r] \subseteq Keys \cup {"streak"}
    <3>1. SUFFICES ASSUME NEW r \in Requests PROVE DOMAIN patch[r] \subseteq Keys \cup {"streak"}
      OBVIOUS
    <3>2. patch[r] \in Patches BY <2>1 DEF Tables
    <3>q. QED BY <3>2, PatchKinds, KeysListed DEF Patches
  <2>3. \A r \in Requests : base[r].runtime \in Runtime /\ base[r].streak \in 0 .. MaxStreak
    BY <2>1 DEF Tables, Bases, Rows
  <2>4. snap \in [Requests -> Runtime]
    <3>1. Rows \subseteq Runtime BY DEF Rows
    <3>q. QED BY <2>1, <3>1 DEF Tables
  <2>q. QED BY <1>1, <2>2, <2>3, <2>4 DEF TypeInv, TypeOK, Rows
<1>q. QED BY <1>1, ProactiveInvariant, PTL DEF ProactiveInv

\* As long as no request has written over what another had written: the checks have given
\* every hour since the first one its chance exactly once, and the streak is what the user's
\* turns have made it, whatever was patched beside it (patch_behavior_runtime_metadata
\* writes both rows).
THEOREM CountsExactHold == Spec => []CountsExactUnlessRaced
<1>1. ASSUME CountInv PROVE CountsExactUnlessRaced
  BY <1>1 DEF CountInv, CountsExactUnlessRaced, RhythmExactUnlessRaced, StreakExactUnlessRaced
<1>q. QED BY <1>1, ProactiveInvariant, PTL DEF ProactiveInv

\* Under the same condition: no day has more experiences than the daily limit and those
\* that were made and not recorded, and if none was lost any two are the minimal gap apart
\* (idle_experience_allowed), though both limits are looked at long before the experience
\* is stored.
THEOREM ExperiencesLimitedHold == Spec => []ExperiencesLimitedUnlessRaced
<1>1. ASSUME TypeInv, DailyInv, RecentInv PROVE ExperiencesLimitedUnlessRaced
  <2>1. \A i \in DOMAIN experiences : Day(experiences[i].at) \in Nat
    <3>1. SUFFICES ASSUME NEW i \in DOMAIN experiences PROVE Day(experiences[i].at) \in Nat
      OBVIOUS
    <3>2. experiences \in Seq([at : Nat, material : Materials]) BY <1>1 DEF TypeInv
    <3>3. i \in 1 .. Len(experiences) BY <3>1, <3>2
    <3>5. experiences[i] \in [at : Nat, material : Materials] BY <3>2, <3>3, ElementOfSeq
    <3>4. experiences[i].at \in Nat BY <3>5
    <3>q. QED BY <3>4, LimitsAssumption DEF Day
  <2>2. ~raced => \A i \in DOMAIN experiences :
                    Cardinality(MadeOn(Day(experiences[i].at))) <= DailyMax + faults
    BY <1>1, <2>1 DEF DailyInv
  <2>3. ~raced /\ faults = 0 => Spaced BY <1>1 DEF RecentInv
  <2>q. QED BY <2>2, <2>3 DEF ExperiencesLimitedUnlessRaced, Spaced
<1>q. QED BY <1>1, ProactiveInvariant, PTL DEF ProactiveInv

\* Under the same condition: no experience is shared again before as many others as the
\* history holds, and no material is used again within the length of its history, if the
\* pool is larger than that and no experience was lost (pick_material, _pick_share).
THEOREM NothingRepeatedHolds == Spec => []NothingRepeatedUnlessRaced
<1>1. ASSUME RecentInv, SharedInv PROVE NothingRepeatedUnlessRaced
  <2>1. ~raced => ~repeated BY <1>1 DEF SharedInv
  <2>2. ~raced /\ faults = 0 => Varied BY <1>1 DEF RecentInv
  <2>q. QED BY <2>1, <2>2 DEF NothingRepeatedUnlessRaced, Varied
<1>q. QED BY <1>1, ProactiveInvariant, PTL DEF ProactiveInv
=============================================================================
