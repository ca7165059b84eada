---------------------------- MODULE TurnLogProofs -----------------------------
(***************************************************************************)
(* Theorems about the turn, for any number of concurrent turns, any        *)
(* surfaces and inputs and any number of faults: what it leaves in the     *)
(* log, the kernel rows, and that turns keep the promise of TurnPromise;   *)
(* about that log, its summaries and the reader of both, for every number  *)
(* of summarizers and every window and batch size; and about the brake     *)
(* that counts calls, for every number of concurrent requests, any caps    *)
(* (0 is off), any cost of a call and any length of a month.               *)
(***************************************************************************)
EXTENDS MCTurnLog, FiniteSetTheorems, TLAPS

-----------------------------------------------------------------------------
(* The steps of a turn as data *)

Left(p) == {p[k] : k \in 1..Len(p)}

\* The steps of every turn follow one order, which depends on the surface only
\* for the reply, the count and the event.
Rank(s) ==
  [state |-> 1, mood |-> 2, rel |-> 3, relWrite |-> 4, call |-> 5, show |-> 6,
   kernel |-> 8, kernelMood |-> 9, kernelRel |-> 10,
   user |-> 11, assistant |-> 12, digest |-> 13,
   note  |-> IF s = "stream" THEN 15 ELSE 14,
   event |-> IF s = "stream" THEN 14 ELSE 15,
   reply |-> IF s = "voice" THEN 7 ELSE 16]

Ordered(s, p) == \A j, k \in 1..Len(p) : j < k => Rank(s)[p[j]] < Rank(s)[p[k]]

\* A write of the kernel rows follows at once on the reading it is based on.
Based == {"mood", "rel", "relWrite", "kernelMood", "kernelRel"}
Basis ==
  [mood |-> "state", rel |-> "mood", relWrite |-> "rel",
   kernelMood |-> "kernel", kernelRel |-> "kernelMood"]

Linked(p) == \A k \in 2..Len(p) : p[k] \in Based => p[k - 1] = Basis[p[k]]

Sound(s, p) == p \in Seq(Steps) /\ Ordered(s, p) /\ Linked(p)

Then(p, q) == p \o q
Under(s, p, q) == \A x \in Left(p), y \in Left(q) : Rank(s)[x] < Rank(s)[y]

-----------------------------------------------------------------------------
(* The inductive invariant of a turn *)

Untouched(t) == t \notin user /\ t \notin assistant /\ t \notin noted /\ t \notin events
AnswersLast(t) == surface[t] \in {"text", "stream"}
ToDo(t, step) == step \in Left(path[t])

PathOK(t) == Sound(surface[t], path[t])

NotBegun(t) ==
  surface[t] = "none" =>
    path[t] = <<>> /\ told[t] = "none" /\ ~called[t] /\ Untouched(t)

\* Until the model has answered or a shown line is out, nothing was written.
Fresh(t) ==
  \/ ToDo(t, "call") \/ ToDo(t, "show")
  \/ surface[t] = "voice" /\ ToDo(t, "reply")
  => told[t] = "none" /\ Untouched(t)

Asking(t) == ToDo(t, "call") => ~called[t]

Keeping(t) ==
  /\ ToDo(t, "user") => ToDo(t, "assistant")
  /\ ToDo(t, "assistant") =>
       t \notin assistant /\ told[t] \in (IF AnswersLast(t) THEN {"none"} ELSE {"none", "done"})

Counting(t) == ToDo(t, "note") => t \notin noted /\ (ToDo(t, "assistant") \/ t \in assistant)
Publishing(t) == ToDo(t, "event") => t \notin events /\ (ToDo(t, "assistant") \/ t \in assistant)

Telling(t) ==
  ToDo(t, "reply") =>
    told[t] = "none" /\ (AnswersLast(t) => ToDo(t, "assistant") \/ t \in assistant)

Ended(t) == told[t] \in {"error", "cut"} => path[t] = <<>>

\* Without failures of the store.
Whole(t) ==
  faults = 0 =>
    /\ t \in user => ToDo(t, "assistant") \/ t \in assistant
    /\ told[t] \in {"error", "cut"} => Untouched(t)
    /\ called[t] => ToDo(t, "note") \/ t \in noted \/ told[t] = "cut"
    /\ ToDo(t, "note") \/ t \in noted => called[t]

TurnOK(t) ==
  /\ PathOK(t) /\ NotBegun(t) /\ Fresh(t) /\ Asking(t) /\ Keeping(t) /\ Counting(t)
  /\ Publishing(t) /\ Telling(t) /\ Ended(t) /\ Whole(t)

TurnInv == TurnTypeOK /\ \A t \in Turns : TurnOK(t)

\* What a turn that holds its readings has read is what the rows contain.
Reading(t) ==
  Holding(t) =>
    /\ snap[t].trust = kernel.trust
    /\ snap[t].familiarity = kernel.familiarity
    /\ At(t, "mood") \/ At(t, "kernelMood") => snap[t].mood = kernel.mood

KernelInv == ~kernelRaced => kernel = applied /\ \A t \in Turns : Reading(t)

-----------------------------------------------------------------------------
(* Paths *)

LEMMA Ranked ==
  ASSUME NEW s, NEW x \in Steps
  PROVE  Rank(s)[x] \in Nat
BY SMTT(60) DEF Rank, Steps

\* The steps left once the first one is done.
LEMMA AfterHead ==
  ASSUME NEW s, NEW p, Sound(s, p), p # <<>>
  PROVE  /\ Sound(s, Tail(p)) /\ Head(p) \in Steps
         /\ Head(p) \in Left(p) /\ Left(Tail(p)) = Left(p) \ {Head(p)}
         /\ \A x \in Left(Tail(p)) : Rank(s)[Head(p)] < Rank(s)[x]
         /\ Tail(p) # <<>> /\ Head(Tail(p)) \in Based => Head(p) = Basis[Head(Tail(p))]
<1> DEFINE q == Tail(p)
<1>1. /\ p \in Seq(Steps) /\ Len(p) \in Nat \ {0}
      /\ q \in Seq(Steps) /\ Len(q) = Len(p) - 1
      /\ \A k \in 1..Len(q) : q[k] = p[k + 1]
      /\ Head(p) = p[1] /\ p[1] \in Steps
  BY DEF Sound
<1> HIDE DEF q
<1>2. \A k \in 1..Len(q) : k + 1 \in 2..Len(p)
  BY <1>1
<1>3. Ordered(s, q)
  <2> SUFFICES ASSUME NEW j \in 1..Len(q), NEW k \in 1..Len(q), j < k
               PROVE  Rank(s)[q[j]] < Rank(s)[q[k]]
    BY DEF Ordered
  <2>1. j + 1 \in 1..Len(p) /\ k + 1 \in 1..Len(p) /\ j + 1 < k + 1
    BY <1>1
  <2>2. Rank(s)[p[j + 1]] < Rank(s)[p[k + 1]]
    BY <2>1 DEF Sound, Ordered
  <2> QED
    BY <1>1, <2>2
<1>4. Linked(q)
  <2> SUFFICES ASSUME NEW k \in 2..Len(q), q[k] \in Based
               PROVE  q[k - 1] = Basis[q[k]]
    BY DEF Linked
  <2>1. /\ k + 1 \in 2..Len(p) /\ k - 1 \in 1..Len(q) /\ k \in 1..Len(q)
        /\ (k - 1) + 1 = k /\ (k + 1) - 1 = k
    BY <1>1
  <2>2. q[k] = p[k + 1] /\ q[k - 1] = p[k]
    BY <1>1, <2>1
  <2>3. p[(k + 1) - 1] = Basis[p[k + 1]]
    BY <2>1, <2>2 DEF Sound, Linked
  <2> QED
    BY <2>1, <2>2, <2>3
<1>5. \A x \in Left(q) : Rank(s)[p[1]] < Rank(s)[x]
  <2> SUFFICES ASSUME NEW k \in 1..Len(q)
               PROVE  Rank(s)[p[1]] < Rank(s)[q[k]]
    BY DEF Left
  <2>1. k + 1 \in 1..Len(p) /\ 1 \in 1..Len(p) /\ 1 < k + 1
    BY <1>1
  <2> QED
    BY <1>1, <2>1 DEF Sound, Ordered
<1>6. Left(q) = Left(p) \ {p[1]}
  <2>1. \A k \in 1..Len(q) : q[k] \in Left(p)
    BY <1>1, <1>2 DEF Left
  <2>2. p[1] \notin Left(q)
    <3>1. SUFFICES ASSUME p[1] \in Left(q) PROVE FALSE
      OBVIOUS
    <3>2. Rank(s)[p[1]] \in Nat
      BY <1>1, Ranked
    <3> QED
      BY <1>5, <3>1, <3>2
  <2>3. ASSUME NEW k \in 1..Len(p), p[k] # p[1]
        PROVE  p[k] \in Left(q)
    <3>1. k # 1
      BY <2>3
    <3>2. k - 1 \in 1..Len(q) /\ (k - 1) + 1 = k
      BY <3>1, <1>1
    <3> QED
      BY <1>1, <3>2 DEF Left
  <2>4. \A x \in Left(p) : \E k \in 1..Len(p) : x = p[k]
    BY DEF Left
  <2>5. \A x \in Left(q) : x \in Left(p)
    BY <2>1 DEF Left
  <2> QED
    BY <2>2, <2>3, <2>4, <2>5
<1>7. p[1] \in Left(p)
  BY <1>1 DEF Left
<1>8. ASSUME q # <<>>, Head(q) \in Based
      PROVE  p[1] = Basis[Head(q)]
  <2>1. Len(q) \in Nat \ {0} /\ Head(q) = q[1]
    BY <1>1, <1>8
  <2>2. 2 \in 2..Len(p) /\ q[1] = p[2] /\ 2 - 1 = 1
    BY <1>1, <2>1
  <2>3. p[2 - 1] = Basis[p[2]]
    BY <1>8, <2>1, <2>2 DEF Sound, Linked
  <2> QED
    BY <2>1, <2>2, <2>3
<1> QED
  BY <1>1, <1>3, <1>4, <1>5, <1>6, <1>7, <1>8 DEF Sound, q

\* Two sound paths in order make a sound one.
LEMMA Joined ==
  ASSUME NEW s, NEW p, NEW q, Sound(s, p), Sound(s, q),
         Under(s, p, q),
         q # <<>> => Head(q) \notin Based
  PROVE  /\ Sound(s, Then(p, q)) /\ Left(Then(p, q)) = Left(p) \cup Left(q)
         /\ p # <<>> => Then(p, q) # <<>> /\ Head(Then(p, q)) = Head(p)
<1> DEFINE r == p \o q
<1>1. /\ p \in Seq(Steps) /\ q \in Seq(Steps) /\ Len(p) \in Nat /\ Len(q) \in Nat
      /\ r \in Seq(Steps) /\ Len(r) = Len(p) + Len(q)
      /\ \A k \in 1..Len(p) : r[k] = p[k]
      /\ \A k \in 1..Len(q) : r[Len(p) + k] = q[k]
  BY DEF Sound
<1> HIDE DEF r
<1>2. ASSUME NEW k \in 1..Len(r), ~(k \in 1..Len(p))
      PROVE  k - Len(p) \in 1..Len(q) /\ r[k] = q[k - Len(p)]
  <2>1. k - Len(p) \in 1..Len(q) /\ Len(p) + (k - Len(p)) = k
    BY <1>1, <1>2
  <2> QED
    BY <1>1, <2>1
<1>3. \A k \in 1..Len(p) : p[k] \in Left(p)
  BY DEF Left
<1>4. \A k \in 1..Len(q) : q[k] \in Left(q)
  BY DEF Left
<1>5. Ordered(s, r)
  <2> SUFFICES ASSUME NEW j \in 1..Len(r), NEW k \in 1..Len(r), j < k
               PROVE  Rank(s)[r[j]] < Rank(s)[r[k]]
    BY DEF Ordered
  <2>1. CASE k \in 1..Len(p)
    <3>1. j \in 1..Len(p)
      BY <1>1, <2>1
    <3> QED
      BY <1>1, <2>1, <3>1 DEF Sound, Ordered
  <2>2. CASE ~(k \in 1..Len(p)) /\ j \in 1..Len(p)
    BY <1>1, <1>2, <1>3, <1>4, <2>2 DEF Under
  <2>3. CASE ~(k \in 1..Len(p)) /\ ~(j \in 1..Len(p))
    <3>1. /\ j - Len(p) \in 1..Len(q) /\ r[j] = q[j - Len(p)]
          /\ k - Len(p) \in 1..Len(q) /\ r[k] = q[k - Len(p)]
      BY <1>2, <2>3
    <3>2. j - Len(p) < k - Len(p)
      BY <1>1
    <3> QED
      BY <3>1, <3>2 DEF Sound, Ordered
  <2> QED
    BY <2>1, <2>2, <2>3
<1>6. Linked(r)
  <2> SUFFICES ASSUME NEW k \in 2..Len(r), r[k] \in Based
               PROVE  r[k - 1] = Basis[r[k]]
    BY DEF Linked
  <2>1. k \in 1..Len(r) /\ k - 1 \in 1..Len(r)
    BY <1>1
  <2>2. CASE k \in 1..Len(p)
    <3>1. k - 1 \in 1..Len(p) /\ k \in 2..Len(p)
      BY <1>1, <2>2
    <3> QED
      BY <1>1, <2>2, <3>1 DEF Sound, Linked
  <2>3. CASE ~(k \in 1..Len(p))
    <3> DEFINE i == k - Len(p)
    <3>1. i \in 1..Len(q) /\ r[k] = q[i] /\ i \in Nat
      BY <1>1, <1>2, <2>1, <2>3
    <3>2. i # 1
      <4>1. SUFFICES ASSUME i = 1 PROVE FALSE
        OBVIOUS
      <4>2. q # <<>> /\ Head(q) = q[1]
        BY <1>1, <3>1, <4>1
      <4> QED
        BY <3>1, <4>1, <4>2
    <3>3. /\ i \in 2..Len(q) /\ ~(k - 1 \in 1..Len(p)) /\ i - 1 = (k - 1) - Len(p)
      BY <1>1, <3>1, <3>2
    <3>4. r[k - 1] = q[i - 1]
      BY <1>2, <2>1, <3>3
    <3>5. q[i - 1] = Basis[q[i]]
      BY <3>1, <3>3 DEF Sound, Linked
    <3> QED
      BY <3>1, <3>4, <3>5
  <2> QED
    BY <2>2, <2>3
<1>7. Left(r) = Left(p) \cup Left(q)
  <2>1. \A k \in 1..Len(r) : r[k] \in Left(p) \cup Left(q)
    BY <1>1, <1>2, <1>3, <1>4
  <2>2. \A k \in 1..Len(p) : p[k] \in Left(r)
    <3> TAKE k \in 1..Len(p)
    <3>1. k \in 1..Len(r) /\ r[k] = p[k]
      BY <1>1
    <3> QED
      BY <3>1 DEF Left
  <2>3. \A k \in 1..Len(q) : q[k] \in Left(r)
    <3> TAKE k \in 1..Len(q)
    <3>1. Len(p) + k \in 1..Len(r) /\ r[Len(p) + k] = q[k]
      BY <1>1
    <3> QED
      BY <3>1 DEF Left
  <2> QED
    BY <2>1, <2>2, <2>3 DEF Left
<1>8. ASSUME p # <<>> PROVE r # <<>> /\ Head(r) = Head(p)
  <2>1. 1 \in 1..Len(p) /\ Head(p) = p[1]
    BY <1>1, <1>8
  <2>2. 1 \in 1..Len(r)
    BY <1>1, <2>1
  <2> QED
    BY <1>1, <2>1, <2>2
<1> QED
  BY <1>1, <1>5, <1>6, <1>7, <1>8 DEF Sound, Then, r

\* The steps left once the kernel update is given up.
LEMMA AfterKernel ==
  ASSUME NEW s, NEW p, Sound(s, p), NEW n \in 1..Len(p),
         \A k \in 1..Len(p) : p[k] \in KernelParts <=> k <= n
  PROVE  LET q == SubSeq(p, n + 1, Len(p))
         IN  /\ Sound(s, q) /\ Left(q) = Left(p) \ KernelParts
             /\ q # <<>> => Head(q) \notin Based
<1> DEFINE q == SubSeq(p, n + 1, Len(p))
<1>1. /\ p \in Seq(Steps) /\ Len(p) \in Nat /\ n \in Nat /\ 1 <= n /\ n <= Len(p)
      /\ \A k \in (n + 1)..Len(p) : p[k] \in Steps
  BY DEF Sound
<1>2. q \in Seq(Steps) /\ Len(q) = Len(p) - n /\ \A k \in 1..Len(q) : q[k] = p[k + n]
  <2>1. Len(q) = Len(p) - n
    BY <1>1
  <2>2. \A k \in 1..Len(q) : q[k] = p[n + 1 + k - 1]
    BY <1>1, <2>1
  <2>3. \A k \in 1..Len(q) : n + 1 + k - 1 = k + n
    BY <1>1, <2>1
  <2>4. q \in Seq(Steps)
    BY <1>1
  <2> QED
    BY <2>1, <2>2, <2>3, <2>4
<1> HIDE DEF q
<1>3. \A k \in 1..Len(q) : k + n \in 1..Len(p) /\ ~(k + n <= n)
  BY <1>1, <1>2
<1>4. Ordered(s, q)
  <2> SUFFICES ASSUME NEW j \in 1..Len(q), NEW k \in 1..Len(q), j < k
               PROVE  Rank(s)[q[j]] < Rank(s)[q[k]]
    BY DEF Ordered
  <2>1. j + n \in 1..Len(p) /\ k + n \in 1..Len(p) /\ j + n < k + n
    BY <1>1, <1>2
  <2>2. Rank(s)[p[j + n]] < Rank(s)[p[k + n]]
    BY <2>1 DEF Sound, Ordered
  <2> QED
    BY <1>2, <2>2
<1>5. Linked(q)
  <2> SUFFICES ASSUME NEW k \in 2..Len(q), q[k] \in Based
               PROVE  q[k - 1] = Basis[q[k]]
    BY DEF Linked
  <2>1. /\ k + n \in 2..Len(p) /\ k - 1 \in 1..Len(q) /\ k \in 1..Len(q)
        /\ (k - 1) + n = (k + n) - 1
    BY <1>1, <1>2
  <2>2. q[k] = p[k + n] /\ q[k - 1] = p[(k + n) - 1]
    BY <1>2, <2>1
  <2> QED
    BY <2>1, <2>2 DEF Sound, Linked
<1>6. Left(q) = Left(p) \ KernelParts
  <2>1. \A k \in 1..Len(q) : q[k] \in Left(p) \ KernelParts
    BY <1>2, <1>3, SMTT(20) DEF Left
  <2>2. ASSUME NEW k \in 1..Len(p), p[k] \notin KernelParts
        PROVE  p[k] \in Left(q)
    <3>1. k - n \in 1..Len(q) /\ (k - n) + n = k
      BY <1>1, <1>2, <2>2
    <3> QED
      BY <1>2, <3>1 DEF Left
  <2> QED
    BY <2>1, <2>2 DEF Left
<1>7. ASSUME q # <<>> PROVE Head(q) \notin Based
  <2>1. 1 \in 1..Len(q) /\ Head(q) = q[1] /\ q[1] = p[1 + n]
    BY <1>2, <1>7
  <2>2. 1 + n \in 2..Len(p) /\ (1 + n) - 1 = n /\ p[1 + n] \notin KernelParts
    BY <1>1, <1>2, <1>3, <2>1
  <2>3. p[n] \in KernelParts
    BY <1>1
  <2>4. p[1 + n] \in Based => p[n] = Basis[p[1 + n]]
    BY <2>2 DEF Sound, Linked
  <2> QED
    BY <2>1, <2>2, <2>3, <2>4 DEF Based, Basis, KernelParts
<1> QED
  BY <1>2, <1>4, <1>5, <1>6, <1>7 DEF Sound, q

\* What the order says of the steps behind the first one.
LEMMA Behind ==
  ASSUME NEW s, NEW p, Sound(s, p), p # <<>>
  PROVE  LET h == Head(p)
             q == Left(Tail(p))
         IN  /\ h \in {"user", "assistant", "note", "event", "reply"} => "call" \notin q /\ "show" \notin q
             /\ h \in {"user", "assistant", "note", "event"} /\ s = "voice" => "reply" \notin q
             /\ h \in {"assistant", "note", "event"} => "user" \notin q
             /\ h \in {"note", "event"} => "assistant" \notin q
             /\ h = "reply" /\ s \in {"text", "stream"} => "assistant" \notin q
<1>1. \A x \in Left(Tail(p)) : Rank(s)[Head(p)] < Rank(s)[x]
  BY AfterHead
<1> QED
  BY <1>1, SMTT(60) DEF Rank

\* The pieces the paths are made of.
LEMMA One ==
  ASSUME NEW s, NEW x \in Steps
  PROVE  /\ Sound(s, <<x>>) /\ Left(<<x>>) = {x}
         /\ <<x>> # <<>> /\ Head(<<x>>) = x
<1> DEFINE p == <<x>>
<1>1. p \in Seq(Steps) /\ Len(p) = 1 /\ p[1] = x /\ p # <<>> /\ Head(p) = x
  OBVIOUS
<1> HIDE DEF p
<1>2. 1..Len(p) = {1} /\ 2..Len(p) = {}
  BY <1>1
<1> QED
  BY <1>1, <1>2 DEF Sound, Ordered, Linked, Left, p

LEMMA Two ==
  ASSUME NEW s, NEW x \in Steps, NEW y \in Steps,
         Rank(s)[x] < Rank(s)[y], y \notin Based
  PROVE  /\ Sound(s, <<x, y>>) /\ Left(<<x, y>>) = {x, y}
         /\ <<x, y>> # <<>> /\ Head(<<x, y>>) = x
<1> DEFINE p == <<x, y>>
<1>1. /\ p \in Seq(Steps) /\ Len(p) = 2 /\ p # <<>> /\ Head(p) = x
      /\ p[1] = x /\ p[2] = y
  OBVIOUS
<1>2. Rank(s)[x] \in Nat /\ Rank(s)[y] \in Nat
  BY Ranked
<1> HIDE DEF p
<1>3. 1..Len(p) = {1, 2} /\ 2..Len(p) = {2}
  BY <1>1
<1>4. Ordered(s, p)
  BY <1>1, <1>2, <1>3 DEF Ordered
<1>5. Linked(p) /\ Left(p) = {x, y}
  BY <1>1, <1>3 DEF Linked, Left
<1> QED
  BY <1>1, <1>4, <1>5 DEF Sound, p

LEMMA Three ==
  ASSUME NEW s, NEW x \in Steps, NEW y \in Steps, NEW z \in Steps,
         Rank(s)[x] < Rank(s)[y], Rank(s)[y] < Rank(s)[z], y \notin Based, z \notin Based
  PROVE  /\ Sound(s, <<x, y, z>>) /\ Left(<<x, y, z>>) = {x, y, z}
         /\ <<x, y, z>> # <<>> /\ Head(<<x, y, z>>) = x
<1> DEFINE p == <<x, y, z>>
<1>1. /\ p \in Seq(Steps) /\ Len(p) = 3 /\ p # <<>> /\ Head(p) = x
      /\ p[1] = x /\ p[2] = y /\ p[3] = z
  OBVIOUS
<1>2. Rank(s)[x] \in Nat /\ Rank(s)[y] \in Nat /\ Rank(s)[z] \in Nat
  BY Ranked
<1> HIDE DEF p
<1>3. 1..Len(p) = {1, 2, 3} /\ 2..Len(p) = {2, 3}
  BY <1>1
<1>4. Ordered(s, p)
  BY <1>1, <1>2, <1>3 DEF Ordered
<1>5. Linked(p) /\ Left(p) = {x, y, z}
  BY <1>1, <1>3 DEF Linked, Left
<1> QED
  BY <1>1, <1>4, <1>5 DEF Sound, p

LEMMA Nothing ==
  ASSUME NEW s
  PROVE  Sound(s, <<>>) /\ Left(<<>>) = {}
<1>1. Len(<<>>) = 0 /\ 1..0 = {} /\ 2..0 = {} /\ <<>> \in Seq(Steps)
  OBVIOUS
<1> QED
  BY <1>1 DEF Sound, Ordered, Linked, Left

LEMMA Deciding ==
  ASSUME NEW s, NEW i
  PROVE  LET p == DecideSteps(i)
         IN  /\ Sound(s, p) /\ Left(p) \subseteq {"state", "mood", "rel", "relWrite"}
             /\ p # <<>> /\ Head(p) = "state"
<1>1. \/ DecideSteps(i) = <<"state", "mood">>
      \/ DecideSteps(i) = <<"state", "mood", "rel", "relWrite">>
  BY Zenon DEF DecideSteps
<1>2. CASE DecideSteps(i) = <<"state", "mood">>
  <2> DEFINE p == <<"state", "mood">>
  <2>1. p \in Seq(Steps) /\ Len(p) = 2 /\ p[1] = "state" /\ p[2] = "mood"
    BY DEF Steps
  <2>2. p # <<>> /\ Head(p) = "state"
    OBVIOUS
  <2> HIDE DEF p
  <2>3. 1..Len(p) = {1, 2} /\ 2..Len(p) = {2} /\ 2 - 1 = 1
    BY <2>1
  <2>4. Ordered(s, p)
    BY <2>1, <2>3 DEF Ordered, Rank
  <2>5. Linked(p)
    BY <2>1, <2>3 DEF Linked, Basis
  <2>6. Left(p) \subseteq {"state", "mood"}
    BY <2>1, <2>3 DEF Left
  <2>7. DecideSteps(i) = p
    BY <1>2 DEF p
  <2> QED
    BY <2>1, <2>2, <2>4, <2>5, <2>6, <2>7 DEF Sound
<1>3. CASE DecideSteps(i) = <<"state", "mood", "rel", "relWrite">>
  <2> DEFINE p == <<"state", "mood", "rel", "relWrite">>
  <2>1. /\ p \in Seq(Steps) /\ Len(p) = 4
        /\ p[1] = "state" /\ p[2] = "mood" /\ p[3] = "rel" /\ p[4] = "relWrite"
    BY DEF Steps
  <2>2. p # <<>> /\ Head(p) = "state"
    OBVIOUS
  <2> HIDE DEF p
  <2>3. /\ 1..Len(p) = {1, 2, 3, 4} /\ 2..Len(p) = {2, 3, 4}
        /\ 2 - 1 = 1 /\ 3 - 1 = 2 /\ 4 - 1 = 3
    BY <2>1
  <2>4. Ordered(s, p)
    BY <2>1, <2>3 DEF Ordered, Rank
  <2>5. Linked(p)
    BY <2>1, <2>3 DEF Linked, Basis
  <2>6. Left(p) \subseteq {"state", "mood", "rel", "relWrite"}
    BY <2>1, <2>3 DEF Left
  <2>7. DecideSteps(i) = p
    BY <1>3 DEF p
  <2> QED
    BY <2>1, <2>2, <2>4, <2>5, <2>6, <2>7 DEF Sound
<1> QED
  BY <1>1, <1>2, <1>3

LEMMA Updating ==
  ASSUME NEW s
  PROVE  /\ Sound(s, KernelSteps) /\ Left(KernelSteps) = KernelParts
         /\ KernelSteps # <<>> /\ Head(KernelSteps) = "kernel"
<1> DEFINE p == KernelSteps
<1>1. /\ p \in Seq(Steps) /\ Len(p) = 3 /\ p[1] = "kernel" /\ p[2] = "kernelMood"
      /\ p[3] = "kernelRel" /\ p # <<>> /\ Head(p) = "kernel"
  BY DEF Steps, KernelSteps
<1> HIDE DEF p
<1>2. /\ 1..Len(p) = {1, 2, 3} /\ 2..Len(p) = {2, 3} /\ 2 - 1 = 1 /\ 3 - 1 = 2
  BY <1>1
<1>3. Ordered(s, p)
  BY <1>1, <1>2 DEF Ordered, Rank
<1>4. Linked(p)
  BY <1>1, <1>2 DEF Linked, Basis
<1>5. Left(p) = KernelParts
  BY <1>1, <1>2 DEF Left, KernelParts
<1> QED
  BY <1>1, <1>3, <1>4, <1>5 DEF Sound, p

LEMMA Storing ==
  ASSUME NEW s, NEW i
  PROVE  LET p == StoreSteps(i)
         IN  /\ Sound(s, p) /\ "assistant" \in Left(p) /\ Left(p) \subseteq {"user", "assistant"}
             /\ p # <<>> /\ Head(p) \notin Based
<1>1. CASE i = "blank"
  <2>1. StoreSteps(i) = <<"assistant">> /\ "assistant" \in Steps
    BY <1>1 DEF StoreSteps, Steps
  <2> QED
    BY <2>1, One DEF Based
<1>2. CASE i # "blank"
  <2>1. StoreSteps(i) = <<"user", "assistant">>
    BY <1>2 DEF StoreSteps
  <2>2. "user" \in Steps /\ "assistant" \in Steps /\ Rank(s)["user"] < Rank(s)["assistant"]
    BY DEF Steps, Rank
  <2>3. "user" \notin Based /\ "assistant" \notin Based
    BY DEF Based
  <2> QED
    BY <2>1, <2>2, <2>3, Two
<1> QED
  BY <1>1, <1>2

LEMMA Local ==
  ASSUME NEW s \in AllSurfaces, NEW i
  PROVE  LET p == LocalSteps(s, i)
         IN  /\ Sound(s, p) /\ "assistant" \in Left(p) /\ p # <<>> /\ Head(p) \notin Based
             /\ Left(p) \subseteq {"show", "user", "assistant", "digest", "event", "reply"}
<1> DEFINE st == StoreSteps(i)
<1>1. /\ Sound(s, st) /\ "assistant" \in Left(st) /\ Left(st) \subseteq {"user", "assistant"}
      /\ st # <<>> /\ Head(st) \notin Based
  BY Storing
<1>2. \A x \in {"show", "reply", "user", "assistant", "digest", "event"} : x \in Steps /\ x \notin Based
  BY DEF Steps, Based
<1> HIDE DEF st
<1>3. CASE s = "text"
  <2> DEFINE q == <<"digest", "event", "reply">>
  <2>1. LocalSteps(s, i) = Then(st, q)
    BY <1>3 DEF Then, LocalSteps, st
  <2>2. /\ Rank(s)["digest"] < Rank(s)["event"]
        /\ Rank(s)["event"] < Rank(s)["reply"]
        /\ \A x \in {"user", "assistant"}, y \in {"digest", "event", "reply"} : Rank(s)[x] < Rank(s)[y]
    BY <1>3 DEF Rank
  <2>3. Sound(s, q) /\ Left(q) = {"digest", "event", "reply"} /\ q # <<>> /\ Head(q) \notin Based
    BY <1>2, <2>2, Three
  <2> HIDE DEF q
  <2>4. /\ Sound(s, Then(st, q)) /\ Left(Then(st, q)) = Left(st) \cup Left(q)
        /\ Then(st, q) # <<>> /\ Head(Then(st, q)) = Head(st)
    <3>1. Under(s, st, q)
      BY <1>1, <2>2, <2>3 DEF Under
    <3> QED
      BY <3>1, <1>1, <2>3, Joined
  <2> QED
    BY <1>1, <2>1, <2>3, <2>4
<1>4. CASE s = "stream"
  <2> DEFINE a == <<"show">>
             q == <<"digest", "reply">>
  <2>1. LocalSteps(s, i) = Then(Then(a, st), q)
    BY <1>4 DEF Then, LocalSteps, st
  <2>2. /\ Rank(s)["digest"] < Rank(s)["reply"]
        /\ \A x \in {"show"}, y \in {"user", "assistant"} : Rank(s)[x] < Rank(s)[y]
        /\ \A x \in {"show"}, y \in {"digest", "reply"} : Rank(s)[x] < Rank(s)[y]
        /\ \A x \in {"user", "assistant"}, y \in {"digest", "reply"} : Rank(s)[x] < Rank(s)[y]
    BY <1>4 DEF Rank
  <2>3. Sound(s, q) /\ Left(q) = {"digest", "reply"} /\ q # <<>> /\ Head(q) \notin Based
    BY <1>2, <2>2, Two
  <2>4. Sound(s, a) /\ Left(a) = {"show"} /\ a # <<>> /\ Head(a) \notin Based
    BY <1>2, <2>2, One
  <2> HIDE DEF a, q
  <2>5. /\ Sound(s, Then(a, st)) /\ Left(Then(a, st)) = Left(a) \cup Left(st)
        /\ Then(a, st) # <<>> /\ Head(Then(a, st)) = Head(a)
    <3>1. Under(s, a, st)
      BY <1>1, <2>2, <2>4 DEF Under
    <3> QED
      BY <3>1, <1>1, <2>4, Joined
  <2>6. /\ Sound(s, Then(Then(a, st), q)) /\ Left(Then(Then(a, st), q)) = Left(Then(a, st)) \cup Left(q)
        /\ Then(Then(a, st), q) # <<>> /\ Head(Then(Then(a, st), q)) = Head(Then(a, st))
    <3>1. Under(s, Then(a, st), q)
      BY <1>1, <2>2, <2>3, <2>4, <2>5 DEF Under
    <3> QED
      BY <3>1, <1>1, <2>3, <2>4, <2>5, Joined
  <2> QED
    BY <1>1, <2>1, <2>3, <2>4, <2>5, <2>6
<1>5. CASE s = "voice"
  <2> DEFINE a == <<"show", "reply">>
             q == <<"digest", "event">>
  <2>1. LocalSteps(s, i) = Then(Then(a, st), q)
    BY <1>5 DEF Then, LocalSteps, st
  <2>2. /\ Rank(s)["show"] < Rank(s)["reply"]
        /\ Rank(s)["digest"] < Rank(s)["event"]
        /\ \A x \in {"show", "reply"}, y \in {"user", "assistant"} : Rank(s)[x] < Rank(s)[y]
        /\ \A x \in {"show", "reply"}, y \in {"digest", "event"} : Rank(s)[x] < Rank(s)[y]
        /\ \A x \in {"user", "assistant"}, y \in {"digest", "event"} : Rank(s)[x] < Rank(s)[y]
    BY <1>5 DEF Rank
  <2>3. Sound(s, q) /\ Left(q) = {"digest", "event"} /\ q # <<>> /\ Head(q) \notin Based
    BY <1>2, <2>2, Two
  <2>4. Sound(s, a) /\ Left(a) = {"show", "reply"} /\ a # <<>> /\ Head(a) \notin Based
    BY <1>2, <2>2, Two
  <2> HIDE DEF a, q
  <2>5. /\ Sound(s, Then(a, st)) /\ Left(Then(a, st)) = Left(a) \cup Left(st)
        /\ Then(a, st) # <<>> /\ Head(Then(a, st)) = Head(a)
    <3>1. Under(s, a, st)
      BY <1>1, <2>2, <2>4 DEF Under
    <3> QED
      BY <3>1, <1>1, <2>4, Joined
  <2>6. /\ Sound(s, Then(Then(a, st), q)) /\ Left(Then(Then(a, st), q)) = Left(Then(a, st)) \cup Left(q)
        /\ Then(Then(a, st), q) # <<>> /\ Head(Then(Then(a, st), q)) = Head(Then(a, st))
    <3>1. Under(s, Then(a, st), q)
      BY <1>1, <2>2, <2>3, <2>4, <2>5 DEF Under
    <3> QED
      BY <3>1, <1>1, <2>3, <2>4, <2>5, Joined
  <2> QED
    BY <1>1, <2>1, <2>3, <2>4, <2>5, <2>6
<1>6. CASE s = "rtc"
  <2> DEFINE q == <<"digest", "event">>
  <2>1. LocalSteps(s, i) = Then(st, q)
    BY <1>6 DEF Then, LocalSteps, st
  <2>2. /\ Rank(s)["digest"] < Rank(s)["event"]
        /\ \A x \in {"user", "assistant"}, y \in {"digest", "event"} : Rank(s)[x] < Rank(s)[y]
    BY <1>6 DEF Rank
  <2>3. Sound(s, q) /\ Left(q) = {"digest", "event"} /\ q # <<>> /\ Head(q) \notin Based
    BY <1>2, <2>2, Two
  <2> HIDE DEF q
  <2>4. /\ Sound(s, Then(st, q)) /\ Left(Then(st, q)) = Left(st) \cup Left(q)
        /\ Then(st, q) # <<>> /\ Head(Then(st, q)) = Head(st)
    <3>1. Under(s, st, q)
      BY <1>1, <2>2, <2>3 DEF Under
    <3> QED
      BY <3>1, <1>1, <2>3, Joined
  <2> QED
    BY <1>1, <2>1, <2>3, <2>4
<1> QED
  BY <1>3, <1>4, <1>5, <1>6 DEF AllSurfaces

LEMMA Replying ==
  ASSUME NEW s \in AllSurfaces, NEW i
  PROVE  LET p == ReplySteps(s, i)
         IN  /\ Sound(s, p) /\ p # <<>> /\ Head(p) \notin Based
             /\ "assistant" \in Left(p) /\ "note" \in Left(p)
             /\ Left(p) \subseteq KernelParts \cup {"user", "assistant", "digest", "note", "event", "reply"}
<1> DEFINE cm == KernelSteps \o StoreSteps(i) \o <<"digest">>
<1>1. /\ Sound(s, cm) /\ "assistant" \in Left(cm)
      /\ Left(cm) \subseteq {"kernel", "kernelMood", "kernelRel", "user", "assistant", "digest"}
      /\ cm # <<>> /\ Head(cm) \notin Based
  <2> DEFINE st == StoreSteps(i)
             d == <<"digest">>
  <2>1. /\ Sound(s, st) /\ "assistant" \in Left(st) /\ Left(st) \subseteq {"user", "assistant"}
        /\ st # <<>> /\ Head(st) \notin Based
    BY Storing
  <2>2. /\ \A x \in KernelParts, y \in {"user", "assistant"} : Rank(s)[x] < Rank(s)[y]
        /\ \A x \in KernelParts \cup {"user", "assistant"}, y \in {"digest"} : Rank(s)[x] < Rank(s)[y]
    BY DEF KernelParts, Rank
  <2>3. Sound(s, d) /\ Left(d) = {"digest"} /\ d # <<>> /\ Head(d) \notin Based
    BY One DEF Steps, Based
  <2> HIDE DEF st, d
  <2>4. /\ Sound(s, KernelSteps) /\ Left(KernelSteps) = KernelParts
        /\ KernelSteps # <<>> /\ Head(KernelSteps) = "kernel"
    BY Updating
  <2>5. /\ Sound(s, Then(KernelSteps, st)) /\ Left(Then(KernelSteps, st)) = KernelParts \cup Left(st)
        /\ Then(KernelSteps, st) # <<>> /\ Head(Then(KernelSteps, st)) = "kernel"
    <3>1. Under(s, KernelSteps, st)
      BY <2>1, <2>2, <2>4 DEF Under, KernelParts
    <3> QED
      BY <3>1, <2>1, <2>2, <2>4, Joined
  <2>6. /\ Sound(s, Then(Then(KernelSteps, st), d))
        /\ Left(Then(Then(KernelSteps, st), d)) = Left(Then(KernelSteps, st)) \cup Left(d)
        /\ Then(Then(KernelSteps, st), d) # <<>> /\ Head(Then(Then(KernelSteps, st), d)) = "kernel"
    <3>1. Under(s, Then(KernelSteps, st), d)
      BY <2>1, <2>2, <2>3, <2>4, <2>5 DEF Under, KernelParts
    <3> QED
      BY <3>1, <2>1, <2>2, <2>3, <2>4, <2>5, Joined
  <2>7. cm = Then(Then(KernelSteps, st), d)
    BY DEF Then, st, d
  <2> QED
    BY <2>1, <2>3, <2>5, <2>6, <2>7 DEF KernelParts, Based
<1>2. \A x \in {"reply", "note", "event"} : x \in Steps /\ x \notin Based
  BY DEF Steps, Based
<1> HIDE DEF cm
<1>3. CASE s = "text"
  <2> DEFINE q == <<"note", "event", "reply">>
  <2>1. ReplySteps(s, i) = Then(cm, q)
    BY <1>3 DEF Then, ReplySteps, cm
  <2>2. /\ Rank(s)["note"] < Rank(s)["event"]
        /\ Rank(s)["event"] < Rank(s)["reply"]
        /\ \A x \in {"kernel", "kernelMood", "kernelRel", "user", "assistant", "digest"}, y \in {"note", "event", "reply"} : Rank(s)[x] < Rank(s)[y]
    BY <1>3 DEF Rank
  <2>3. Sound(s, q) /\ Left(q) = {"note", "event", "reply"} /\ q # <<>> /\ Head(q) \notin Based
    BY <1>2, <2>2, Three
  <2> HIDE DEF q
  <2>4. /\ Sound(s, Then(cm, q)) /\ Left(Then(cm, q)) = Left(cm) \cup Left(q)
        /\ Then(cm, q) # <<>> /\ Head(Then(cm, q)) = Head(cm)
    <3>1. Under(s, cm, q)
      BY <1>1, <2>2, <2>3 DEF Under
    <3> QED
      BY <3>1, <1>1, <2>3, Joined
  <2> QED
    BY <1>1, <2>1, <2>3, <2>4 DEF KernelParts
<1>4. CASE s = "stream"
  <2> DEFINE q == <<"event", "note", "reply">>
  <2>1. ReplySteps(s, i) = Then(cm, q)
    BY <1>4 DEF Then, ReplySteps, cm
  <2>2. /\ Rank(s)["event"] < Rank(s)["note"]
        /\ Rank(s)["note"] < Rank(s)["reply"]
        /\ \A x \in {"kernel", "kernelMood", "kernelRel", "user", "assistant", "digest"}, y \in {"event", "note", "reply"} : Rank(s)[x] < Rank(s)[y]
    BY <1>4 DEF Rank
  <2>3. Sound(s, q) /\ Left(q) = {"event", "note", "reply"} /\ q # <<>> /\ Head(q) \notin Based
    BY <1>2, <2>2, Three
  <2> HIDE DEF q
  <2>4. /\ Sound(s, Then(cm, q)) /\ Left(Then(cm, q)) = Left(cm) \cup Left(q)
        /\ Then(cm, q) # <<>> /\ Head(Then(cm, q)) = Head(cm)
    <3>1. Under(s, cm, q)
      BY <1>1, <2>2, <2>3 DEF Under
    <3> QED
      BY <3>1, <1>1, <2>3, Joined
  <2> QED
    BY <1>1, <2>1, <2>3, <2>4 DEF KernelParts
<1>5. CASE s = "voice"
  <2> DEFINE a == <<"reply">>
             q == <<"note", "event">>
  <2>1. ReplySteps(s, i) = Then(Then(a, cm), q)
    BY <1>5 DEF Then, ReplySteps, cm
  <2>2. /\ Rank(s)["note"] < Rank(s)["event"]
        /\ \A x \in {"reply"}, y \in {"kernel", "kernelMood", "kernelRel", "user", "assistant", "digest"} : Rank(s)[x] < Rank(s)[y]
        /\ \A x \in {"reply"}, y \in {"note", "event"} : Rank(s)[x] < Rank(s)[y]
        /\ \A x \in {"kernel", "kernelMood", "kernelRel", "user", "assistant", "digest"}, y \in {"note", "event"} : Rank(s)[x] < Rank(s)[y]
    BY <1>5 DEF Rank
  <2>3. Sound(s, q) /\ Left(q) = {"note", "event"} /\ q # <<>> /\ Head(q) \notin Based
    BY <1>2, <2>2, Two
  <2>4. Sound(s, a) /\ Left(a) = {"reply"} /\ a # <<>> /\ Head(a) \notin Based
    BY <1>2, <2>2, One
  <2> HIDE DEF a, q
  <2>5. /\ Sound(s, Then(a, cm)) /\ Left(Then(a, cm)) = Left(a) \cup Left(cm)
        /\ Then(a, cm) # <<>> /\ Head(Then(a, cm)) = Head(a)
    <3>1. Under(s, a, cm)
      BY <1>1, <2>2, <2>4 DEF Under
    <3> QED
      BY <3>1, <1>1, <2>4, Joined
  <2>6. /\ Sound(s, Then(Then(a, cm), q)) /\ Left(Then(Then(a, cm), q)) = Left(Then(a, cm)) \cup Left(q)
        /\ Then(Then(a, cm), q) # <<>> /\ Head(Then(Then(a, cm), q)) = Head(Then(a, cm))
    <3>1. Under(s, Then(a, cm), q)
      BY <1>1, <2>2, <2>3, <2>4, <2>5 DEF Under
    <3> QED
      BY <3>1, <1>1, <2>3, <2>4, <2>5, Joined
  <2> QED
    BY <1>1, <2>1, <2>3, <2>4, <2>5, <2>6 DEF KernelParts
<1>6. CASE s = "rtc"
  <2> DEFINE q == <<"note", "event">>
  <2>1. ReplySteps(s, i) = Then(cm, q)
    BY <1>6 DEF Then, ReplySteps, cm
  <2>2. /\ Rank(s)["note"] < Rank(s)["event"]
        /\ \A x \in {"kernel", "kernelMood", "kernelRel", "user", "assistant", "digest"}, y \in {"note", "event"} : Rank(s)[x] < Rank(s)[y]
    BY <1>6 DEF Rank
  <2>3. Sound(s, q) /\ Left(q) = {"note", "event"} /\ q # <<>> /\ Head(q) \notin Based
    BY <1>2, <2>2, Two
  <2> HIDE DEF q
  <2>4. /\ Sound(s, Then(cm, q)) /\ Left(Then(cm, q)) = Left(cm) \cup Left(q)
        /\ Then(cm, q) # <<>> /\ Head(Then(cm, q)) = Head(cm)
    <3>1. Under(s, cm, q)
      BY <1>1, <2>2, <2>3 DEF Under
    <3> QED
      BY <3>1, <1>1, <2>3, Joined
  <2> QED
    BY <1>1, <2>1, <2>3, <2>4 DEF KernelParts
<1> QED
  BY <1>3, <1>4, <1>5, <1>6 DEF AllSurfaces

LEMMA First ==
  ASSUME NEW s \in AllSurfaces, NEW i
  PROVE  LET p == FirstSteps(s, i)
         IN  /\ Sound(s, p) /\ p # <<>> /\ Head(p) = "state"
             /\ Left(p) \cap ({"note"} \cup KernelParts) = {}
             /\ Left(p) \cap {"user", "event", "reply", "show"} # {} => "assistant" \in Left(p)
<1> DEFINE d == DecideSteps(i)
<1>1. /\ Sound(s, d) /\ Left(d) \subseteq {"state", "mood", "rel", "relWrite"}
      /\ d # <<>> /\ Head(d) = "state"
  BY Deciding
<1> HIDE DEF d
<1>2. \A x \in {"state", "mood", "rel", "relWrite"},
         y \in {"call", "show", "user", "assistant", "digest", "event", "reply"} :
        Rank(s)[x] < Rank(s)[y]
  BY DEF Rank
<1>3. CASE s = "rtc" \/ i \in NeedsModel
  <2> DEFINE c == <<"call">>
  <2>1. FirstSteps(s, i) = Then(d, c)
    BY <1>3 DEF Then, FirstSteps, d
  <2>2. Sound(s, c) /\ Left(c) = {"call"} /\ c # <<>> /\ Head(c) \notin Based
    BY One DEF Steps, Based
  <2> HIDE DEF c
  <2>3. /\ Sound(s, Then(d, c)) /\ Left(Then(d, c)) = Left(d) \cup Left(c)
        /\ Then(d, c) # <<>> /\ Head(Then(d, c)) = Head(d)
    <3>1. Under(s, d, c)
      BY <1>1, <1>2, <2>2 DEF Under
    <3> QED
      BY <3>1, <1>1, <2>2, Joined
  <2> QED
    BY <1>1, <2>1, <2>2, <2>3 DEF KernelParts
<1>4. CASE ~(s = "rtc" \/ i \in NeedsModel)
  <2> DEFINE l == LocalSteps(s, i)
  <2>1. FirstSteps(s, i) = Then(d, l)
    BY <1>4 DEF Then, FirstSteps, d
  <2>2. /\ Sound(s, l) /\ "assistant" \in Left(l) /\ l # <<>> /\ Head(l) \notin Based
        /\ Left(l) \subseteq {"show", "user", "assistant", "digest", "event", "reply"}
    BY Local
  <2> HIDE DEF l
  <2>3. /\ Sound(s, Then(d, l)) /\ Left(Then(d, l)) = Left(d) \cup Left(l)
        /\ Then(d, l) # <<>> /\ Head(Then(d, l)) = Head(d)
    <3>1. Under(s, d, l)
      BY <1>1, <1>2, <2>2 DEF Under
    <3> QED
      BY <3>1, <1>1, <2>2, Joined
  <2> QED
    BY <1>1, <2>1, <2>2, <2>3 DEF KernelParts
<1> QED
  BY <1>3, <1>4

-----------------------------------------------------------------------------
(* How the invariant of one turn survives *)

LEMMA Undisturbed ==
  ASSUME NEW t \in Turns, TurnOK(t),
         path'[t] = path[t], surface'[t] = surface[t], told'[t] = told[t],
         called'[t] <=> called[t],
         t \in user' <=> t \in user, t \in assistant' <=> t \in assistant,
         t \in noted' <=> t \in noted, t \in events' <=> t \in events,
         faults' = 0 => faults = 0
  PROVE  TurnOK(t)'
<1>1. /\ PathOK(t)' /\ \A x : ToDo(t, x)' <=> ToDo(t, x)
      /\ Untouched(t)' <=> Untouched(t)
      /\ AnswersLast(t)' <=> AnswersLast(t)
  BY DEF TurnOK, PathOK, ToDo, Untouched, AnswersLast
<1>2. (NotBegun(t) /\ Fresh(t) /\ Asking(t) /\ Ended(t))'
  BY <1>1 DEF TurnOK, NotBegun, Fresh, Asking, Ended
<1>3. (Keeping(t) /\ Counting(t) /\ Publishing(t) /\ Telling(t))'
  BY <1>1 DEF TurnOK, Keeping, Counting, Publishing, Telling
<1>4. Whole(t)'
  BY <1>1 DEF TurnOK, Whole
<1> QED
  BY <1>1, <1>2, <1>3, <1>4 DEF TurnOK

\* A turn in progress drops steps, but neither the reply's row nor the count.
LEMMA Quiet ==
  ASSUME NEW t \in Turns, TurnOK(t), path[t] # <<>>, PathOK(t)',
         \A x : ToDo(t, x)' => ToDo(t, x),
         ToDo(t, "assistant") => ToDo(t, "assistant")', ToDo(t, "note") => ToDo(t, "note")',
         UNCHANGED <<turnVars, logVars, told>>, faults' = 0 => faults = 0
  PROVE  TurnOK(t)'
<1>1. Untouched(t)' <=> Untouched(t)
  BY DEF Untouched, logVars
<1>2. AnswersLast(t)' <=> AnswersLast(t)
  BY DEF AnswersLast, turnVars
<1>3. surface[t] # "none" /\ told[t] \notin {"error", "cut"}
  BY DEF TurnOK, NotBegun, Ended
<1>4. (NotBegun(t) /\ Fresh(t) /\ Asking(t) /\ Ended(t))'
  BY <1>1, <1>3 DEF TurnOK, NotBegun, Fresh, Asking, Ended, turnVars
<1>5. (Keeping(t) /\ Counting(t) /\ Publishing(t) /\ Telling(t))'
  BY <1>2 DEF TurnOK, Keeping, Counting, Publishing, Telling, logVars
<1>6. Whole(t)'
  BY <1>1 DEF TurnOK, Whole, logVars, turnVars
<1> QED
  BY <1>4, <1>5, <1>6 DEF TurnOK

\* A turn that ends here.
LEMMA Stopped ==
  ASSUME NEW t \in Turns, TurnOK(t), path'[t] = <<>>, UNCHANGED <<turnVars, logVars>>,
         surface[t] = "none" => told'[t] = told[t],
         faults' = 0 => Untouched(t) /\ (told'[t] = "cut" \/ ~called[t])
  PROVE  TurnOK(t)'
<1>1. PathOK(t)' /\ \A x : ~ToDo(t, x)'
  BY Nothing DEF PathOK, ToDo
<1>2. Untouched(t)' <=> Untouched(t)
  BY DEF Untouched, logVars
<1>3. NotBegun(t)'
  BY <1>2 DEF TurnOK, NotBegun, turnVars
<1>4. Whole(t)'
  BY <1>1, <1>2 DEF Whole, Untouched, turnVars
<1> QED
  BY <1>1, <1>3, <1>4 DEF TurnOK, Fresh, Asking, Keeping, Counting, Publishing, Telling, Ended

\* A step done.
LEMMA OneDone ==
  ASSUME NEW t \in Turns, path \in [Turns -> Seq(Steps)], PathOK(t), path[t] # <<>>,
         Continue(t), UNCHANGED surface
  PROVE  /\ path' \in [Turns -> Seq(Steps)] /\ path'[t] = Tail(path[t])
         /\ \A u \in Turns \ {t} : path'[u] = path[u]
         /\ PathOK(t)' /\ ToDo(t, Head(path[t]))
         /\ \A x : ToDo(t, x)' <=> ToDo(t, x) /\ x # Head(path[t])
<1>1. /\ path'[t] = Tail(path[t])
      /\ \A u \in Turns \ {t} : path'[u] = path[u]
  BY DEF Continue
<1>2. /\ Sound(surface[t], Tail(path[t])) /\ Head(path[t]) \in Left(path[t])
      /\ Left(Tail(path[t])) = Left(path[t]) \ {Head(path[t])}
  BY AfterHead DEF PathOK
<1>3. Tail(path[t]) \in Seq(Steps)
  BY <1>2 DEF Sound
<1> QED
  BY <1>1, <1>2, <1>3 DEF Continue, PathOK, ToDo

\* New steps for a turn.
LEMMA Given ==
  ASSUME NEW t \in Turns, path \in [Turns -> Seq(Steps)], NEW p \in Seq(Steps), Proceed(t, p)
  PROVE  /\ path' \in [Turns -> Seq(Steps)] /\ path'[t] = p
         /\ \A u \in Turns \ {t} : path'[u] = path[u]
BY DEF Proceed

-----------------------------------------------------------------------------
(* The types of the kernel rows *)

KernelTypeOK ==
  /\ kernel \in Kernel /\ applied \in Kernel
  /\ snap \in [Turns -> Kernel] /\ kernelRaced \in BOOLEAN

\* The actions that touch the rows keep them of their types.
LEMMA KernelTyped ==
  ASSUME KernelTypeOK, NEW t \in Turns,
         \/ ReadKernel(t) \/ WriteMood(t) \/ RereadRelationship(t)
         \/ WriteTrust(t) \/ WriteRelationship(t)
  PROVE  KernelTypeOK'
<1>1. /\ kernel \in Kernel /\ applied \in Kernel
      /\ snap \in [Turns -> Kernel] /\ kernelRaced \in BOOLEAN
      /\ snap[t] \in Kernel
  BY DEF KernelTypeOK
<1>2. /\ kernel.mood \in SUBSET Effects /\ kernel.trust \in SUBSET Effects
      /\ kernel.familiarity \in SUBSET Turns
      /\ applied.mood \in SUBSET Effects /\ applied.trust \in SUBSET Effects
      /\ applied.familiarity \in SUBSET Turns
      /\ snap[t].mood \in SUBSET Effects /\ snap[t].trust \in SUBSET Effects
      /\ snap[t].familiarity \in SUBSET Turns
      /\ <<t, "message">> \in Effects /\ <<t, "signals">> \in Effects
  BY <1>1 DEF Kernel, Effects
<1>3. ASSUME NEW new \in Kernel, NEW effects \in Kernel, WriteKernel(t, new, effects), UNCHANGED snap
      PROVE  KernelTypeOK'
  <2>1. effects.mood \in SUBSET Effects /\ effects.trust \in SUBSET Effects /\ effects.familiarity \in SUBSET Turns
    BY <1>3 DEF Kernel
  <2>2. applied' \in Kernel
    BY <1>2, <1>3, <2>1 DEF WriteKernel, Kernel
  <2>3. kernelRaced' \in BOOLEAN
    BY <1>1, <1>3 DEF WriteKernel
  <2> QED
    BY <1>1, <1>3, <2>2, <2>3 DEF WriteKernel, KernelTypeOK
<1>4. CASE ReadKernel(t)
  BY <1>1, <1>4 DEF ReadKernel, KernelTypeOK
<1>5. CASE WriteMood(t)
  <2>1. PICK e \in {<<t, "message">>, <<t, "signals">>} :
          /\ WriteKernel(t, [kernel EXCEPT !.mood = snap[t].mood \cup {e}], [NoEffects EXCEPT !.mood = {e}])
          /\ UNCHANGED snap
    BY <1>5 DEF WriteMood
  <2>2. [kernel EXCEPT !.mood = snap[t].mood \cup {e}] \in Kernel
    BY <1>1, <1>2 DEF Kernel
  <2>3. [NoEffects EXCEPT !.mood = {e}] \in Kernel
    BY <1>2 DEF Kernel, NoEffects
  <2> QED
    BY <1>3, <2>1, <2>2, <2>3
<1>6. CASE RereadRelationship(t)
  <2>1. [snap[t] EXCEPT !.familiarity = kernel.familiarity] \in Kernel
    BY <1>1, <1>2 DEF Kernel
  <2>2. snap' \in [Turns -> Kernel]
    BY <1>1, <1>6, <2>1 DEF RereadRelationship
  <2> QED
    BY <1>1, <1>6, <2>2 DEF RereadRelationship, KernelTypeOK
<1>7. CASE WriteTrust(t)
  <2> DEFINE new == [kernel EXCEPT !.trust = snap[t].trust \cup {<<t, "message">>},
                                   !.familiarity = snap[t].familiarity]
             effects == [NoEffects EXCEPT !.trust = {<<t, "message">>}]
  <2>1. new \in Kernel /\ effects \in Kernel
    BY <1>1, <1>2 DEF Kernel, NoEffects
  <2> QED
    BY <1>3, <1>7, <2>1 DEF WriteTrust
<1>8. CASE WriteRelationship(t)
  <2> DEFINE new == [kernel EXCEPT !.trust = snap[t].trust \cup {<<t, "signals">>},
                                   !.familiarity = snap[t].familiarity \cup {t}]
             effects == [NoEffects EXCEPT !.trust = {<<t, "signals">>}, !.familiarity = {t}]
  <2>1. new \in Kernel /\ effects \in Kernel
    BY <1>1, <1>2 DEF Kernel, NoEffects
  <2> QED
    BY <1>3, <1>8, <2>1 DEF WriteRelationship
<1> QED
  BY <1>4, <1>5, <1>6, <1>7, <1>8

-----------------------------------------------------------------------------
(* One lemma for the actions of each kind *)

\* What no action about a single turn disturbs.
OthersKept(t) ==
  \A u \in Turns \ {t} :
    /\ path'[u] = path[u] /\ surface'[u] = surface[u] /\ told'[u] = told[u]
    /\ called'[u] <=> called[u]
    /\ u \in user' <=> u \in user
    /\ u \in assistant' <=> u \in assistant
    /\ u \in noted' <=> u \in noted
    /\ u \in events' <=> u \in events

LEMMA AllTurns ==
  ASSUME TurnInv, NEW t \in Turns, OthersKept(t), TurnOK(t)', faults' = 0 => faults = 0
  PROVE  \A u \in Turns : TurnOK(u)'
<1> SUFFICES ASSUME NEW u \in Turns, u # t PROVE TurnOK(u)'
  OBVIOUS
<1>1. TurnOK(u)
  BY DEF TurnInv
<1> QED
  BY <1>1, Undisturbed DEF OthersKept

LEMMA BeginStep ==
  ASSUME TurnInv, NEW t \in Turns, Begin(t)
  PROVE  TurnInv'
<1>1. PICK s \in Surfaces, i \in Inputs :
        /\ surface' = [surface EXCEPT ![t] = s]
        /\ input' = [input EXCEPT ![t] = i]
        /\ Proceed(t, FirstSteps(s, i))
  BY DEF Begin
<1> DEFINE p == FirstSteps(s, i)
<1>2. s \in AllSurfaces /\ i \in AllInputs /\ s # "none"
  BY InputsAssumption DEF AllSurfaces
<1>3. /\ Sound(s, p) /\ "note" \notin Left(p)
      /\ Left(p) \cap {"user", "event", "reply", "show"} # {} => "assistant" \in Left(p)
  BY <1>2, First
<1> HIDE DEF p
<1>4. p \in Seq(Steps) /\ Proceed(t, p)
  BY <1>1, <1>3 DEF Sound, p
<1>5. TurnTypeOK /\ TurnOK(t) /\ path \in [Turns -> Seq(Steps)] /\ surface[t] = "none"
  BY DEF TurnInv, TurnTypeOK, Begin
<1>6. path' \in [Turns -> Seq(Steps)] /\ path'[t] = p /\ \A u \in Turns \ {t} : path'[u] = path[u]
  BY <1>4, <1>5, Given
<1>7. surface'[t] = s /\ \A u \in Turns \ {t} : surface'[u] = surface[u]
  BY <1>1, <1>5 DEF TurnTypeOK
<1>8. OthersKept(t) /\ (faults' = 0 => faults = 0)
  BY <1>6, <1>7 DEF Begin, OthersKept, logVars
<1>9. TurnTypeOK'
  <2>1. surface' \in [Turns -> AllSurfaces \cup {"none"}] /\ input' \in [Turns -> AllInputs]
    BY <1>1, <1>2, <1>5 DEF TurnTypeOK
  <2> QED
    BY <1>5, <1>6, <2>1 DEF TurnTypeOK, Begin, logVars, kernelVars
<1>10. TurnOK(t)'
  <2>1. told[t] = "none" /\ ~called[t] /\ Untouched(t)
    BY <1>5 DEF TurnOK, NotBegun
  <2>2. told'[t] = "none" /\ ~called'[t] /\ Untouched(t)'
    BY <2>1 DEF Begin, Untouched, logVars
  <2>3. PathOK(t)' /\ \A x : ToDo(t, x)' <=> x \in Left(p)
    BY <1>3, <1>6, <1>7 DEF PathOK, ToDo
  <2>4. (NotBegun(t) /\ Fresh(t) /\ Asking(t) /\ Ended(t))'
    BY <1>2, <1>7, <2>2 DEF NotBegun, Fresh, Asking, Ended
  <2>5. (Keeping(t) /\ Counting(t) /\ Publishing(t) /\ Telling(t))'
    BY <1>3, <2>2, <2>3 DEF Keeping, Counting, Publishing, Telling, Untouched
  <2>6. Whole(t)'
    BY <1>3, <2>2, <2>3 DEF Whole, Untouched
  <2> QED
    BY <2>3, <2>4, <2>5, <2>6 DEF TurnOK
<1> QED
  BY <1>8, <1>9, <1>10, AllTurns DEF TurnInv

LEMMA AnswerStep ==
  ASSUME TurnInv, NEW t \in Turns, ModelAnswers(t) \/ AnswerLocally(t)
  PROVE  TurnInv'
<1>1. /\ TurnTypeOK /\ TurnOK(t) /\ path \in [Turns -> Seq(Steps)]
      /\ path[t] # <<>> /\ Head(path[t]) = "call"
  BY DEF TurnInv, TurnTypeOK, ModelAnswers, AnswerLocally, At
<1>2. ToDo(t, "call") /\ surface[t] # "none" /\ surface[t] \in AllSurfaces
  <2>1. Head(path[t]) \in Left(path[t])
    BY <1>1, AfterHead DEF TurnOK, PathOK
  <2>2. surface[t] # "none"
    BY <1>1 DEF TurnOK, NotBegun
  <2> QED
    BY <1>1, <2>1, <2>2 DEF ToDo, TurnTypeOK
<1>3. told[t] = "none" /\ Untouched(t) /\ ~called[t]
  BY <1>1, <1>2 DEF TurnOK, Fresh, Asking
<1>4. UNCHANGED <<surface, input, logVars, told, kernelVars, faults>>
  BY DEF ModelAnswers, AnswerLocally, turnVars
<1>5. told'[t] = "none" /\ Untouched(t)' /\ surface'[t] = surface[t]
  BY <1>3, <1>4 DEF Untouched, logVars
<1>6. called' \in [Turns -> BOOLEAN] /\ \A u \in Turns \ {t} : called'[u] <=> called[u]
  BY <1>1 DEF ModelAnswers, AnswerLocally, TurnTypeOK, turnVars
<1>7. ASSUME NEW p, Proceed(t, p), Sound(surface[t], p),
             "assistant" \in Left(p), "call" \notin Left(p), "note" \in Left(p) <=> called'[t]
      PROVE  TurnInv'
  <2>1. path' \in [Turns -> Seq(Steps)] /\ path'[t] = p /\ \A u \in Turns \ {t} : path'[u] = path[u]
    BY <1>1, <1>7, Given DEF Sound
  <2>2. OthersKept(t) /\ (faults' = 0 => faults = 0)
    BY <1>4, <1>6, <2>1 DEF OthersKept, logVars
  <2>3. TurnTypeOK'
    BY <1>1, <1>4, <1>6, <2>1 DEF TurnTypeOK, logVars, kernelVars
  <2>4. PathOK(t)' /\ \A x : ToDo(t, x)' <=> x \in Left(p)
    BY <1>5, <1>7, <2>1 DEF PathOK, ToDo
  <2>5. (NotBegun(t) /\ Fresh(t) /\ Asking(t) /\ Ended(t))'
    BY <1>2, <1>5, <1>7, <2>4 DEF NotBegun, Fresh, Asking, Ended
  <2>6. (Keeping(t) /\ Counting(t) /\ Publishing(t) /\ Telling(t))'
    BY <1>5, <1>7, <2>4 DEF Keeping, Counting, Publishing, Telling, Untouched
  <2>7. Whole(t)'
    BY <1>5, <1>7, <2>4 DEF Whole, Untouched
  <2>8. TurnOK(t)'
    BY <2>4, <2>5, <2>6, <2>7 DEF TurnOK
  <2> QED
    BY <2>2, <2>3, <2>8, AllTurns DEF TurnInv
<1>8. CASE ModelAnswers(t)
  <2> DEFINE p == ReplySteps(surface[t], input[t])
  <2>1. /\ Sound(surface[t], p) /\ "assistant" \in Left(p) /\ "note" \in Left(p)
        /\ "call" \notin Left(p)
    BY <1>2, Replying DEF KernelParts
  <2> HIDE DEF p
  <2>2. called'[t] /\ Proceed(t, p)
    BY <1>1, <1>8 DEF ModelAnswers, TurnTypeOK, p
  <2> QED
    BY <1>7, <2>1, <2>2
<1>9. CASE AnswerLocally(t)
  <2> DEFINE p == LocalSteps(surface[t], input[t])
  <2>1. /\ Sound(surface[t], p) /\ "assistant" \in Left(p) /\ "note" \notin Left(p)
        /\ "call" \notin Left(p)
    BY <1>2, Local
  <2> HIDE DEF p
  <2>2. ~called'[t] /\ Proceed(t, p)
    BY <1>3, <1>9 DEF AnswerLocally, turnVars, p
  <2> QED
    BY <1>7, <2>1, <2>2
<1> QED
  BY <1>8, <1>9

\* A turn in progress and the step it is at.
LEMMA UnderWay ==
  ASSUME TurnInv, NEW t \in Turns, path[t] # <<>>
  PROVE  /\ TurnTypeOK /\ TurnOK(t) /\ path \in [Turns -> Seq(Steps)]
         /\ ToDo(t, Head(path[t])) /\ surface[t] # "none" /\ surface[t] \in AllSurfaces
         /\ told[t] \in {"none", "done"}
<1>1. TurnTypeOK /\ TurnOK(t) /\ path \in [Turns -> Seq(Steps)]
  BY DEF TurnInv, TurnTypeOK
<1>2. Head(path[t]) \in Left(path[t])
  BY <1>1, AfterHead DEF TurnOK, PathOK
<1> QED
  BY <1>1, <1>2 DEF TurnOK, NotBegun, Ended, ToDo, TurnTypeOK

LEMMA EndStep ==
  ASSUME TurnInv, NEW t \in Turns, ProviderFails(t) \/ CutOff(t)
  PROVE  TurnInv'
<1>1. path[t] # <<>>
  BY DEF ProviderFails, CutOff, At
<1>2. /\ TurnTypeOK /\ TurnOK(t) /\ path \in [Turns -> Seq(Steps)]
      /\ ToDo(t, Head(path[t])) /\ surface[t] # "none" /\ told[t] \in {"none", "done"}
  BY <1>1, UnderWay
<1>3. Proceed(t, <<>>) /\ UNCHANGED <<turnVars, logVars, kernelVars, faults>>
  BY DEF ProviderFails, CutOff, Fail
<1>4. path' \in [Turns -> Seq(Steps)] /\ path'[t] = <<>> /\ \A u \in Turns \ {t} : path'[u] = path[u]
  <2>1. <<>> \in Seq(Steps)
    OBVIOUS
  <2> QED
    BY <1>2, <1>3, <2>1, Given
<1>5. told' \in [Turns -> {"none", "done", "error", "cut"}] /\ \A u \in Turns \ {t} : told'[u] = told[u]
  BY <1>2 DEF ProviderFails, CutOff, Fail, TurnTypeOK
<1>6. Untouched(t) /\ (told'[t] = "cut" \/ ~called[t])
  <2>1. CASE ProviderFails(t)
    BY <1>2, <2>1 DEF ProviderFails, At, TurnOK, Fresh, Asking
  <2>2. CASE CutOff(t)
    <3>1. told'[t] = "cut"
      BY <1>2, <2>2 DEF CutOff, TurnTypeOK
    <3> QED
      BY <1>2, <2>2, <3>1 DEF CutOff, At, TurnOK, Fresh
  <2> QED
    BY <2>1, <2>2
<1>7. TurnOK(t)'
  BY <1>2, <1>3, <1>4, <1>6, Stopped
<1>8. OthersKept(t) /\ (faults' = 0 => faults = 0)
  BY <1>3, <1>4, <1>5 DEF OthersKept, turnVars, logVars
<1>9. TurnTypeOK'
  BY <1>2, <1>3, <1>4, <1>5 DEF TurnTypeOK, turnVars, logVars, kernelVars
<1> QED
  BY <1>7, <1>8, <1>9, AllTurns DEF TurnInv

\* Steps that leave no trace in the log: the kernel's, the line shown, the digest.
LEMMA QuietStep ==
  ASSUME TurnInv, NEW t \in Turns,
         \/ ReadKernel(t) \/ WriteMood(t) \/ RereadRelationship(t) \/ WriteTrust(t)
         \/ WriteRelationship(t) \/ Show(t) \/ Digest(t)
  PROVE  TurnInv'
<1>1. /\ path[t] # <<>> /\ Head(path[t]) \notin {"assistant", "note"} /\ Continue(t)
      /\ UNCHANGED <<turnVars, logVars, told, faults>>
  <2>1. CASE WriteMood(t)
    BY <2>1 DEF WriteMood, At
  <2> QED
    BY <2>1 DEF ReadKernel, RereadRelationship, WriteTrust, WriteRelationship, Show, Digest, At
<1>2. TurnTypeOK /\ TurnOK(t) /\ path \in [Turns -> Seq(Steps)]
  BY <1>1, UnderWay
<1>3. /\ path' \in [Turns -> Seq(Steps)] /\ \A u \in Turns \ {t} : path'[u] = path[u]
      /\ PathOK(t)' /\ \A x : ToDo(t, x)' <=> ToDo(t, x) /\ x # Head(path[t])
  BY <1>1, <1>2, OneDone DEF TurnOK, turnVars
<1>4. TurnOK(t)'
  BY <1>1, <1>2, <1>3, Quiet
<1>5. OthersKept(t) /\ (faults' = 0 => faults = 0)
  BY <1>1, <1>3 DEF OthersKept, turnVars, logVars
<1>6. KernelTypeOK'
  <2>1. KernelTypeOK
    BY <1>2 DEF TurnTypeOK, KernelTypeOK
  <2>2. Show(t) \/ Digest(t) => UNCHANGED kernelVars
    BY DEF Show, Digest
  <2> QED
    BY <2>1, <2>2, KernelTyped DEF kernelVars, KernelTypeOK
<1>7. TurnTypeOK'
  BY <1>1, <1>2, <1>3, <1>6 DEF TurnTypeOK, KernelTypeOK, turnVars, logVars
<1> QED
  BY <1>4, <1>5, <1>7, AllTurns DEF TurnInv

\* The steps that write to the log, the counter and the event log, and the answer.
LEMMA LoudStep ==
  ASSUME TurnInv, NEW t \in Turns,
         \/ StoreUser(t) \/ StoreAssistant(t) \/ Note(t) \/ AppendEvent(t) \/ Reply(t)
  PROVE  TurnInv'
<1> DEFINE h == Head(path[t])
<1>1. path[t] # <<>> /\ Continue(t) /\ UNCHANGED <<turnVars, kernelVars, faults>>
  BY DEF StoreUser, StoreAssistant, Note, AppendEvent, Reply, At
<1>2. /\ TurnTypeOK /\ TurnOK(t) /\ path \in [Turns -> Seq(Steps)] /\ ToDo(t, h)
      /\ surface[t] # "none" /\ surface[t] \in AllSurfaces /\ told[t] \in {"none", "done"}
  BY <1>1, UnderWay
<1>3. /\ path' \in [Turns -> Seq(Steps)] /\ path'[t] = Tail(path[t])
      /\ \A u \in Turns \ {t} : path'[u] = path[u]
      /\ PathOK(t)' /\ \A x : ToDo(t, x)' <=> ToDo(t, x) /\ x # h
  BY <1>1, <1>2, OneDone DEF TurnOK, turnVars
<1>4. /\ h \in {"user", "assistant", "note", "event", "reply"} => ~ToDo(t, "call")' /\ ~ToDo(t, "show")'
      /\ h \in {"user", "assistant", "note", "event"} /\ surface[t] = "voice" => ~ToDo(t, "reply")'
      /\ h \in {"assistant", "note", "event"} => ~ToDo(t, "user")'
      /\ h \in {"note", "event"} => ~ToDo(t, "assistant")'
      /\ h = "reply" /\ surface[t] \in {"text", "stream"} => ~ToDo(t, "assistant")'
  BY <1>1, <1>2, <1>3, Behind DEF TurnOK, PathOK, ToDo
<1>5. surface'[t] = surface[t] /\ (called'[t] <=> called[t]) /\ (AnswersLast(t)' <=> AnswersLast(t))
  BY <1>1 DEF turnVars, AnswersLast
<1> HIDE DEF h
<1>6. CASE StoreUser(t)
  <2>1. h = "user" /\ user' = user \cup {t} /\ UNCHANGED <<assistant, noted, events, told>>
    BY <1>6 DEF StoreUser, At, h
  <2>2. (NotBegun(t) /\ Fresh(t) /\ Asking(t) /\ Ended(t))'
    BY <1>2, <1>3, <1>4, <1>5, <2>1 DEF NotBegun, Fresh, Asking, Ended
  <2>3. (Keeping(t) /\ Counting(t) /\ Publishing(t) /\ Telling(t))'
    BY <1>2, <1>3, <1>5, <2>1 DEF TurnOK, Keeping, Counting, Publishing, Telling
  <2>4. Whole(t)'
    BY <1>1, <1>2, <1>3, <1>5, <2>1 DEF TurnOK, Keeping, Whole
  <2>5. TurnOK(t)'
    BY <1>3, <2>2, <2>3, <2>4 DEF TurnOK
  <2>6. OthersKept(t)
    BY <1>1, <1>3, <2>1 DEF OthersKept, turnVars
  <2>7. TurnTypeOK'
    BY <1>1, <1>2, <1>3, <2>1 DEF TurnTypeOK, turnVars, kernelVars
  <2> QED
    BY <1>1, <2>5, <2>6, <2>7, AllTurns DEF TurnInv
<1>7. CASE StoreAssistant(t)
  <2>1. h = "assistant" /\ assistant' = assistant \cup {t} /\ UNCHANGED <<user, noted, events, told>>
    BY <1>7 DEF StoreAssistant, At, h
  <2>2. (NotBegun(t) /\ Fresh(t) /\ Asking(t) /\ Ended(t))'
    BY <1>2, <1>3, <1>4, <1>5, <2>1 DEF NotBegun, Fresh, Asking, Ended
  <2>3. (Keeping(t) /\ Counting(t) /\ Publishing(t) /\ Telling(t))'
    BY <1>2, <1>3, <1>4, <1>5, <2>1 DEF TurnOK, Keeping, Counting, Publishing, Telling
  <2>4. Whole(t)'
    BY <1>1, <1>2, <1>3, <1>5, <2>1 DEF TurnOK, Whole
  <2>5. TurnOK(t)'
    BY <1>3, <2>2, <2>3, <2>4 DEF TurnOK
  <2>6. OthersKept(t)
    BY <1>1, <1>3, <2>1 DEF OthersKept, turnVars
  <2>7. TurnTypeOK'
    BY <1>1, <1>2, <1>3, <2>1 DEF TurnTypeOK, turnVars, kernelVars
  <2> QED
    BY <1>1, <2>5, <2>6, <2>7, AllTurns DEF TurnInv
<1>8. CASE Note(t)
  <2>1. h = "note" /\ noted' = noted \cup {t} /\ UNCHANGED <<user, assistant, events, told>>
    BY <1>8 DEF Note, At, h
  <2>2. (NotBegun(t) /\ Fresh(t) /\ Asking(t) /\ Ended(t))'
    BY <1>2, <1>3, <1>4, <1>5, <2>1 DEF NotBegun, Fresh, Asking, Ended
  <2>3. (Keeping(t) /\ Counting(t) /\ Publishing(t) /\ Telling(t))'
    BY <1>2, <1>3, <1>4, <1>5, <2>1 DEF TurnOK, Keeping, Counting, Publishing, Telling
  <2>4. Whole(t)'
    BY <1>1, <1>2, <1>3, <1>5, <2>1 DEF TurnOK, Whole
  <2>5. TurnOK(t)'
    BY <1>3, <2>2, <2>3, <2>4 DEF TurnOK
  <2>6. OthersKept(t)
    BY <1>1, <1>3, <2>1 DEF OthersKept, turnVars
  <2>7. TurnTypeOK'
    BY <1>1, <1>2, <1>3, <2>1 DEF TurnTypeOK, turnVars, kernelVars
  <2> QED
    BY <1>1, <2>5, <2>6, <2>7, AllTurns DEF TurnInv
<1>9. CASE AppendEvent(t)
  <2>1. h = "event" /\ events' = events \cup {t} /\ UNCHANGED <<user, assistant, noted, told>>
    BY <1>9 DEF AppendEvent, At, h
  <2>2. (NotBegun(t) /\ Fresh(t) /\ Asking(t) /\ Ended(t))'
    BY <1>2, <1>3, <1>4, <1>5, <2>1 DEF NotBegun, Fresh, Asking, Ended
  <2>3. (Keeping(t) /\ Counting(t) /\ Publishing(t) /\ Telling(t))'
    BY <1>2, <1>3, <1>4, <1>5, <2>1 DEF TurnOK, Keeping, Counting, Publishing, Telling
  <2>4. Whole(t)'
    BY <1>1, <1>2, <1>3, <1>5, <2>1 DEF TurnOK, Whole
  <2>5. TurnOK(t)'
    BY <1>3, <2>2, <2>3, <2>4 DEF TurnOK
  <2>6. OthersKept(t)
    BY <1>1, <1>3, <2>1 DEF OthersKept, turnVars
  <2>7. TurnTypeOK'
    BY <1>1, <1>2, <1>3, <2>1 DEF TurnTypeOK, turnVars, kernelVars
  <2> QED
    BY <1>1, <2>5, <2>6, <2>7, AllTurns DEF TurnInv
<1>10. CASE Reply(t)
  <2>1. h = "reply" /\ told' = [told EXCEPT ![t] = "done"] /\ UNCHANGED logVars
    BY <1>10 DEF Reply, At, h
  <2>2. /\ told' \in [Turns -> {"none", "done", "error", "cut"}] /\ told'[t] = "done"
        /\ \A u \in Turns \ {t} : told'[u] = told[u]
    BY <1>2, <2>1 DEF TurnTypeOK
  <2>3. (NotBegun(t) /\ Fresh(t) /\ Asking(t) /\ Ended(t))'
    BY <1>2, <1>3, <1>4, <1>5, <2>1, <2>2 DEF NotBegun, Fresh, Asking, Ended
  <2>4. (Keeping(t) /\ Counting(t) /\ Publishing(t) /\ Telling(t))'
    BY <1>2, <1>3, <1>4, <1>5, <2>1, <2>2 DEF TurnOK, Keeping, Counting, Publishing, Telling, AnswersLast, logVars
  <2>5. Whole(t)'
    <3>1. told[t] = "none"
      BY <1>2, <2>1 DEF TurnOK, Telling
    <3> QED
      BY <1>1, <1>2, <1>3, <1>5, <2>1, <2>2, <3>1 DEF TurnOK, Whole, logVars
  <2>6. TurnOK(t)'
    BY <1>3, <2>3, <2>4, <2>5 DEF TurnOK
  <2>7. OthersKept(t)
    BY <1>1, <1>3, <2>1, <2>2 DEF OthersKept, turnVars, logVars
  <2>8. TurnTypeOK'
    BY <1>1, <1>2, <1>3, <2>1, <2>2 DEF TurnTypeOK, turnVars, logVars, kernelVars
  <2> QED
    BY <1>1, <2>6, <2>7, <2>8, AllTurns DEF TurnInv
<1> QED
  BY <1>6, <1>7, <1>8, <1>9, <1>10

\* With a fault the store is no longer exact, but the rest of the invariant holds.
LEMMA FailStep ==
  ASSUME TurnInv, NEW t \in Turns, StoreCallFails(t)
  PROVE  TurnInv'
<1>1. path[t] # <<>> /\ UNCHANGED <<turnVars, logVars, kernelVars>> /\ faults' = faults + 1
  BY DEF StoreCallFails
<1>2. /\ TurnTypeOK /\ TurnOK(t) /\ path \in [Turns -> Seq(Steps)]
      /\ surface[t] # "none" /\ faults \in Nat
  BY <1>1, UnderWay DEF TurnTypeOK
<1>3. faults' \in Nat /\ faults' # 0
  BY <1>1, <1>2
<1>4. ASSUME path' \in [Turns -> Seq(Steps)], \A u \in Turns \ {t} : path'[u] = path[u],
             told' \in [Turns -> {"none", "done", "error", "cut"}],
             \A u \in Turns \ {t} : told'[u] = told[u], TurnOK(t)'
      PROVE  TurnInv'
  <2>1. OthersKept(t)
    BY <1>1, <1>4 DEF OthersKept, turnVars, logVars
  <2>2. TurnTypeOK'
    BY <1>1, <1>2, <1>3, <1>4 DEF TurnTypeOK, turnVars, logVars, kernelVars
  <2> QED
    BY <1>3, <1>4, <2>1, <2>2, AllTurns DEF TurnInv
<1>5. CASE GiveUpKernel(t) /\ UNCHANGED told
  <2>1. PICK n \in 1..Len(path[t]) :
          /\ \A k \in 1..Len(path[t]) : path[t][k] \in KernelParts <=> k <= n
          /\ Proceed(t, SubSeq(path[t], n + 1, Len(path[t])))
    BY <1>5 DEF GiveUpKernel
  <2> DEFINE q == SubSeq(path[t], n + 1, Len(path[t]))
  <2>2. Sound(surface[t], q) /\ Left(q) = Left(path[t]) \ KernelParts
    BY <1>2, <2>1, AfterKernel DEF TurnOK, PathOK
  <2> HIDE DEF q
  <2>3. q \in Seq(Steps) /\ Proceed(t, q)
    BY <2>1, <2>2 DEF Sound, q
  <2>4. path' \in [Turns -> Seq(Steps)] /\ path'[t] = q /\ \A u \in Turns \ {t} : path'[u] = path[u]
    BY <1>2, <2>3, Given
  <2>5. PathOK(t)' /\ \A x : ToDo(t, x)' <=> ToDo(t, x) /\ x \notin KernelParts
    BY <1>1, <2>2, <2>4 DEF PathOK, ToDo, turnVars
  <2>6. TurnOK(t)'
    BY <1>1, <1>2, <1>3, <1>5, <2>5, Quiet DEF KernelParts
  <2> QED
    BY <1>2, <1>4, <1>5, <2>4, <2>6 DEF TurnTypeOK
<1>6. CASE (At(t, "event") \/ At(t, "digest")) /\ Continue(t) /\ UNCHANGED told
  <2>1. /\ path' \in [Turns -> Seq(Steps)] /\ \A u \in Turns \ {t} : path'[u] = path[u]
        /\ PathOK(t)' /\ \A x : ToDo(t, x)' <=> ToDo(t, x) /\ x # Head(path[t])
    BY <1>1, <1>2, <1>6, OneDone DEF TurnOK, turnVars
  <2>2. TurnOK(t)'
    BY <1>1, <1>2, <1>3, <1>6, <2>1, Quiet DEF At
  <2> QED
    BY <1>2, <1>4, <1>6, <2>1, <2>2 DEF TurnTypeOK
<1>7. CASE Fail(t)
  <2>1. <<>> \in Seq(Steps)
    OBVIOUS
  <2>2. path' \in [Turns -> Seq(Steps)] /\ path'[t] = <<>> /\ \A u \in Turns \ {t} : path'[u] = path[u]
    BY <1>2, <1>7, <2>1, Given DEF Fail
  <2>3. told' \in [Turns -> {"none", "done", "error", "cut"}] /\ \A u \in Turns \ {t} : told'[u] = told[u]
    BY <1>2, <1>7 DEF Fail, TurnTypeOK
  <2>4. TurnOK(t)'
    BY <1>1, <1>2, <1>3, <2>2, Stopped
  <2> QED
    BY <1>4, <2>2, <2>3, <2>4
<1> QED
  BY <1>5, <1>6, <1>7 DEF StoreCallFails

LEMMA CrashStep ==
  ASSUME TurnInv, Crash
  PROVE  TurnInv'
<1>1. /\ UNCHANGED <<turnVars, logVars, told, kernelVars>> /\ faults' = faults + 1
      /\ path' = [t \in Turns |-> <<>>]
  BY DEF Crash
<1>2. TurnTypeOK /\ faults \in Nat
  BY DEF TurnInv, TurnTypeOK
<1>3. faults' \in Nat /\ faults' # 0
  BY <1>1, <1>2
<1>4. path' \in [Turns -> Seq(Steps)]
  <2>1. <<>> \in Seq(Steps)
    OBVIOUS
  <2> QED
    BY <1>1, <2>1
<1>5. TurnTypeOK'
  BY <1>1, <1>2, <1>3, <1>4 DEF TurnTypeOK, turnVars, logVars, kernelVars
<1>6. ASSUME NEW t \in Turns PROVE TurnOK(t)'
  BY <1>1, <1>3, Stopped DEF TurnInv
<1> QED
  BY <1>5, <1>6 DEF TurnInv

LEMMA TurnStarts == TurnInit => TurnInv
<1> SUFFICES ASSUME TurnInit PROVE TurnInv
  OBVIOUS
<1>1. <<>> \in Seq(Steps) /\ NoEffects \in Kernel
  BY DEF NoEffects, Kernel
<1>2. TurnTypeOK
  BY <1>1 DEF TurnInit, TurnTypeOK, AllInputs
<1>3. ASSUME NEW t \in Turns PROVE TurnOK(t)
  <2>1. PathOK(t) /\ \A x : ~ToDo(t, x)
    BY Nothing DEF TurnInit, PathOK, ToDo
  <2> QED
    BY <2>1 DEF TurnInit, TurnOK, NotBegun, Untouched, Fresh, Asking, Keeping, Counting,
                Publishing, Telling, Ended, Whole
<1> QED
  BY <1>2, <1>3 DEF TurnInv

LEMMA TurnStep == TurnInv /\ [TurnNext]_soulVars => TurnInv'
<1> SUFFICES ASSUME TurnInv, [TurnNext]_soulVars PROVE TurnInv'
  OBVIOUS
<1>1. ASSUME NEW t \in Turns, Begin(t) \/ Step(t) \/ CutOff(t) \/ StoreCallFails(t)
      PROVE  TurnInv'
  BY <1>1, BeginStep, AnswerStep, EndStep, QuietStep, LoudStep, FailStep DEF Step
<1>2. CASE UNCHANGED soulVars
  <2>1. TurnTypeOK'
    BY <1>2 DEF TurnInv, TurnTypeOK, soulVars
  <2>2. ASSUME NEW t \in Turns PROVE TurnOK(t)'
    BY <1>2, Undisturbed DEF TurnInv, soulVars
  <2> QED
    BY <2>1, <2>2 DEF TurnInv
<1> QED
  BY <1>1, <1>2, CrashStep DEF TurnNext

LEMMA TurnInvariant == TurnSpec => []TurnInv
BY TurnStarts, TurnStep, PTL DEF TurnSpec

\* The values the turns keep are of their types: whatever the surfaces, the
\* inputs and the failures, a path holds known steps and a verdict is a known one.
THEOREM TurnTypeCorrect == TurnSpec => []TurnTypeOK
<1>1. TurnInv => TurnTypeOK
  BY DEF TurnInv
<1> QED
  BY <1>1, TurnInvariant, PTL

\* What a turn leaves in the log is all of it or nothing and is counted, for any
\* number of turns on any surfaces, unless a store call failed: a provider that
\* fails, a client that goes away or a barge-in never leaves half a turn behind.
THEOREM WholeTurnsHold == TurnSpec => []LogHoldsWholeTurns
<1>1. TurnInv => LogHoldsWholeTurns
  <2> SUFFICES ASSUME TurnInv PROVE LogHoldsWholeTurns
    OBVIOUS
  <2>1. ASSUME faults = 0, NEW t \in Turns
        PROVE  /\ path[t] = <<>> /\ t \in user => t \in assistant
               /\ told[t] \in {"error", "cut"} => Untouched(t)
               /\ path[t] = <<>> /\ t \in assistant => (t \in noted <=> called[t])
    <3>1. TurnOK(t)
      BY DEF TurnInv
    <3>2. path[t] = <<>> => \A x : ~ToDo(t, x)
      BY Nothing DEF ToDo
    <3> QED
      BY <2>1, <3>1, <3>2 DEF TurnOK, Whole, Untouched
  <2> QED
    BY <2>1 DEF LogHoldsWholeTurns, NoHalfTurn, RefusedLeavesNothing, CountedAlike, Untouched
<1> QED
  BY <1>1, TurnInvariant, PTL

-----------------------------------------------------------------------------
(* The kernel rows *)

LEMMA HoldingAt ==
  ASSUME NEW t \in Turns
  PROVE  Holding(t) <=> path[t] # <<>> /\ Head(path[t]) \in Based
BY DEF Holding, At, Based

LEMMA SameRows ==
  ASSUME NEW a \in Kernel, NEW b \in Kernel,
         a.mood = b.mood, a.trust = b.trust, a.familiarity = b.familiarity
  PROVE  a = b
BY DEF Kernel

\* A turn that will write the rows after this step has just done the reading,
\* or the write before.
LEMMA NextBased ==
  ASSUME TurnInv, NEW t \in Turns, path[t] # <<>>, Continue(t), UNCHANGED surface
  PROVE  /\ Holding(t)' => Head(path'[t]) \in Based /\ Head(path[t]) = Basis[Head(path'[t])]
         /\ \A u \in Turns \ {t} : path'[u] = path[u]
<1>1. TurnOK(t) /\ path \in [Turns -> Seq(Steps)]
  BY UnderWay
<1>2. path'[t] = Tail(path[t]) /\ \A u \in Turns \ {t} : path'[u] = path[u]
  BY <1>1, OneDone DEF TurnOK
<1>3. Tail(path[t]) # <<>> /\ Head(Tail(path[t])) \in Based => Head(path[t]) = Basis[Head(Tail(path[t]))]
  BY <1>1, AfterHead DEF TurnOK, PathOK
<1>4. Holding(t)' => path'[t] # <<>> /\ Head(path'[t]) \in Based
  BY DEF Holding, At, Based
<1> QED
  BY <1>2, <1>3, <1>4

\* A step of a turn that leaves the rows alone and holds no reading afterwards.
LEMMA RowsKept ==
  ASSUME KernelInv, NEW t \in Turns, UNCHANGED kernelVars, ~Holding(t)',
         \A u \in Turns \ {t} : path'[u] = path[u]
  PROVE  KernelInv'
<1> SUFFICES ASSUME ~kernelRaced PROVE (kernel = applied)' /\ \A u \in Turns : Reading(u)'
  BY DEF KernelInv, kernelVars
<1>1. kernel = applied /\ \A u \in Turns : Reading(u)
  BY DEF KernelInv
<1>2. ASSUME NEW u \in Turns \ {t} PROVE Reading(u)'
  BY <1>1, <1>2 DEF Reading, Holding, At, kernelVars
<1>3. Reading(t)'
  BY DEF Reading
<1> QED
  BY <1>1, <1>2, <1>3 DEF kernelVars

\* A write over exact rows leaves them exact.
LEMMA RowsWritten ==
  ASSUME KernelInv, KernelTypeOK', NEW t \in Turns, NEW new, NEW effects, WriteKernel(t, new, effects),
         \A u \in Turns \ {t} : path'[u] = path[u],
         UNCHANGED snap,
         ~kernelRaced => /\ new.mood = kernel.mood \cup effects.mood
                         /\ new.trust = kernel.trust \cup effects.trust
                         /\ new.familiarity = kernel.familiarity \cup effects.familiarity
                         /\ Reading(t)'
  PROVE  KernelInv'
<1> SUFFICES ASSUME ~kernelRaced' PROVE (kernel = applied)' /\ \A u \in Turns : Reading(u)'
  BY DEF KernelInv
<1>1. ~kernelRaced /\ \A u \in Turns \ {t} : ~Holding(u)
  BY DEF WriteKernel
<1>2. kernel = applied
  BY <1>1 DEF KernelInv
<1>3. kernel' \in Kernel /\ applied' \in Kernel
  BY DEF KernelTypeOK
<1>4. /\ kernel'.mood = applied'.mood /\ kernel'.trust = applied'.trust
      /\ kernel'.familiarity = applied'.familiarity
  BY <1>2 DEF WriteKernel
<1>5. kernel' = applied'
  BY <1>3, <1>4, SameRows
<1>6. ASSUME NEW u \in Turns \ {t} PROVE Reading(u)'
  BY <1>1, <1>6 DEF Reading, Holding, At
<1> QED
  BY <1>1, <1>5, <1>6

\* The actions over the rows.
LEMMA RowStep ==
  ASSUME TurnInv, TurnInv', KernelInv, NEW t \in Turns,
         \/ ReadKernel(t) \/ WriteMood(t) \/ RereadRelationship(t)
         \/ WriteTrust(t) \/ WriteRelationship(t)
  PROVE  KernelInv'
<1>1. path[t] # <<>> /\ Continue(t) /\ UNCHANGED surface
  <2>1. CASE WriteMood(t)
    BY <2>1 DEF WriteMood, At, turnVars
  <2> QED
    BY <2>1 DEF ReadKernel, RereadRelationship, WriteTrust, WriteRelationship, At, turnVars
<1>2. /\ Holding(t)' => Head(path'[t]) \in Based /\ Head(path[t]) = Basis[Head(path'[t])]
      /\ \A u \in Turns \ {t} : path'[u] = path[u]
  BY <1>1, NextBased
<1>3. /\ KernelTypeOK' /\ kernel \in Kernel /\ applied \in Kernel
      /\ snap \in [Turns -> Kernel] /\ snap[t] \in Kernel
  BY DEF TurnInv, TurnTypeOK, KernelTypeOK
<1>4. ~kernelRaced /\ Holding(t) =>
        /\ snap[t].trust = kernel.trust /\ snap[t].familiarity = kernel.familiarity
        /\ At(t, "mood") \/ At(t, "kernelMood") => snap[t].mood = kernel.mood
  BY DEF KernelInv, Reading
<1>5. CASE ReadKernel(t)
  <2>1. snap'[t] = kernel' /\ \A u \in Turns \ {t} : snap'[u] = snap[u]
    BY <1>3, <1>5 DEF ReadKernel
  <2>2. Reading(t)'
    BY <2>1 DEF Reading
  <2>3. ASSUME ~kernelRaced, NEW u \in Turns \ {t} PROVE Reading(u)'
    BY <1>2, <1>5, <2>1, <2>3 DEF ReadKernel, KernelInv, Reading, Holding, At
  <2> QED
    BY <1>5, <2>2, <2>3 DEF ReadKernel, KernelInv
<1>6. CASE RereadRelationship(t)
  <2>1. At(t, "rel") /\ Holding(t)
    BY <1>6 DEF RereadRelationship, Holding
  <2>2. snap'[t] = [snap[t] EXCEPT !.familiarity = kernel.familiarity]
    BY <1>3, <1>6 DEF RereadRelationship
  <2>3. snap'[t].trust = snap[t].trust /\ snap'[t].familiarity = kernel.familiarity
    BY <1>3, <2>2 DEF Kernel
  <2>4. \A u \in Turns \ {t} : snap'[u] = snap[u]
    BY <1>3, <1>6 DEF RereadRelationship
  <2>5. ~At(t, "mood")' /\ ~At(t, "kernelMood")'
    BY <1>2, <2>1, HoldingAt DEF At, Holding, Basis
  <2>6. ~kernelRaced => Reading(t)'
    BY <1>4, <1>6, <2>1, <2>3, <2>5 DEF Reading, RereadRelationship
  <2>7. ASSUME ~kernelRaced, NEW u \in Turns \ {t} PROVE Reading(u)'
    BY <1>2, <1>6, <2>4, <2>7 DEF RereadRelationship, KernelInv, Reading, Holding, At
  <2> QED
    BY <1>6, <2>6, <2>7 DEF RereadRelationship, KernelInv
<1>7. CASE WriteMood(t)
  <2>1. PICK e \in {<<t, "message">>, <<t, "signals">>} :
          /\ At(t, IF e[2] = "message" THEN "mood" ELSE "kernelMood")
          /\ WriteKernel(t, [kernel EXCEPT !.mood = snap[t].mood \cup {e}], [NoEffects EXCEPT !.mood = {e}])
          /\ UNCHANGED snap
    BY <1>7 DEF WriteMood
  <2> DEFINE new == [kernel EXCEPT !.mood = snap[t].mood \cup {e}]
             effects == [NoEffects EXCEPT !.mood = {e}]
  <2>2. At(t, "mood") \/ At(t, "kernelMood")
    BY <2>1
  <2>3. Holding(t)
    BY <2>2 DEF Holding
  <2>4. /\ new.mood = snap[t].mood \cup {e} /\ new.trust = kernel.trust
        /\ new.familiarity = kernel.familiarity
        /\ effects.mood = {e} /\ effects.trust = {} /\ effects.familiarity = {}
    BY <1>3 DEF Kernel, NoEffects
  <2>5. kernel' = new /\ UNCHANGED snap
    BY <2>1 DEF WriteKernel
  <2> HIDE DEF new, effects
  <2>6. ~At(t, "mood")' /\ ~At(t, "kernelMood")'
    BY <1>2, <2>2, HoldingAt DEF At, Holding, Basis
  <2>7. ~kernelRaced => Reading(t)'
    BY <1>4, <2>3, <2>4, <2>5, <2>6 DEF Reading
  <2>8. WriteKernel(t, new, effects)
    BY <2>1 DEF new, effects
  <2> QED
    BY <1>2, <1>3, <1>4, <2>2, <2>3, <2>4, <2>5, <2>7, <2>8, RowsWritten
<1>8. CASE WriteTrust(t)
  <2> DEFINE new == [kernel EXCEPT !.trust = snap[t].trust \cup {<<t, "message">>},
                                   !.familiarity = snap[t].familiarity]
             effects == [NoEffects EXCEPT !.trust = {<<t, "message">>}]
  <2>1. At(t, "relWrite") /\ WriteKernel(t, new, effects) /\ UNCHANGED snap
    BY <1>8 DEF WriteTrust
  <2>2. /\ new.mood = kernel.mood /\ new.trust = snap[t].trust \cup {<<t, "message">>}
        /\ new.familiarity = snap[t].familiarity
        /\ effects.mood = {} /\ effects.trust = {<<t, "message">>} /\ effects.familiarity = {}
    BY <1>3 DEF Kernel, NoEffects
  <2> HIDE DEF new, effects
  <2>3. Holding(t) /\ ~Holding(t)'
    BY <1>2, <2>1 DEF At, Holding, Based, Basis
  <2> QED
    BY <1>2, <1>3, <1>4, <2>1, <2>2, <2>3, RowsWritten DEF Reading
<1>9. CASE WriteRelationship(t)
  <2> DEFINE new == [kernel EXCEPT !.trust = snap[t].trust \cup {<<t, "signals">>},
                                   !.familiarity = snap[t].familiarity \cup {t}]
             effects == [NoEffects EXCEPT !.trust = {<<t, "signals">>}, !.familiarity = {t}]
  <2>1. At(t, "kernelRel") /\ WriteKernel(t, new, effects) /\ UNCHANGED snap
    BY <1>9 DEF WriteRelationship
  <2>2. /\ new.mood = kernel.mood /\ new.trust = snap[t].trust \cup {<<t, "signals">>}
        /\ new.familiarity = snap[t].familiarity \cup {t}
        /\ effects.mood = {} /\ effects.trust = {<<t, "signals">>} /\ effects.familiarity = {t}
    BY <1>3 DEF Kernel, NoEffects
  <2> HIDE DEF new, effects
  <2>3. Holding(t) /\ ~Holding(t)'
    BY <1>2, <2>1 DEF At, Holding, Based, Basis
  <2> QED
    BY <1>2, <1>3, <1>4, <2>1, <2>2, <2>3, RowsWritten DEF Reading
<1> QED
  BY <1>5, <1>6, <1>7, <1>8, <1>9

LEMMA KernelStep == TurnInv /\ TurnInv' /\ KernelInv /\ [TurnNext]_soulVars => KernelInv'
<1> SUFFICES ASSUME TurnInv, TurnInv', KernelInv, [TurnNext]_soulVars PROVE KernelInv'
  OBVIOUS
<1>1. path \in [Turns -> Seq(Steps)]
  BY DEF TurnInv, TurnTypeOK
<1>2. ASSUME NEW t \in Turns, NEW p \in Seq(Steps), Proceed(t, p), p # <<>> => Head(p) \notin Based,
             UNCHANGED kernelVars
      PROVE  KernelInv'
  <2>1. path'[t] = p /\ \A u \in Turns \ {t} : path'[u] = path[u]
    BY <1>1, <1>2, Given
  <2>2. ~Holding(t)'
    BY <1>2, <2>1 DEF Holding, At, Based
  <2> QED
    BY <1>2, <2>1, <2>2, RowsKept
<1>3. ASSUME NEW t \in Turns, path[t] # <<>>, Continue(t), UNCHANGED <<surface, kernelVars>>,
             Head(path[t]) \notin {"state", "mood", "rel", "kernel", "kernelMood"}
      PROVE  KernelInv'
  <2>1. /\ Holding(t)' => Head(path'[t]) \in Based /\ Head(path[t]) = Basis[Head(path'[t])]
        /\ \A u \in Turns \ {t} : path'[u] = path[u]
    BY <1>3, NextBased
  <2>2. ~Holding(t)'
    BY <1>3, <2>1 DEF Based, Basis
  <2> QED
    BY <1>3, <2>1, <2>2, RowsKept
<1>4. <<>> \in Seq(Steps)
  OBVIOUS
<1>5. ASSUME NEW t \in Turns, Begin(t) PROVE KernelInv'
  <2>1. PICK s \in Surfaces, i \in Inputs : Proceed(t, FirstSteps(s, i))
    BY <1>5 DEF Begin
  <2>2. s \in AllSurfaces
    BY InputsAssumption
  <2>3. /\ FirstSteps(s, i) \in Seq(Steps) /\ Head(FirstSteps(s, i)) = "state"
    BY <2>2, First DEF Sound
  <2> QED
    BY <1>2, <1>5, <2>1, <2>3 DEF Begin, Based
<1>6. ASSUME NEW t \in Turns, ModelAnswers(t) \/ AnswerLocally(t) PROVE KernelInv'
  <2>1. surface[t] \in AllSurfaces
    BY <1>6, UnderWay DEF ModelAnswers, AnswerLocally, At
  <2>2. /\ ReplySteps(surface[t], input[t]) \in Seq(Steps) /\ Head(ReplySteps(surface[t], input[t])) \notin Based
    BY <2>1, Replying DEF Sound
  <2>3. /\ LocalSteps(surface[t], input[t]) \in Seq(Steps) /\ Head(LocalSteps(surface[t], input[t])) \notin Based
    BY <2>1, Local DEF Sound
  <2> QED
    BY <1>2, <1>6, <2>2, <2>3 DEF ModelAnswers, AnswerLocally
<1>7. ASSUME NEW t \in Turns, ProviderFails(t) \/ CutOff(t) PROVE KernelInv'
  BY <1>2, <1>4, <1>7 DEF ProviderFails, CutOff, Fail
<1>8. ASSUME NEW t \in Turns,
             \/ Show(t) \/ Reply(t) \/ StoreUser(t) \/ StoreAssistant(t)
             \/ Digest(t) \/ Note(t) \/ AppendEvent(t)
      PROVE  KernelInv'
  BY <1>3, <1>8 DEF Show, Reply, StoreUser, StoreAssistant, Digest, Note, AppendEvent, At, turnVars
<1>9. ASSUME NEW t \in Turns, StoreCallFails(t) PROVE KernelInv'
  <2>1. path[t] # <<>> /\ UNCHANGED <<turnVars, kernelVars>>
    BY <1>9 DEF StoreCallFails
  <2>2. CASE GiveUpKernel(t)
    <3>1. PICK n \in 1..Len(path[t]) :
            /\ \A k \in 1..Len(path[t]) : path[t][k] \in KernelParts <=> k <= n
            /\ Proceed(t, SubSeq(path[t], n + 1, Len(path[t])))
      BY <2>2 DEF GiveUpKernel
    <3> DEFINE q == SubSeq(path[t], n + 1, Len(path[t]))
    <3>2. Sound(surface[t], path[t])
      BY <2>1, UnderWay DEF TurnOK, PathOK
    <3>3. Sound(surface[t], q) /\ (q # <<>> => Head(q) \notin Based)
      BY <3>1, <3>2, AfterKernel
    <3>4. Proceed(t, q)
      BY <3>1
    <3> HIDE DEF q
    <3> QED
      BY <1>2, <2>1, <3>3, <3>4 DEF Sound
  <2>3. CASE (At(t, "event") \/ At(t, "digest")) /\ Continue(t)
    BY <1>3, <2>1, <2>3 DEF At, turnVars
  <2>4. CASE Fail(t)
    BY <1>2, <1>4, <2>1, <2>4 DEF Fail
  <2> QED
    BY <1>9, <2>2, <2>3, <2>4 DEF StoreCallFails
<1>10. CASE Crash
  <2>1. path' = [t \in Turns |-> <<>>] /\ UNCHANGED kernelVars
    BY <1>10 DEF Crash
  <2>2. \A t \in Turns : ~Holding(t)'
    BY <2>1 DEF Holding, At
  <2> QED
    BY <2>1, <2>2 DEF KernelInv, Reading, kernelVars
<1>11. CASE UNCHANGED soulVars
  BY <1>11 DEF KernelInv, Reading, Holding, At, soulVars
<1> QED
  BY <1>5, <1>6, <1>7, <1>8, <1>9, <1>10, <1>11, RowStep DEF TurnNext, Step

\* No effect of a message or of its signals is lost from mood or relationship,
\* for any number of turns, unless two turns held the rows at the same time: the
\* lost update needs an overlap of readings, no other order of steps loses one.
THEOREM KernelExactHolds == TurnSpec => []KernelExactUnlessRaced
<1>1. TurnInit => KernelInv
  BY DEF TurnInit, KernelInv, Reading, Holding, At
<1>2. KernelInv => KernelExactUnlessRaced
  BY DEF KernelInv, KernelExactUnlessRaced
<1> QED
  BY <1>1, <1>2, TurnInvariant, KernelStep, PTL DEF TurnSpec

-----------------------------------------------------------------------------
(* The promise *)

\* The first steps of the promise.
LEMMA PromiseStarts == TurnInit => Promised!PromiseInit
BY DEF TurnInit, Promised!PromiseInit

\* Every step of a turn is a step of the promise, or changes nothing it speaks of.
LEMMA PromiseStep ==
  TurnInv /\ [TurnNext]_soulVars => [Promised!PromiseNext]_(Promised!promiseVars)
<1> SUFFICES ASSUME TurnInv, [TurnNext]_soulVars
             PROVE  Promised!PromiseNext \/ UNCHANGED Promised!promiseVars
  OBVIOUS
<1> DEFINE same == UNCHANGED <<surface, assistant, noted, events, told>>
<1>1. same => UNCHANGED Promised!promiseVars
  BY DEF Promised!promiseVars
<1> HIDE DEF same
<1>2. ASSUME NEW t \in Turns, Begin(t) PROVE Promised!PromiseNext
  <2>1. Promised!Open(t)
    BY <1>2 DEF Begin, Promised!Open, logVars
  <2> QED
    BY <2>1 DEF Promised!PromiseNext
<1>3. ASSUME NEW t \in Turns,
             \/ ReadKernel(t) \/ WriteMood(t) \/ RereadRelationship(t) \/ WriteTrust(t)
             \/ WriteRelationship(t) \/ ModelAnswers(t) \/ AnswerLocally(t)
             \/ Show(t) \/ StoreUser(t) \/ Digest(t)
      PROVE  same
  <2>1. CASE WriteMood(t)
    BY <2>1 DEF WriteMood, turnVars, logVars, same
  <2> QED
    BY <1>3, <2>1 DEF ReadKernel, RereadRelationship, WriteTrust, WriteRelationship, ModelAnswers,
                      AnswerLocally, Show, StoreUser, Digest, turnVars, logVars, same
<1>4. ASSUME NEW t \in Turns, path[t] # <<>>, Head(path[t]) \in {"assistant", "note", "event", "reply"}
      PROVE  /\ TurnOK(t) /\ surface[t] # "none" /\ ToDo(t, Head(path[t]))
             /\ Head(path[t]) \in {"note", "event"} => ~(ToDo(t, "assistant"))
             /\ Head(path[t]) = "reply" /\ AnswersLast(t) => ~(ToDo(t, "assistant"))
  <2>1. TurnOK(t) /\ surface[t] # "none" /\ ToDo(t, Head(path[t]))
    BY <1>4, UnderWay
  <2>2. Left(Tail(path[t])) = Left(path[t]) \ {Head(path[t])}
    BY <1>4, <2>1, AfterHead DEF TurnOK, PathOK
  <2> QED
    BY <1>4, <2>1, <2>2, Behind DEF TurnOK, PathOK, ToDo, AnswersLast
<1>5. ASSUME NEW t \in Turns, StoreAssistant(t) PROVE Promised!PromiseNext
  <2>1. path[t] # <<>> /\ Head(path[t]) = "assistant"
    BY <1>5 DEF StoreAssistant, At
  <2>2. /\ surface[t] # "none" /\ t \notin assistant
        /\ told[t] \in (IF surface[t] \in {"text", "stream"} THEN {"none"} ELSE {"none", "done"})
    BY <1>4, <2>1 DEF TurnOK, Keeping, AnswersLast
  <2>3. Promised!Keep(t)
    BY <1>5, <2>2 DEF StoreAssistant, Promised!Keep, turnVars
  <2> QED
    BY <2>3 DEF Promised!PromiseNext
<1>6. ASSUME NEW t \in Turns, Note(t) PROVE Promised!PromiseNext
  <2>1. path[t] # <<>> /\ Head(path[t]) = "note"
    BY <1>6 DEF Note, At
  <2>2. t \in assistant /\ t \notin noted
    BY <1>4, <2>1 DEF TurnOK, Counting
  <2>3. Promised!Count(t)
    BY <1>6, <2>2 DEF Note, Promised!Count, turnVars
  <2> QED
    BY <2>3 DEF Promised!PromiseNext
<1>7. ASSUME NEW t \in Turns, AppendEvent(t) PROVE Promised!PromiseNext
  <2>1. path[t] # <<>> /\ Head(path[t]) = "event"
    BY <1>7 DEF AppendEvent, At
  <2>2. t \in assistant /\ t \notin events
    BY <1>4, <2>1 DEF TurnOK, Publishing
  <2>3. Promised!Publish(t)
    BY <1>7, <2>2 DEF AppendEvent, Promised!Publish, turnVars
  <2> QED
    BY <2>3 DEF Promised!PromiseNext
<1>8. ASSUME NEW t \in Turns, Reply(t) PROVE Promised!PromiseNext
  <2>1. path[t] # <<>> /\ Head(path[t]) = "reply"
    BY <1>8 DEF Reply, At
  <2>2. /\ surface[t] # "none" /\ told[t] = "none"
        /\ surface[t] \in {"text", "stream"} => t \in assistant
    BY <1>4, <2>1 DEF TurnOK, Telling, AnswersLast
  <2>3. Promised!Tell(t)
    BY <1>8, <2>2 DEF Reply, Promised!Tell, turnVars, logVars
  <2> QED
    BY <2>3 DEF Promised!PromiseNext
<1>9. ASSUME NEW t \in Turns, path[t] # <<>>, Fail(t), UNCHANGED <<turnVars, logVars>>
      PROVE  Promised!PromiseNext \/ same
  <2>1. CASE told[t] = "none" /\ surface[t] # "rtc"
    <3>1. surface[t] # "none" /\ told' = [told EXCEPT ![t] = "error"]
      BY <1>9, <2>1, UnderWay DEF Fail
    <3>2. Promised!Tell(t)
      BY <1>9, <2>1, <3>1 DEF Promised!Tell, turnVars, logVars
    <3> QED
      BY <3>2 DEF Promised!PromiseNext
  <2>2. CASE ~(told[t] = "none" /\ surface[t] # "rtc")
    BY <1>9, <2>2 DEF Fail, same, turnVars, logVars
  <2> QED
    BY <2>1, <2>2
<1>10. ASSUME NEW t \in Turns, CutOff(t) PROVE Promised!PromiseNext
  <2>1. path[t] # <<>> /\ told' = [told EXCEPT ![t] = "cut"] /\ UNCHANGED <<turnVars, logVars>>
    BY <1>10 DEF CutOff, At
  <2>2. TurnOK(t) /\ surface[t] # "none" /\ ToDo(t, Head(path[t]))
    BY <2>1, UnderWay
  <2>3. told[t] = "none" /\ t \notin assistant
    BY <1>10, <2>2 DEF CutOff, At, TurnOK, Fresh, Untouched
  <2>4. Promised!Tell(t)
    BY <2>1, <2>2, <2>3 DEF Promised!Tell, turnVars, logVars
  <2> QED
    BY <2>4 DEF Promised!PromiseNext
<1>11. ASSUME NEW t \in Turns, ProviderFails(t) PROVE Promised!PromiseNext \/ same
  BY <1>9, <1>11 DEF ProviderFails, At
<1>12. ASSUME NEW t \in Turns, StoreCallFails(t) PROVE Promised!PromiseNext \/ same
  <2>1. path[t] # <<>> /\ UNCHANGED <<turnVars, logVars>> /\ (UNCHANGED told \/ Fail(t))
    BY <1>12 DEF StoreCallFails
  <2>2. UNCHANGED told => same
    BY <2>1 DEF same, turnVars, logVars
  <2> QED
    BY <1>9, <2>1, <2>2
<1>13. Crash \/ UNCHANGED soulVars => same
  BY DEF Crash, soulVars, same, turnVars, logVars
<1> QED
  BY <1>1, <1>2, <1>3, <1>5, <1>6, <1>7, <1>8, <1>10, <1>11, <1>12, <1>13 DEF TurnNext, Step

\* Turns implement the promise of TurnPromise on every surface, whatever fails:
\* a reply is stored at most once and never after an error or a cut, only a stored
\* turn is counted or published, and a text client told "done" has its reply stored.
THEOREM PromiseKept == TurnSpec => KeepsPromise
BY PromiseStarts, PromiseStep, TurnInvariant, PTL DEF TurnSpec, KeepsPromise, Promised!Promise

-----------------------------------------------------------------------------
(* The rows of the log *)

\* The log only holds ids already given out, and every id a summarizer or a
\* summary mentions is one of them.
TypeInv ==
  /\ TypeOK
  /\ IsFiniteSet(summaries)
  /\ \A c \in chat : 0 < c /\ c < nextId
  /\ \A s \in summaries : s.last < nextId
  /\ \A t \in Summarizers : covered[t] < nextId
  /\ \A t \in Summarizers : batch[t].last < nextId

LEMMA TypeStep == TypeInv /\ [Next]_vars => TypeInv'
  <2> SUFFICES ASSUME TypeInv, [Next]_vars PROVE TypeInv'
    OBVIOUS
  <2> USE DEF TypeInv, TypeOK, Location, Goto
  <2>1. CASE AppendChat
    BY <2>1 DEF AppendChat, Summary, Extent
  <2>2. CASE AppendTick
    BY <2>2 DEF AppendTick, Summary, Extent
  <2>3. ASSUME NEW t \in Summarizers, Start(t) PROVE TypeInv'
    BY <2>3 DEF Start
  <2>4. ASSUME NEW t \in Summarizers, ReadBound(t) PROVE TypeInv'
    BY <2>4 DEF ReadBound
  <2>5. ASSUME NEW t \in Summarizers, ReadLatest(t) PROVE TypeInv'
    BY <2>5 DEF ReadLatest, Summary
  <2>6. ASSUME NEW t \in Summarizers, ListBatch(t) PROVE TypeInv'
    <3>1. CASE UNCHANGED batch
      BY <2>6, <3>1 DEF ListBatch
    <3>2. ASSUME NEW f \in chat, NEW l \in chat,
                 batch' = [batch EXCEPT ![t] = [first |-> f, last |-> l]]
          PROVE  TypeInv'
      <4>1. [first |-> f, last |-> l] \in Extent /\ l < nextId
        BY DEF Extent
      <4>2. batch' \in [Summarizers -> Extent]
        BY <3>2, <4>1
      <4>3. \A u \in Summarizers : batch'[u].last < nextId
        BY <3>2, <4>1
      <4>4. QED BY <2>6, <4>2, <4>3 DEF ListBatch
    <3>3. QED BY <2>6, <3>1, <3>2 DEF ListBatch, Older
  <2>7. ASSUME NEW t \in Summarizers, Write(t) PROVE TypeInv'
    <3> DEFINE new == [id |-> Cardinality(summaries) + 1,
                       first |-> batch[t].first, last |-> batch[t].last]
    <3>1. batch[t] \in Extent /\ batch[t].last < nextId
      OBVIOUS
    <3>2. Cardinality(summaries) \in Nat
      BY FS_CardinalityType
    <3>3. new \in Summary /\ new.last < nextId
      BY <3>1, <3>2 DEF Extent, Summary
    <3>4. summaries' = summaries \cup {new}
      BY <2>7 DEF Write
    <3>5. IsFiniteSet(summaries')
      <4> HIDE DEF new
      <4>1. IsFiniteSet(summaries)
        OBVIOUS
      <4>2. QED BY <3>4, <4>1, FS_AddElement
    <3>6. summaries' \in SUBSET Summary /\ \A s \in summaries' : s.last < nextId
      BY <3>3, <3>4
    <3>7. pc' \in [Summarizers -> Location]
      BY <2>7 DEF Write
    <3>8. QED BY <2>7, <3>5, <3>6, <3>7 DEF Write
  <2>8. ASSUME NEW t \in Summarizers, Abandon(t) PROVE TypeInv'
    BY <2>8 DEF Abandon
  <2>9. CASE UNCHANGED vars
    BY <2>9 DEF vars
  <2>10. QED
    BY <2>1, <2>2, <2>3, <2>4, <2>5, <2>6, <2>7, <2>8, <2>9 DEF Next, Run

LEMMA TypeInit == Init => TypeInv
<1>1. ASSUME Init PROVE TypeInv
  <2>1. batch \in [Summarizers -> Extent] /\ \A t \in Summarizers : batch[t].last = 0
    BY <1>1 DEF Init, Extent
  <2>2. IsFiniteSet(summaries)
    BY <1>1, FS_EmptySet DEF Init
  <2>3. TypeOK
    <3>1. pc \in [Summarizers -> Location] /\ raced \in BOOLEAN
      BY <1>1 DEF Init, Location
    <3>2. lower \in [Summarizers -> Nat] /\ covered \in [Summarizers -> Nat]
      BY <1>1 DEF Init
    <3>3. chat \in SUBSET Nat /\ summaries \in SUBSET Summary
          /\ nextId \in Nat \ {0}
      BY <1>1 DEF Init
    <3>4. QED BY <2>1, <3>1, <3>2, <3>3 DEF TypeOK
  <2>4. QED BY <1>1, <2>1, <2>2, <2>3 DEF Init, TypeInv
<1>2. QED BY <1>1

LEMMA TypeInductive == Spec => []TypeInv
  BY TypeInit, TypeStep, PTL DEF Spec

\* Every value stays of its type.
THEOREM TypeCorrect == Spec => []TypeOK
  BY TypeInductive, PTL DEF TypeInv

-----------------------------------------------------------------------------
(* No gap *)

CoveredIn(C, S, b) == \A c \in C : c <= b => \E s \in S : Covers(s, c)

\* The rows are covered without a gap up to the end of each summary, up to the
\* point each summarizer has read, and between that point and its batch there
\* is no row.
GapInv ==
  /\ \A s \in summaries : CoveredIn(chat, summaries, s.last)
  /\ \A t \in Summarizers :
       pc[t] \in {"list", "write"} => CoveredIn(chat, summaries, covered[t])
  /\ \A t \in Summarizers : pc[t] = "write" =>
       \A c \in chat : c <= batch[t].last => c <= covered[t] \/ batch[t].first <= c

\* Whatever a step does to the log and the summaries, covered stays covered.
LEMMA CoverageKept ==
  ASSUME TypeInv, [Next]_vars
  PROVE  \A b \in Nat :
           b < nextId /\ CoveredIn(chat, summaries, b) => CoveredIn(chat', summaries', b)
<1>1. summaries \subseteq summaries'
  BY DEF Next, Run, vars, AppendChat, AppendTick, Start, ReadBound, ReadLatest,
     ListBatch, Write, Abandon
<1>2. \A c \in chat' : c \in chat \/ c = nextId
  BY DEF Next, Run, vars, AppendChat, AppendTick, Start, ReadBound, ReadLatest,
     ListBatch, Write, Abandon
<1>3. SUFFICES ASSUME NEW b \in Nat, b < nextId, CoveredIn(chat, summaries, b),
                      NEW c \in chat', c <= b
               PROVE  \E s \in summaries' : Covers(s, c)
  BY DEF CoveredIn
<1>4. c \in chat
  BY <1>2, <1>3 DEF TypeInv, TypeOK
<1>5. QED
  BY <1>1, <1>3, <1>4 DEF CoveredIn

\* The part of GapInv about one summarizer.
GapAt(t) ==
  /\ pc[t] \in {"list", "write"} => CoveredIn(chat, summaries, covered[t])
  /\ pc[t] = "write" =>
       \A c \in chat : c <= batch[t].last => c <= covered[t] \/ batch[t].first <= c

\* A step that leaves a summarizer alone, or sends it back to its start, keeps
\* its part: rows that appear later have larger ids than its batch.
LEMMA GapAtKept ==
  ASSUME TypeInv, [Next]_vars, NEW t \in Summarizers, GapAt(t),
         pc'[t] = pc[t] \/ pc'[t] \notin {"list", "write"},
         covered'[t] = covered[t], batch'[t] = batch[t]
  PROVE  GapAt(t)'
<1>1. covered[t] \in Nat /\ covered[t] < nextId /\ batch[t].last < nextId
  BY DEF TypeInv, TypeOK
<1>2. \A c \in chat' : c \in chat \/ c = nextId
  BY DEF Next, Run, vars, AppendChat, AppendTick, Start, ReadBound, ReadLatest,
     ListBatch, Write, Abandon
<1>3. nextId \in Nat /\ batch[t].last \in Nat
  BY DEF TypeInv, TypeOK, Extent
<1>4. pc'[t] \in {"list", "write"} => CoveredIn(chat', summaries', covered'[t])
  BY <1>1, CoverageKept DEF GapAt
<1>5. ASSUME pc'[t] = "write", NEW c \in chat', c <= batch'[t].last
      PROVE  c <= covered'[t] \/ batch'[t].first <= c
  <2>1. c \in chat
    BY <1>1, <1>2, <1>3, <1>5
  <2>2. QED BY <1>5, <2>1 DEF GapAt
<1>6. QED
  BY <1>4, <1>5 DEF GapAt

LEMMA GapStep == TypeInv /\ GapInv /\ [Next]_vars => GapInv'
<1> SUFFICES ASSUME TypeInv, GapInv, [Next]_vars PROVE GapInv'
  OBVIOUS
<1> DEFINE Ends == \A s \in summaries' : CoveredIn(chat', summaries', s.last)
           KeptFor(t) == GapAt(t)'
<1>1. SUFFICES Ends /\ \A t \in Summarizers : KeptFor(t)
  BY DEF GapInv, GapAt
<1>2. \A t \in Summarizers : GapAt(t)
  BY DEF GapInv, GapAt
<1>3. \A s \in summaries : CoveredIn(chat', summaries', s.last)
  BY CoverageKept DEF GapInv, TypeInv, TypeOK, Summary
<1>4. ASSUME summaries' = summaries PROVE Ends
  BY <1>3, <1>4
<1>5. ASSUME NEW t \in Summarizers,
             pc'[t] = pc[t] \/ pc'[t] \notin {"list", "write"},
             covered'[t] = covered[t], batch'[t] = batch[t]
      PROVE  KeptFor(t)
  BY <1>2, <1>5, GapAtKept
<1> HIDE DEF Ends, KeptFor
<1> USE DEF TypeInv, TypeOK
<1>6. CASE AppendChat \/ AppendTick \/ UNCHANGED vars
  BY <1>4, <1>5, <1>6 DEF AppendChat, AppendTick, vars
<1>7. CASE \E t \in Summarizers : Start(t) \/ ReadBound(t) \/ Abandon(t)
  BY <1>4, <1>5, <1>7 DEF Start, ReadBound, Abandon, Goto
<1>8. ASSUME NEW t \in Summarizers, ReadLatest(t) PROVE Ends /\ \A u \in Summarizers : KeptFor(u)
  <2>1. UNCHANGED <<chat, summaries, batch>>
    BY <1>8 DEF ReadLatest
  <2>2. Ends
    BY <1>4, <2>1
  <2>3. pc'[t] = "list" /\ batch'[t] = batch[t]
    BY <1>8 DEF ReadLatest, Goto
  <2>4. CoveredIn(chat', summaries', covered'[t])
    BY <1>8, <1>3, <2>1 DEF ReadLatest, CoveredIn
  <2>5. KeptFor(t)
    BY <2>3, <2>4 DEF KeptFor, GapAt
  <2>6. \A u \in Summarizers \ {t} : KeptFor(u)
    BY <1>5, <1>8 DEF ReadLatest, Goto
  <2>7. QED BY <2>2, <2>5, <2>6
<1>9. ASSUME NEW t \in Summarizers, ListBatch(t) PROVE Ends /\ \A u \in Summarizers : KeptFor(u)
  <2>1. UNCHANGED <<chat, summaries, covered>>
    BY <1>9 DEF ListBatch
  <2>2. Ends
    BY <1>4, <2>1
  <2>3. CASE pc'[t] = "idle" /\ batch' = batch
    BY <1>5, <1>9, <2>2, <2>3 DEF ListBatch, Goto
  <2>4. ASSUME pc'[t] = "write", NEW f \in Older(t), NEW l \in Older(t),
               \A c \in Older(t) : f <= c,
               batch' = [batch EXCEPT ![t] = [first |-> f, last |-> l]]
        PROVE  Ends /\ \A u \in Summarizers : KeptFor(u)
    <3>1. pc[t] = "list"
      BY <1>9 DEF ListBatch, Goto
    <3>2. CoveredIn(chat', summaries', covered'[t])
      BY <1>2, <2>1, <3>1 DEF GapAt
    <3>3. batch'[t].first = f /\ batch'[t].last = l
      BY <2>4
    <3>4. ASSUME NEW c \in chat', c <= l PROVE c <= covered'[t] \/ f <= c
      BY <2>1, <2>4, <3>4 DEF Older
    <3>5. KeptFor(t)
      BY <2>4, <3>2, <3>3, <3>4 DEF KeptFor, GapAt
    <3>6. \A u \in Summarizers \ {t} : KeptFor(u)
      BY <1>5, <1>9, <2>1, <2>4 DEF ListBatch, Goto
    <3>7. QED BY <2>2, <3>5, <3>6
  <2>5. QED
    BY <1>9, <2>3, <2>4 DEF ListBatch, Goto
<1>10. ASSUME NEW t \in Summarizers, Write(t) PROVE Ends /\ \A u \in Summarizers : KeptFor(u)
  <2> DEFINE new == [id |-> Cardinality(summaries) + 1,
                     first |-> batch[t].first, last |-> batch[t].last]
  <2>1. chat' = chat /\ summaries' = summaries \cup {new} /\ pc[t] = "write"
    BY <1>10 DEF Write, Goto
  <2>2. CoveredIn(chat', summaries', covered[t])
    BY <1>2, <2>1, CoverageKept DEF GapAt
  <2>3. ASSUME NEW c \in chat', c <= batch[t].last
        PROVE  \E s \in summaries' : Covers(s, c)
    <3>1. CASE c <= covered[t]
      BY <2>2, <3>1 DEF CoveredIn
    <3>2. CASE batch[t].first <= c
      <4>1. Covers(new, c)
        BY <2>3, <3>2 DEF Covers
      <4> HIDE DEF new
      <4>2. QED BY <2>1, <4>1
    <3>3. QED
      BY <1>2, <2>1, <2>3, <3>1, <3>2 DEF GapAt
  <2>4. CoveredIn(chat', summaries', new.last)
    BY <2>3 DEF CoveredIn
  <2>5. Ends
    BY <1>3, <2>1, <2>4 DEF Ends
  <2>6. \A u \in Summarizers : KeptFor(u)
    BY <1>5, <1>10 DEF Write, Goto
  <2>7. QED BY <2>5, <2>6
<1>11. QED
  BY <1>6, <1>7, <1>8, <1>9, <1>10 DEF Next, Run

\* No chat row up to the end of a summary is missing from all summaries: a
\* summarizer that acts on old reads inserts a batch somebody else has inserted
\* too, but never skips one.
THEOREM NoGapHolds == Spec => []NoGap
<1>1. Init => GapInv
  BY DEF Init, GapInv
<1>2. GapInv => NoGap
  BY DEF GapInv, NoGap, CoveredIn
<1>3. QED
  BY <1>1, <1>2, GapStep, TypeInductive, PTL DEF Spec
-----------------------------------------------------------------------------
(* The raw window and the alignment of the batches *)

Window(b) == {c \in chat : c >= b}
RowsAfter(b) == {c \in chat : c > b}
UpTo(b) == {c \in chat : c <= b}

\* How many chat rows there are up to an id: what the batches are counted in.
Place(b) == Cardinality(UpTo(b))

\* A batch that begins right behind a whole number of batches and has Batch rows.
WholeBatch(f, l) ==
  /\ f \in chat /\ l \in chat
  /\ \E k \in Nat : Place(f) = k * Batch + 1 /\ Place(l) = k * Batch + Batch

\* What a summarizer at work holds: a bound with the window behind it, a point up
\* to which whole batches reach, and a whole batch in front of the window.
HoldsBatch(t) ==
  /\ pc[t] \in {"latest", "list"} => Cardinality(Window(lower[t])) >= MaxRaw
  /\ pc[t] \in {"list", "write"} => \E k \in Nat : Place(covered[t]) = k * Batch
  /\ pc[t] = "write" =>
       /\ Cardinality(RowsAfter(batch[t].last)) >= MaxRaw
       /\ WholeBatch(batch[t].first, batch[t].last)

BatchInv ==
  /\ \A s \in summaries :
       /\ Cardinality(RowsAfter(s.last)) >= MaxRaw
       /\ WholeBatch(s.first, s.last)
  /\ \A t \in Summarizers : HoldsBatch(t)

\* Outside the race a summarizer behind its read of the latest summary knows all
\* of them, and its batch lies behind what it knows.
OnceInv ==
  ~raced =>
    /\ \A t \in Summarizers : pc[t] \in {"list", "write"} =>
         \A s \in summaries : s.last <= covered[t]
    /\ \A t \in Summarizers : pc[t] = "write" =>
         covered[t] < batch[t].first /\ batch[t].first <= batch[t].last
    /\ \A s, u \in summaries : (s.first = u.first /\ s.last = u.last) => s = u

LEMMA ChatFinite == ASSUME TypeInv PROVE IsFiniteSet(chat)
<1>1. chat \in SUBSET Nat /\ nextId \in Nat /\ \A c \in chat : c <= nextId
  BY DEF TypeInv, TypeOK
<1>2. QED BY <1>1, FS_BoundedSetOfNaturals

\* Rows are only added, and a new one has the next id.
LEMMA LogGrows ==
  ASSUME TypeInv, [Next]_vars
  PROVE  /\ chat \subseteq chat' /\ IsFiniteSet(chat')
         /\ \A c \in chat' : c \in chat \/ c = nextId
<1>1. chat' = chat \/ chat' = chat \cup {nextId}
  BY DEF Next, Run, vars, AppendChat, AppendTick, Start, ReadBound, ReadLatest,
     ListBatch, Write, Abandon
<1>2. IsFiniteSet(chat \cup {nextId})
  BY ChatFinite, FS_AddElement
<1>3. QED
  BY <1>1, <1>2, ChatFinite

\* So the rows behind an id become more, and the rank of an id given out stays.
LEMMA RowsBehind ==
  ASSUME TypeInv, [Next]_vars, NEW b \in Nat
  PROVE  /\ Cardinality(RowsAfter(b)) >= MaxRaw => Cardinality(RowsAfter(b)') >= MaxRaw
         /\ Cardinality(Window(b)) >= MaxRaw => Cardinality(Window(b)') >= MaxRaw
<1>1. RowsAfter(b) \subseteq RowsAfter(b)' /\ Window(b) \subseteq Window(b)'
  BY LogGrows DEF RowsAfter, Window
<1>2. IsFiniteSet(RowsAfter(b)') /\ IsFiniteSet(Window(b)')
  <2>1. RowsAfter(b)' \in SUBSET chat' /\ Window(b)' \in SUBSET chat'
    BY DEF RowsAfter, Window
  <2>2. QED BY <2>1, LogGrows, FS_Subset
<1>3. /\ Cardinality(RowsAfter(b)) \in Nat /\ Cardinality(Window(b)) \in Nat
      /\ Cardinality(RowsAfter(b)') \in Nat /\ Cardinality(Window(b)') \in Nat
  <2>1. IsFiniteSet(RowsAfter(b)) /\ IsFiniteSet(Window(b))
    BY <1>1, <1>2, FS_Subset
  <2>2. QED BY <1>2, <2>1, FS_CardinalityType
<1>4. /\ Cardinality(RowsAfter(b)) <= Cardinality(RowsAfter(b)')
      /\ Cardinality(Window(b)) <= Cardinality(Window(b)')
  BY <1>1, <1>2, FS_Subset
<1>5. QED BY <1>3, <1>4, SizesAssumption

LEMMA RankKept ==
  ASSUME TypeInv, [Next]_vars
  PROVE  /\ \A b \in Nat : b < nextId => Place(b)' = Place(b)
         /\ \A f, l \in Nat : WholeBatch(f, l) => WholeBatch(f, l)'
<1>1. ASSUME NEW b \in Nat, b < nextId PROVE UpTo(b)' = UpTo(b)
  <2>1. \A c \in chat' : c <= b => c \in chat
    BY <1>1, LogGrows DEF TypeInv, TypeOK
  <2>2. chat \subseteq chat'
    BY LogGrows
  <2>3. QED BY <2>1, <2>2 DEF UpTo
<1>2. \A b \in Nat : b < nextId => Place(b)' = Place(b)
  BY <1>1 DEF Place
<1>3. ASSUME NEW f \in Nat, NEW l \in Nat, WholeBatch(f, l) PROVE WholeBatch(f, l)'
  <2>1. f < nextId /\ l < nextId /\ f \in chat' /\ l \in chat'
    BY <1>3, LogGrows DEF WholeBatch, TypeInv
  <2>2. QED BY <1>2, <1>3, <2>1 DEF WholeBatch
<1>4. QED BY <1>2, <1>3

\* A step that leaves a summarizer alone, or sends it back to its start, keeps
\* what it holds.
LEMMA HoldsBatchKept ==
  ASSUME TypeInv, [Next]_vars, NEW t \in Summarizers, HoldsBatch(t),
         pc'[t] = pc[t] \/ pc'[t] = "idle",
         lower'[t] = lower[t], covered'[t] = covered[t], batch'[t] = batch[t]
  PROVE  HoldsBatch(t)'
<1>1. /\ lower[t] \in Nat /\ covered[t] \in Nat /\ covered[t] < nextId
      /\ batch[t].first \in Nat /\ batch[t].last \in Nat
  BY DEF TypeInv, TypeOK, Extent
<1>2. pc'[t] \in {"latest", "list"} => Cardinality(Window(lower[t])') >= MaxRaw
  BY <1>1, RowsBehind DEF HoldsBatch
<1>3. pc'[t] \in {"list", "write"} => \E k \in Nat : Place(covered[t])' = k * Batch
  BY <1>1, RankKept DEF HoldsBatch
<1>4. pc'[t] = "write" => /\ Cardinality(RowsAfter(batch[t].last)') >= MaxRaw
                          /\ WholeBatch(batch[t].first, batch[t].last)'
  BY <1>1, RowsBehind, RankKept DEF HoldsBatch
<1>5. QED BY <1>2, <1>3, <1>4 DEF HoldsBatch

\* The batch that is listed behind whole batches is whole, and leaves the window.
LEMMA ListedWhole ==
  ASSUME TypeInv, NEW t \in Summarizers, HoldsBatch(t), pc[t] = "list",
         NEW f \in Older(t), NEW l \in Older(t), \A c \in Older(t) : f <= c,
         Cardinality({c \in Older(t) : c <= l}) = Batch
  PROVE  WholeBatch(f, l) /\ Cardinality(RowsAfter(l)) >= MaxRaw
<1> DEFINE low == covered[t]
           listed == {c \in Older(t) : c <= l}
<1>1. /\ low \in Nat /\ lower[t] \in Nat
      /\ f \in chat /\ l \in chat /\ f \in Nat /\ l \in Nat
      /\ low < f /\ low < l /\ l < lower[t]
      /\ \A c \in chat : c \in Nat
  BY DEF TypeInv, TypeOK, Older
<1>2. PICK k \in Nat : Place(low) = k * Batch
  BY DEF HoldsBatch
<1>3. IsFiniteSet(UpTo(low)) /\ IsFiniteSet(listed)
  <2>1. UpTo(low) \in SUBSET chat /\ listed \in SUBSET chat
    BY DEF UpTo, Older
  <2>2. QED BY <2>1, ChatFinite, FS_Subset
<1>4. Place(l) = k * Batch + Batch
  <2>1. UpTo(l) = UpTo(low) \cup listed /\ UpTo(low) \cap listed = {}
    <3>1. ASSUME NEW c \in chat
          PROVE  c <= l <=> (c <= low \/ (low < c /\ c < lower[t] /\ c <= l))
      <4>1. c \in Nat /\ l \in Nat /\ low \in Nat /\ lower[t] \in Nat /\ low < l /\ l < lower[t]
        BY <1>1
      <4> HIDE DEF low
      <4>2. QED BY <4>1
    <3>2. ASSUME NEW c \in chat, low < c PROVE ~ (c <= low)
      <4>1. c \in Nat /\ low \in Nat
        BY <1>1
      <4>2. QED BY <3>2, <4>1
    <3>3. QED BY <3>1, <3>2 DEF UpTo, Older
  <2>2. Cardinality(UpTo(low) \cup listed)
          = Cardinality(UpTo(low)) + Cardinality(listed) - Cardinality({})
    BY <1>3, <2>1, FS_Union
  <2>3. Cardinality({}) = 0
    BY FS_EmptySet
  <2>4. k * Batch \in Nat
    BY SizesAssumption
  <2> HIDE DEF listed
  <2>5. Cardinality(listed) = Batch
    BY DEF listed
  <2>6. QED BY <1>2, <2>1, <2>2, <2>3, <2>4, <2>5, SizesAssumption DEF Place
<1>5. Place(f) = k * Batch + 1
  <2>1. UpTo(f) = UpTo(low) \cup {f} /\ f \notin UpTo(low)
    <3>1. \A c \in chat : c <= f <=> c <= low \/ c = f
      <4> SUFFICES ASSUME NEW c \in chat PROVE c <= f <=> c <= low \/ c = f
        OBVIOUS
      <4>1. low < c /\ c < f => c \in Older(t)
        BY <1>1 DEF Older
      <4>2. QED BY <1>1, <4>1
    <3>2. f \in chat /\ ~ (f <= low)
      BY <1>1
    <3>3. QED BY <3>1, <3>2 DEF UpTo
  <2>2. Cardinality(UpTo(low) \cup {f}) = Cardinality(UpTo(low)) + 1
    BY <1>3, <2>1, FS_AddElement
  <2>3. QED BY <1>2, <2>1, <2>2 DEF Place
<1>6. Cardinality(RowsAfter(l)) >= MaxRaw
  <2>1. Window(lower[t]) \subseteq RowsAfter(l)
    <3>1. \A c \in chat : c >= lower[t] => c > l
      BY <1>1
    <3>2. QED BY <3>1 DEF Window, RowsAfter
  <2>2. IsFiniteSet(RowsAfter(l))
    <3>1. RowsAfter(l) \in SUBSET chat
      BY DEF RowsAfter
    <3>2. QED BY <3>1, ChatFinite, FS_Subset
  <2>3. /\ Cardinality(Window(lower[t])) <= Cardinality(RowsAfter(l))
        /\ Cardinality(Window(lower[t])) \in Nat /\ Cardinality(RowsAfter(l)) \in Nat
    BY <2>1, <2>2, FS_Subset, FS_CardinalityType
  <2>4. Cardinality(Window(lower[t])) >= MaxRaw
    BY DEF HoldsBatch
  <2>5. QED BY <2>3, <2>4, SizesAssumption
<1>7. QED BY <1>1, <1>4, <1>5, <1>6 DEF WholeBatch

LEMMA BatchStep == TypeInv /\ BatchInv /\ [Next]_vars => BatchInv'
<1> SUFFICES ASSUME TypeInv, BatchInv, [Next]_vars PROVE BatchInv'
  OBVIOUS
<1> DEFINE Old == \A s \in summaries :
                    Cardinality(RowsAfter(s.last)') >= MaxRaw /\ WholeBatch(s.first, s.last)'
           KeptFor(t) == HoldsBatch(t)'
<1>1. Old
  <2> SUFFICES ASSUME NEW s \in summaries
               PROVE  Cardinality(RowsAfter(s.last)') >= MaxRaw /\ WholeBatch(s.first, s.last)'
    OBVIOUS
  <2>1. s.first \in Nat /\ s.last \in Nat
    BY DEF TypeInv, TypeOK, Summary
  <2>2. QED BY <2>1, RowsBehind, RankKept DEF BatchInv
<1>2. ASSUME NEW t \in Summarizers, pc'[t] = pc[t] \/ pc'[t] = "idle",
             lower'[t] = lower[t], covered'[t] = covered[t], batch'[t] = batch[t]
      PROVE  KeptFor(t)
  BY <1>2, HoldsBatchKept DEF BatchInv
<1>3. ASSUME summaries' = summaries, \A t \in Summarizers : KeptFor(t) PROVE BatchInv'
  BY <1>1, <1>3 DEF BatchInv
<1> HIDE DEF KeptFor
<1> USE DEF TypeInv, TypeOK
<1>4. CASE AppendChat \/ AppendTick \/ UNCHANGED vars
  BY <1>2, <1>3, <1>4 DEF AppendChat, AppendTick, vars
<1>5. CASE \E t \in Summarizers : Start(t) \/ Abandon(t)
  <2>1. PICK t \in Summarizers : Start(t) \/ Abandon(t)
    BY <1>5
  <2>2. CASE UNCHANGED pc
    BY <1>2, <1>3, <2>1, <2>2 DEF Start, Abandon
  <2>3. CASE pc[t] = "idle" /\ pc' = [pc EXCEPT ![t] = "bound"]
    <3>1. UNCHANGED <<lower, covered, batch, summaries>>
      BY <2>1 DEF Start, Abandon
    <3>2. KeptFor(t)
      BY <2>3 DEF KeptFor, HoldsBatch
    <3>3. \A u \in Summarizers \ {t} : KeptFor(u)
      BY <1>2, <2>3, <3>1
    <3>4. QED BY <1>3, <3>1, <3>2, <3>3
  <2>4. CASE pc' = [pc EXCEPT ![t] = "idle"]
    BY <1>2, <1>3, <2>1, <2>4 DEF Start, Abandon
  <2>5. QED BY <2>1, <2>2, <2>3, <2>4 DEF Start, Abandon, Goto
<1>6. ASSUME NEW t \in Summarizers, ReadBound(t) PROVE BatchInv'
  <2>1. UNCHANGED <<chat, covered, batch, summaries>>
    BY <1>6 DEF ReadBound
  <2>2. \A u \in Summarizers \ {t} : KeptFor(u)
    BY <1>2, <1>6 DEF ReadBound, Goto
  <2>3. CASE pc'[t] = "idle" /\ lower' = lower
    BY <1>2, <1>3, <2>1, <2>2, <2>3
  <2>4. ASSUME pc'[t] = "latest", NEW b \in chat,
               Cardinality({c \in chat : c >= b}) = MaxRaw,
               lower' = [lower EXCEPT ![t] = b]
        PROVE  BatchInv'
    <3>1. Cardinality(Window(lower[t])') >= MaxRaw
      BY <2>1, <2>4, SizesAssumption DEF Window
    <3>2. KeptFor(t)
      BY <2>4, <3>1 DEF KeptFor, HoldsBatch
    <3>3. QED BY <1>3, <2>1, <2>2, <3>2
  <2>5. QED BY <1>6, <2>3, <2>4 DEF ReadBound, Goto
<1>7. ASSUME NEW t \in Summarizers, ReadLatest(t) PROVE BatchInv'
  <2>1. /\ UNCHANGED <<chat, lower, batch, summaries>>
        /\ pc[t] = "latest" /\ pc'[t] = "list"
    BY <1>7 DEF ReadLatest, Goto
  <2>2. \A u \in Summarizers \ {t} : KeptFor(u)
    BY <1>2, <1>7 DEF ReadLatest, Goto
  <2>3. Cardinality(Window(lower[t])') >= MaxRaw
    BY <2>1 DEF BatchInv, HoldsBatch, Window
  <2>4. \E k \in Nat : Place(covered[t])' = k * Batch
    <3>1. CASE covered'[t] = 0
      <4>1. \A c \in chat' : ~ (c <= 0)
        BY <2>1
      <4>2. UpTo(covered[t])' = {}
        BY <3>1, <4>1 DEF UpTo
      <4>3. Cardinality({}) = 0 * Batch
        BY FS_EmptySet, SizesAssumption
      <4>4. QED BY <4>2, <4>3 DEF Place
    <3>2. ASSUME NEW s \in summaries, covered'[t] = s.last
          PROVE  \E k \in Nat : Place(covered[t])' = k * Batch
      <4>1. PICK k \in Nat : Place(s.last) = k * Batch + Batch
        BY DEF BatchInv, WholeBatch
      <4>2. Place(covered[t])' = Place(s.last)
        BY <2>1, <3>2 DEF Place, UpTo
      <4>3. k * Batch + Batch = (k + 1) * Batch
        BY SizesAssumption
      <4>4. QED BY <4>1, <4>2, <4>3
    <3>3. QED BY <1>7, <3>1, <3>2 DEF ReadLatest
  <2>5. KeptFor(t)
    BY <2>1, <2>3, <2>4 DEF KeptFor, HoldsBatch
  <2>6. QED BY <1>3, <2>1, <2>2, <2>5
<1>8. ASSUME NEW t \in Summarizers, ListBatch(t) PROVE BatchInv'
  <2>1. UNCHANGED <<chat, lower, covered, summaries>> /\ pc[t] = "list"
    BY <1>8 DEF ListBatch, Goto
  <2>2. \A u \in Summarizers \ {t} : KeptFor(u)
    BY <1>2, <1>8 DEF ListBatch, Goto
  <2>3. CASE pc'[t] = "idle" /\ batch' = batch
    BY <1>2, <1>3, <2>1, <2>2, <2>3
  <2>4. ASSUME pc'[t] = "write", NEW f \in Older(t), NEW l \in Older(t),
               \A c \in Older(t) : f <= c,
               Cardinality({c \in Older(t) : c <= l}) = Batch,
               batch' = [batch EXCEPT ![t] = [first |-> f, last |-> l]]
        PROVE  BatchInv'
    <3>1. WholeBatch(f, l) /\ Cardinality(RowsAfter(l)) >= MaxRaw
      BY <2>1, <2>4, ListedWhole DEF BatchInv
    <3>2. batch'[t].first = f /\ batch'[t].last = l
      BY <2>4
    <3>3. WholeBatch(f, l)' /\ Cardinality(RowsAfter(l)') >= MaxRaw
      BY <2>1, <3>1 DEF WholeBatch, Place, UpTo, RowsAfter
    <3>4. \E k \in Nat : Place(covered[t])' = k * Batch
      BY <2>1 DEF BatchInv, HoldsBatch, Place, UpTo
    <3>5. KeptFor(t)
      BY <2>4, <3>2, <3>3, <3>4 DEF KeptFor, HoldsBatch
    <3>6. QED BY <1>3, <2>1, <2>2, <3>5
  <2>5. QED BY <1>8, <2>3, <2>4 DEF ListBatch, Goto
<1>9. ASSUME NEW t \in Summarizers, Write(t) PROVE BatchInv'
  <2>1. PICK f \in Nat, l \in Nat : batch[t].first = f /\ batch[t].last = l
    BY DEF Extent
  <2>2. /\ summaries' = summaries \cup
                         {[id |-> Cardinality(summaries) + 1, first |-> f, last |-> l]}
        /\ pc[t] = "write" /\ chat' = chat
    BY <1>9, <2>1 DEF Write, Goto
  <2>3. \A u \in Summarizers : KeptFor(u)
    BY <1>2, <1>9 DEF Write, Goto
  <2>4. WholeBatch(f, l) /\ Cardinality(RowsAfter(l)) >= MaxRaw
    BY <2>1, <2>2 DEF BatchInv, HoldsBatch
  <2>5. WholeBatch(f, l)' /\ Cardinality(RowsAfter(l)') >= MaxRaw
    BY <2>2, <2>4 DEF WholeBatch, Place, UpTo, RowsAfter
  <2>6. \A s \in summaries' :
          Cardinality(RowsAfter(s.last)') >= MaxRaw /\ WholeBatch(s.first, s.last)'
    BY <1>1, <2>2, <2>5
  <2>7. QED BY <2>3, <2>6 DEF BatchInv, KeptFor
<1>10. QED
  BY <1>4, <1>5, <1>6, <1>7, <1>8, <1>9 DEF Next, Run

\* A chat row has a greater rank than every id before it.
LEMMA RankGrows ==
  ASSUME TypeInv, NEW a \in Nat, NEW b \in Nat
  PROVE  /\ Place(a) \in Nat
         /\ a <= b => Place(a) <= Place(b)
         /\ a < b /\ b \in chat => Place(a) < Place(b)
<1>1. \A c \in chat : c \in Nat
  BY DEF TypeInv, TypeOK
<1>2. IsFiniteSet(UpTo(a)) /\ IsFiniteSet(UpTo(b))
  <2>1. UpTo(a) \in SUBSET chat /\ UpTo(b) \in SUBSET chat
    BY DEF UpTo
  <2>2. QED BY <2>1, ChatFinite, FS_Subset
<1>3. Place(a) \in Nat /\ Place(b) \in Nat
  BY <1>2, FS_CardinalityType DEF Place
<1>4. ASSUME a <= b PROVE Place(a) <= Place(b)
  <2>1. UpTo(a) \in SUBSET UpTo(b)
    BY <1>1, <1>4 DEF UpTo
  <2>2. QED BY <1>2, <2>1, FS_Subset DEF Place
<1>5. ASSUME a < b, b \in chat PROVE Place(a) < Place(b)
  <2>1. UpTo(a) \in SUBSET UpTo(b) /\ b \in UpTo(b) /\ b \notin UpTo(a)
    <3>1. \A c \in chat : c <= a => c <= b
      BY <1>1, <1>5
    <3>2. ~ (b <= a) /\ b <= b
      BY <1>5
    <3>3. QED BY <1>5, <3>1, <3>2 DEF UpTo
  <2>2. Place(a) <= Place(b) /\ Place(a) # Place(b)
    BY <1>2, <2>1, FS_Subset DEF Place
  <2>3. QED BY <1>3, <2>2
<1>6. QED BY <1>3, <1>4, <1>5

\* Two whole batches are the same or lie behind one another.
LEMMA WholesAlign ==
  ASSUME TypeInv, NEW f \in Nat, NEW l \in Nat, NEW g \in Nat, NEW m \in Nat,
         WholeBatch(f, l), WholeBatch(g, m)
  PROVE  (f = g /\ l = m) \/ l < g \/ m < f
<1>1. PICK i \in Nat : Place(f) = i * Batch + 1 /\ Place(l) = i * Batch + Batch
  BY DEF WholeBatch
<1>2. PICK j \in Nat : Place(g) = j * Batch + 1 /\ Place(m) = j * Batch + Batch
  BY DEF WholeBatch
<1>3. f \in chat /\ l \in chat /\ g \in chat /\ m \in chat
  BY DEF WholeBatch
<1>4. CASE i = j
  <2>1. ~ (f < g) /\ ~ (g < f)
    BY <1>1, <1>2, <1>3, <1>4, RankGrows, SizesAssumption
  <2>2. ~ (l < m) /\ ~ (m < l)
    BY <1>1, <1>2, <1>3, <1>4, RankGrows, SizesAssumption
  <2>3. QED BY <2>1, <2>2
<1>5. ASSUME NEW p \in Nat, NEW q \in Nat, p < q
      PROVE  p * Batch + Batch < q * Batch + 1
  <2>1. \A d \in Nat : d * Batch \in Nat
    BY SizesAssumption
  <2>2. q - p - 1 \in Nat
    BY <1>5
  <2>3. q * Batch = (p * Batch + Batch) + (q - p - 1) * Batch
    BY SizesAssumption
  <2>4. QED BY <2>1, <2>2, <2>3, SizesAssumption
<1>6. CASE i < j
  <2>1. Place(l) < Place(g)
    BY <1>1, <1>2, <1>5, <1>6
  <2>2. ~ (g <= l)
    BY <2>1, RankGrows
  <2>3. QED BY <2>2
<1>7. CASE j < i
  <2>1. Place(m) < Place(f)
    BY <1>1, <1>2, <1>5, <1>7
  <2>2. ~ (f <= m)
    BY <2>1, RankGrows
  <2>3. QED BY <2>2
<1>8. QED BY <1>4, <1>6, <1>7

LEMMA OnceStep == TypeInv /\ OnceInv /\ [Next]_vars => OnceInv'
<1> SUFFICES ASSUME TypeInv, OnceInv, [Next]_vars, ~ raced' PROVE OnceInv'
  BY DEF OnceInv
<1> USE DEF TypeInv, TypeOK
<1>1. raced' = FALSE /\ (raced' = raced => ~ raced)
  OBVIOUS
<1>2. CASE AppendChat \/ AppendTick \/ UNCHANGED vars
  BY <1>2 DEF AppendChat, AppendTick, vars, OnceInv
<1>3. CASE \E t \in Summarizers : Start(t) \/ ReadBound(t) \/ Abandon(t)
  BY <1>3 DEF Start, ReadBound, Abandon, Goto, OnceInv
<1>4. ASSUME NEW t \in Summarizers, ReadLatest(t) PROVE OnceInv'
  <2>1. UNCHANGED <<summaries, raced, batch>> /\ ~ raced /\ pc'[t] = "list"
    BY <1>4 DEF ReadLatest, Goto
  <2>2. \A u \in Summarizers \ {t} : pc'[u] = pc[u] /\ covered'[u] = covered[u]
    BY <1>4 DEF ReadLatest, Goto
  <2>3. \A s \in summaries : s.last <= covered'[t]
    BY <1>4 DEF ReadLatest
  <2>4. QED BY <2>1, <2>2, <2>3 DEF OnceInv
<1>5. ASSUME NEW t \in Summarizers, ListBatch(t) PROVE OnceInv'
  <2>1. UNCHANGED <<summaries, raced, covered>> /\ ~ raced /\ pc[t] = "list"
    BY <1>5 DEF ListBatch, Goto
  <2>2. \A u \in Summarizers \ {t} : pc'[u] = pc[u] /\ batch'[u] = batch[u]
    BY <1>5 DEF ListBatch, Goto
  <2>3. pc'[t] = "write" => covered[t] < batch'[t].first /\ batch'[t].first <= batch'[t].last
    <3>1. CASE Goto(t, "list", "idle")
      BY <3>1 DEF Goto
    <3>2. ASSUME NEW f \in Older(t), NEW l \in Older(t), \A c \in Older(t) : f <= c,
                 batch' = [batch EXCEPT ![t] = [first |-> f, last |-> l]]
          PROVE  covered[t] < batch'[t].first /\ batch'[t].first <= batch'[t].last
      BY <3>2 DEF Older
    <3>3. QED BY <1>5, <3>1, <3>2 DEF ListBatch
  <2>4. QED BY <2>1, <2>2, <2>3 DEF OnceInv
<1>6. ASSUME NEW t \in Summarizers, Write(t) PROVE OnceInv'
  <2>0. PICK f \in Nat, l \in Nat : batch[t].first = f /\ batch[t].last = l
    BY DEF Extent
  <2>1. summaries' = summaries \cup
                     {[id |-> Cardinality(summaries) + 1, first |-> f, last |-> l]}
    BY <1>6, <2>0 DEF Write
  <2>2. /\ ~ raced /\ pc[t] = "write" /\ pc'[t] = "idle"
        /\ \A u \in Summarizers \ {t} : pc'[u] \notin {"list", "write"}
    BY <1>6 DEF Write, Goto
  <2>3. covered[t] < f /\ f <= l /\ \A s \in summaries : s.last <= covered[t]
    BY <2>0, <2>2 DEF OnceInv
  <2>4. \A s \in summaries : s.last # l
    BY <2>3 DEF Summary
  <2>5. \A s, u \in summaries' : (s.first = u.first /\ s.last = u.last) => s = u
    BY <2>1, <2>2, <2>4 DEF OnceInv
  <2>6. QED BY <2>2, <2>5 DEF OnceInv
<1>7. QED BY <1>2, <1>3, <1>4, <1>5, <1>6 DEF Next, Run

\* The batches partition the rows behind the window: no replayed row is summarized,
\* batches that overlap are the same, and a batch is stored twice only if a
\* summary was stored between a summarizer's reading and its insert. The batch a
\* summarizer chooses from old reads is still one of the batches, because a batch
\* is determined by how many rows lie before it.
THEOREM BatchesExactHold == Spec => []BatchesExact
<1>1. Init => BatchInv /\ OnceInv
  BY DEF Init, BatchInv, HoldsBatch, OnceInv
<1>2. TypeInv /\ BatchInv /\ OnceInv => BatchesExact
  <2> SUFFICES ASSUME TypeInv, BatchInv, OnceInv
               PROVE  RawWindowUntouched /\ RangesAligned /\ SummarizedOnceUnlessRaced
    BY DEF BatchesExact
  <2>1. RawWindowUntouched
    BY DEF BatchInv, RawWindowUntouched, RowsAfter
  <2>2. RangesAligned
    <3> SUFFICES ASSUME NEW s \in summaries, NEW u \in summaries
                 PROVE  (s.first = u.first /\ s.last = u.last) \/ s.last < u.first \/ u.last < s.first
      BY DEF RangesAligned
    <3>1. s.first \in Nat /\ s.last \in Nat /\ u.first \in Nat /\ u.last \in Nat
      BY DEF TypeInv, TypeOK, Summary
    <3>2. WholeBatch(s.first, s.last) /\ WholeBatch(u.first, u.last)
      BY DEF BatchInv
    <3>3. QED BY <3>1, <3>2, WholesAlign
  <2>3. SummarizedOnceUnlessRaced
    BY DEF OnceInv, SummarizedOnceUnlessRaced
  <2>4. QED BY <2>1, <2>2, <2>3
<1>3. QED
  BY <1>1, <1>2, BatchStep, OnceStep, TypeInductive, PTL DEF Spec

-----------------------------------------------------------------------------
(* The reader of a context *)

\* The summary a turn has read leaves a whole window behind it, however old it is.
ReaderInv ==
  /\ \A s \in summaries : s.last \in Nat
  /\ summaries # {} => \E s \in summaries : \A u \in summaries : u.last <= s.last
  /\ reader.summary \in Nat
  /\ reader.at \in {"window", "assemble"} =>
       reader.summary = 0 \/ Cardinality(RowsAfter(reader.summary)) >= MaxRaw
  /\ reader.at = "assemble" => \A c \in reader.window : c > reader.summary

LEMMA ReaderStep ==
  TypeInv /\ BatchInv /\ ReaderInv /\ [ReaderNext]_readerVars => ReaderInv'
<1> SUFFICES ASSUME TypeInv, BatchInv, ReaderInv, [ReaderNext]_readerVars
             PROVE  ReaderInv'
  OBVIOUS
<1>1. CASE BuildBegins
  <2>1. /\ UNCHANGED <<chat, summaries>>
        /\ reader' = [reader EXCEPT !.at = "window", !.summary = LatestEnd]
    BY <1>1 DEF BuildBegins, vars
  <2>2. LatestEnd = 0 \/ \E s \in summaries : LatestEnd = s.last
    <3>1. CASE summaries = {}
      BY <3>1 DEF LatestEnd
    <3>2. CASE summaries # {}
      BY <3>2 DEF LatestEnd, ReaderInv
    <3>3. QED BY <3>1, <3>2
  <2>3. LatestEnd \in Nat /\ (LatestEnd = 0 \/ Cardinality(RowsAfter(LatestEnd)) >= MaxRaw)
    BY <2>2 DEF ReaderInv, BatchInv
  <2>4. QED BY <2>1, <2>3 DEF ReaderInv, RowsAfter
<1>2. CASE ListRecentChatMessages
  <2>1. /\ UNCHANGED <<chat, summaries>> /\ reader.at = "window"
        /\ reader' = [reader EXCEPT !.at = "assemble", !.window = RawWindow]
    BY <1>2 DEF ListRecentChatMessages, vars
  <2>2. ASSUME NEW c \in RawWindow PROVE c > reader.summary
    <3>1. /\ c \in chat /\ c \in Nat /\ c > 0 /\ reader.summary \in Nat
          /\ Cardinality({d \in chat : d >= c}) <= MaxRaw
      BY <2>2 DEF RawWindow, TypeInv, TypeOK, ReaderInv
    <3>2. CASE reader.summary = 0
      BY <3>1, <3>2
    <3>3. CASE Cardinality(RowsAfter(reader.summary)) >= MaxRaw /\ c <= reader.summary
      <4>1. RowsAfter(reader.summary) \cup {c} \in SUBSET {d \in chat : d >= c}
        <5>1. \A d \in chat : d > reader.summary => d >= c
          BY <3>1, <3>3 DEF TypeInv, TypeOK
        <5>2. c >= c
          BY <3>1
        <5>3. QED BY <3>1, <5>1, <5>2 DEF RowsAfter
      <4>2. IsFiniteSet({d \in chat : d >= c})
        <5>1. {d \in chat : d >= c} \in SUBSET chat
          OBVIOUS
        <5>2. QED BY <5>1, ChatFinite, FS_Subset
      <4>3. c \notin RowsAfter(reader.summary)
        BY <3>1, <3>3 DEF RowsAfter
      <4>4. IsFiniteSet(RowsAfter(reader.summary))
        BY <4>1, <4>2, FS_Subset
      <4>5. Cardinality(RowsAfter(reader.summary) \cup {c})
              = Cardinality(RowsAfter(reader.summary)) + 1
        BY <4>3, <4>4, FS_AddElement
      <4>6. Cardinality(RowsAfter(reader.summary) \cup {c}) <= Cardinality({d \in chat : d >= c})
        BY <4>1, <4>2, FS_Subset
      <4>7. /\ Cardinality(RowsAfter(reader.summary)) \in Nat
            /\ Cardinality({d \in chat : d >= c}) \in Nat
        BY <4>2, <4>4, FS_CardinalityType
      <4>8. QED BY <3>1, <3>3, <4>5, <4>6, <4>7, SizesAssumption
    <3>4. QED BY <2>1, <3>1, <3>2, <3>3 DEF ReaderInv
  <2>3. QED BY <2>1, <2>2 DEF ReaderInv, RowsAfter
<1>3. CASE Assemble
  BY <1>3 DEF Assemble, ReaderInv, vars
<1>4. CASE [Next]_vars /\ UNCHANGED reader
  <2>1. Cardinality(RowsAfter(reader.summary)) >= MaxRaw
          => Cardinality(RowsAfter(reader.summary)') >= MaxRaw
    BY <1>4, RowsBehind DEF ReaderInv, RowsAfter
  <2>2. \/ summaries' = summaries
        \/ \E f \in Nat, l \in Nat :
             summaries' = summaries \cup
                          {[id |-> Cardinality(summaries) + 1, first |-> f, last |-> l]}
    <3>1. ASSUME NEW t \in Summarizers, Write(t)
          PROVE  \E f \in Nat, l \in Nat :
                   summaries' = summaries \cup
                                {[id |-> Cardinality(summaries) + 1, first |-> f, last |-> l]}
      BY <3>1 DEF Write, TypeInv, TypeOK, Extent
    <3>2. CASE \A t \in Summarizers : ~ Write(t)
      BY <1>4, <3>2 DEF Next, Run, vars, AppendChat, AppendTick, Start, ReadBound,
         ReadLatest, ListBatch, Abandon
    <3>3. QED BY <3>1, <3>2
  <2>3. /\ \A s \in summaries' : s.last \in Nat
        /\ summaries' # {} => \E s \in summaries' : \A u \in summaries' : u.last <= s.last
    <3>1. CASE summaries' = summaries
      BY <3>1 DEF ReaderInv
    <3>2. ASSUME NEW i, NEW f \in Nat, NEW l \in Nat,
                 summaries' = summaries \cup {[id |-> i, first |-> f, last |-> l]}
          PROVE  /\ \A s \in summaries' : s.last \in Nat
                 /\ \E s \in summaries' : \A u \in summaries' : u.last <= s.last
      <4> DEFINE new == [id |-> i, first |-> f, last |-> l]
      <4>1. new.last = l /\ new \in summaries'
        BY <3>2
      <4>2. \A s \in summaries' : s.last \in Nat
        BY <3>2 DEF ReaderInv
      <4>3. CASE \A s \in summaries : s.last <= l
        <5>1. \A u \in summaries' : u.last <= new.last
          BY <3>2, <4>3
        <5>2. QED BY <4>1, <4>2, <5>1
      <4>4. CASE \E s \in summaries : ~ (s.last <= l)
        <5>1. PICK m \in summaries : \A u \in summaries : u.last <= m.last
          BY <4>4 DEF ReaderInv
        <5>2. l <= m.last
          BY <4>4, <5>1 DEF ReaderInv
        <5>3. \A u \in summaries' : u.last <= m.last
          BY <3>2, <5>1, <5>2
        <5>4. QED BY <3>2, <4>2, <5>1, <5>3
      <4>5. QED BY <4>3, <4>4
    <3>3. QED BY <2>2, <3>1, <3>2
  <2>4. QED BY <1>4, <2>1, <2>3 DEF ReaderInv
<1>5. QED
  BY <1>1, <1>2, <1>3, <1>4 DEF ReaderNext, readerVars

\* A turn never sends a row both as itself and inside the summary, although it
\* reads the summary first and the window some reads later: the window only moves
\* away from the summary.
THEOREM SentOnceHolds == ReaderSpec => []SentOnce
<1>1. ReaderInit => Init /\ ReaderInv
  BY DEF ReaderInit, Init, ReaderInv
<1>2. [ReaderNext]_readerVars => [Next]_vars
  BY DEF ReaderNext, readerVars, BuildBegins, ListRecentChatMessages, Assemble
<1>3. Init => TypeInv /\ BatchInv
  <2>1. Init => BatchInv
    BY DEF Init, BatchInv, HoldsBatch
  <2>2. QED BY <2>1, TypeInit
<1>4. ReaderInv => SentOnce
  BY DEF ReaderInv, SentOnce, SummaryUsed
<1>5. QED
  BY <1>1, <1>2, <1>3, <1>4, TypeStep, BatchStep, ReaderStep, PTL DEF ReaderSpec

-----------------------------------------------------------------------------
(* The brake *)

\* Requests whose call has been admitted and whose cost is not stored yet.
Paying == {r \in Requests : asker[r] \in Gated /\ stage[r] \in {"calling", "store"}}

\* Only a model turn of the gate costs anything, and every clock that was read
\* and every row lies in the past.
PastInv ==
  /\ \A w \in rows : w.id < nextRow /\ w.day <= day
  /\ \A w \in rows : ~ w.llm \/ w.asker = "rtc" => w.cost = 0
  /\ \A r \in Requests : moment[r] <= day
  /\ \A r \in Requests : stage[r] \in {"daily", "monthly", "calling"} => asker[r] \in Gated
  /\ \A r \in Requests : bill[r] # 0 => stage[r] = "store" /\ asker[r] \in Gated

\* What is spent and what the admitted requests may still spend.
MonthlyInv ==
  MonthlyLimit > 0 =>
    SumCostSince(MonthStart(day)) + Cardinality(Paying) * MaxCost
      <= MonthlyLimit - 1 + Cardinality(Requests) * MaxCost

\* While nothing was pruned the log accounts for what was really used.
UsageInv ==
  ~ pruned => /\ completed = Cardinality(GatedToday)
              /\ spent = SumCostSince(MonthStart(day))

BrakeInv == BrakeTypeOK /\ IsFiniteSet(rows) /\ PastInv
-----------------------------------------------------------------------------
(* The calendar *)

LEMMA Months ==
  ASSUME NEW d \in Nat, NEW e \in Nat, d <= e
  PROVE  /\ MonthStart(d) \in Nat /\ MonthStart(d) <= d
         /\ MonthStart(d) <= MonthStart(e)
         /\ MonthStart(d) # MonthStart(e) => d < MonthStart(e)
<1> DEFINE P == DaysPerMonth
<1>1. P \in Nat \ {0}
  BY BrakeBounds
<1> HIDE DEF P
<1>2. ASSUME NEW x \in Nat
      PROVE  \E q \in Nat : /\ MonthStart(x) = P * q /\ P * q \in Nat
                            /\ P * q <= x /\ x < P * q + P
  <2>1. x % P \in 0..(P - 1) /\ x \div P \in Nat /\ x = P * (x \div P) + (x % P)
    BY <1>1
  <2>2. MonthStart(x) = x - (x % P)
    BY DEF MonthStart, P
  <2>3. P * (x \div P) \in Nat
    BY <1>1, <2>1
  <2>4. QED BY <1>1, <2>1, <2>2, <2>3
<1>3. PICK q \in Nat : MonthStart(d) = P * q /\ P * q \in Nat /\ P * q <= d /\ d < P * q + P
  BY <1>2
<1>4. PICK r \in Nat : MonthStart(e) = P * r /\ P * r \in Nat /\ P * r <= e /\ e < P * r + P
  BY <1>2
<1>5. ASSUME NEW x \in Nat, NEW y \in Nat, x < y PROVE P * x + P <= P * y
  <2>1. y - x - 1 \in Nat
    BY <1>5
  <2>2. P * (y - x - 1) \in Nat
    BY <1>1, <2>1
  <2>3. P * y = P * x + P + P * (y - x - 1)
    BY <1>1
  <2>4. P * x \in Nat
    BY <1>1
  <2>5. QED BY <1>1, <2>2, <2>3, <2>4
<1>6. ~ (r < q)
  BY <1>3, <1>4, <1>5, <1>1
<1>7. CASE q = r
  BY <1>3, <1>4, <1>7
<1>8. CASE q < r
  <2>1. P * q + P <= P * r
    BY <1>5, <1>8
  <2>2. QED BY <1>1, <1>3, <1>4, <2>1
<1>9. QED BY <1>6, <1>7, <1>8

-----------------------------------------------------------------------------
(* Types *)

LEMMA BrakeStarts == BrakeInit => BrakeInv
<1> SUFFICES ASSUME BrakeInit PROVE BrakeInv
  OBVIOUS
<1>1. IsFiniteSet(rows)
  BY FS_EmptySet DEF BrakeInit
<1>2. BrakeTypeOK
  <2>1. bill \in [Requests -> 0..MaxCost]
    BY LimitsAssumption DEF BrakeInit
  <2>2. stage \in [Requests -> BrakeLocation] /\ asker \in [Requests -> Askers]
    BY DEF BrakeInit, BrakeLocation, Askers
  <2>3. QED BY <2>1, <2>2 DEF BrakeInit, BrakeTypeOK
<1>3. PastInv
  BY DEF BrakeInit, PastInv
<1>4. QED BY <1>1, <1>2, <1>3 DEF BrakeInv

\* A stored row is of today, and costs what its gated call was billed.
LEMMA RowAppended ==
  ASSUME BrakeInv, NEW r \in Requests, NEW llm \in BOOLEAN, NEW cost \in 0..MaxCost,
         AppendRow(r, llm, cost), ~ llm \/ asker[r] = "rtc" => cost = 0,
         day' = day
  PROVE  /\ rows' \in SUBSET Row /\ IsFiniteSet(rows') /\ nextRow' \in Nat
         /\ \A w \in rows' : w.id < nextRow' /\ w.day <= day'
         /\ \A w \in rows' : ~ w.llm \/ w.asker = "rtc" => w.cost = 0
<1> DEFINE new == [id |-> nextRow, day |-> day, asker |-> asker[r], llm |-> llm, cost |-> cost]
<1>1. /\ rows \in SUBSET Row /\ IsFiniteSet(rows) /\ nextRow \in Nat /\ day \in Nat
      /\ asker[r] \in Askers
  BY DEF BrakeInv, BrakeTypeOK
<1>2. new \in Row
  BY <1>1 DEF Row
<1>3. rows' = rows \cup {new} /\ nextRow' = nextRow + 1
  BY DEF AppendRow
<1>4. new.id = nextRow /\ new.day = day /\ new.llm = llm /\ new.cost = cost /\ new.asker = asker[r]
  OBVIOUS
<1> HIDE DEF new
<1>5. IsFiniteSet(rows')
  BY <1>1, <1>3, FS_AddElement
<1>6. \A w \in rows : w.id \in Nat /\ w.id < nextRow /\ w.day <= day
  BY <1>1 DEF BrakeInv, PastInv, Row
<1>7. QED BY <1>1, <1>2, <1>3, <1>4, <1>5, <1>6 DEF BrakeInv, PastInv

LEMMA BrakeStep == BrakeInv /\ [BrakeNext]_brakeVars => BrakeInv'
<1> SUFFICES ASSUME BrakeInv, [BrakeNext]_brakeVars PROVE BrakeInv'
  OBVIOUS
<1> USE LimitsAssumption DEF BrakeLocation, Askers, Gated
<1>1. ASSUME UNCHANGED <<rows, nextRow, day, used>>,
             stage' \in [Requests -> BrakeLocation], asker' \in [Requests -> Askers],
             moment' \in [Requests -> Nat], bill' \in [Requests -> 0..MaxCost],
             \A r \in Requests : moment'[r] <= day,
             \A r \in Requests :
               stage'[r] \in {"daily", "monthly", "calling"} => asker'[r] \in Gated,
             \A r \in Requests : bill'[r] # 0 => stage'[r] = "store" /\ asker'[r] \in Gated
      PROVE  BrakeInv'
  BY <1>1 DEF BrakeInv, BrakeTypeOK, PastInv, used
<1> USE DEF BrakeGoto
<1>2. ASSUME NEW r \in Requests, StartGated(r) PROVE BrakeInv'
  BY <1>1, <1>2 DEF StartGated, BrakeInv, BrakeTypeOK, PastInv
<1>3. ASSUME NEW r \in Requests, CheckDaily(r) \/ CheckMonthly(r) PROVE BrakeInv'
  BY <1>1, <1>3 DEF CheckDaily, CheckMonthly, BrakeInv, BrakeTypeOK, PastInv
<1>4. ASSUME NEW r \in Requests, ProviderAnswers(r) \/ CallFails(r) PROVE BrakeInv'
  BY <1>1, <1>4 DEF ProviderAnswers, CallFails, BrakeInv, BrakeTypeOK, PastInv
<1>5. ASSUME NEW r \in Requests, Mutter(r) \/ RtcTurn(r) PROVE BrakeInv'
  BY <1>1, <1>5 DEF Mutter, RtcTurn, BrakeInv, BrakeTypeOK, PastInv
<1>6. ASSUME NEW r \in Requests, Store(r) PROVE BrakeInv'
  <2>1. /\ stage[r] = "store" /\ AppendRow(r, TRUE, bill[r])
        /\ stage' = [stage EXCEPT ![r] = AfterStore(r)] /\ AfterStore(r) \in {"prune", "idle"}
        /\ bill' = [bill EXCEPT ![r] = 0] /\ UNCHANGED <<day, asker, moment, pruned>>
    BY <1>6 DEF Store, AfterStore
  <2>2. bill[r] \in 0..MaxCost /\ (asker[r] = "rtc" => bill[r] = 0)
    BY DEF BrakeInv, BrakeTypeOK, PastInv
  <2>3. /\ rows' \in SUBSET Row /\ IsFiniteSet(rows') /\ nextRow' \in Nat
        /\ \A w \in rows' : w.id < nextRow' /\ w.day <= day'
        /\ \A w \in rows' : ~ w.llm \/ w.asker = "rtc" => w.cost = 0
    BY <2>1, <2>2, RowAppended
  <2>4. completed' \in Nat /\ spent' \in Nat
    BY <1>6, <2>2 DEF Store, BrakeInv, BrakeTypeOK
  <2>5. bill' \in [Requests -> 0..MaxCost] /\ stage' \in [Requests -> BrakeLocation]
    BY <2>1 DEF BrakeInv, BrakeTypeOK
  <2>6. QED BY <2>1, <2>3, <2>4, <2>5 DEF BrakeInv, BrakeTypeOK, PastInv
<1>7. ASSUME NEW r \in Requests, StoreLocal(r) PROVE BrakeInv'
  <2>1. /\ stage[r] = "storeLocal" /\ AppendRow(r, FALSE, 0)
        /\ stage' = [stage EXCEPT ![r] = AfterStore(r)] /\ AfterStore(r) \in {"prune", "idle"}
        /\ UNCHANGED <<day, asker, moment, bill, used>>
    BY <1>7 DEF StoreLocal, AfterStore
  <2>2. 0 \in 0..MaxCost
    OBVIOUS
  <2>3. /\ rows' \in SUBSET Row /\ IsFiniteSet(rows') /\ nextRow' \in Nat
        /\ \A w \in rows' : w.id < nextRow' /\ w.day <= day'
        /\ \A w \in rows' : ~ w.llm \/ w.asker = "rtc" => w.cost = 0
    BY <2>1, <2>2, RowAppended
  <2>4. stage' \in [Requests -> BrakeLocation]
    BY <2>1 DEF BrakeInv, BrakeTypeOK
  <2>5. QED BY <2>1, <2>3, <2>4 DEF BrakeInv, BrakeTypeOK, PastInv, used
<1>8. ASSUME NEW r \in Requests, Prune(r) PROVE BrakeInv'
  <2>1. /\ rows' \in SUBSET rows /\ pruned' \in BOOLEAN
        /\ stage' = [stage EXCEPT ![r] = "idle"]
        /\ UNCHANGED <<nextRow, day, asker, moment, bill, completed, spent>>
        /\ stage[r] = "prune"
    BY <1>8 DEF Prune, BrakeInv, BrakeTypeOK
  <2>2. IsFiniteSet(rows')
    BY <2>1, FS_Subset DEF BrakeInv
  <2>3. QED BY <2>1, <2>2 DEF BrakeInv, BrakeTypeOK, PastInv
<1>9. CASE NextDay
  <2>1. /\ day' = day + 1 /\ completed' = 0 /\ spent' \in Nat /\ pruned' \in BOOLEAN
        /\ UNCHANGED <<rows, nextRow, stage, asker, moment, bill>>
    <3>1. spent' \in Nat /\ pruned' \in BOOLEAN
      <4>1. CASE UNCHANGED <<spent, pruned>>
        BY <4>1 DEF BrakeInv, BrakeTypeOK
      <4>2. CASE spent' = 0 /\ pruned' = FALSE
        BY <4>2
      <4>3. QED BY <1>9, <4>1, <4>2 DEF NextDay
    <3>2. QED BY <1>9, <3>1 DEF NextDay
  <2>2. /\ \A w \in rows : w.day <= day'
        /\ \A r \in Requests : moment[r] <= day'
    BY <2>1 DEF BrakeInv, BrakeTypeOK, PastInv, Row
  <2>3. QED BY <2>1, <2>2 DEF BrakeInv, BrakeTypeOK, PastInv
<1>10. CASE UNCHANGED brakeVars
  BY <1>1, <1>10 DEF brakeVars, used, BrakeInv, BrakeTypeOK, PastInv
<1>11. QED
  BY <1>2, <1>3, <1>4, <1>5, <1>6, <1>7, <1>8, <1>9, <1>10 DEF BrakeNext

\* Every reachable state of the log and the requests is well typed.
THEOREM BrakeTypeCorrect == BrakeSpec => []BrakeTypeOK
  BY BrakeStarts, BrakeStep, PTL DEF BrakeSpec, BrakeInv

-----------------------------------------------------------------------------
(* The daily cap *)

LEMMA Counts ==
  ASSUME BrakeInv
  PROVE  /\ IsFiniteSet(GatedToday) /\ Cardinality(GatedToday) \in Nat
         /\ IsFiniteSet(InFlight) /\ Cardinality(InFlight) \in Nat
         /\ Cardinality(InFlight) <= Cardinality(Requests)
         /\ IsFiniteSet(Paying) /\ Cardinality(Paying) \in Nat
         /\ Cardinality(Paying) <= Cardinality(Requests)
         /\ Cardinality(Requests) \in Nat
<1>1. GatedToday \in SUBSET rows /\ InFlight \in SUBSET Requests /\ Paying \in SUBSET Requests
  BY DEF GatedToday, InFlight, Paying
<1>2. IsFiniteSet(rows) /\ IsFiniteSet(Requests)
  BY RequestsAssumption DEF BrakeInv
<1>3. QED BY <1>1, <1>2, FS_Subset, FS_CardinalityType

\* A step behind which neither is larger keeps the bound.
LEMMA DailyKept ==
  ASSUME BrakeInv, BrakeInv', DailyOvershoot,
         GatedToday' \subseteq GatedToday, InFlight' \subseteq InFlight
  PROVE  DailyOvershoot'
<1>1. /\ Cardinality(GatedToday') <= Cardinality(GatedToday) /\ Cardinality(GatedToday') \in Nat
      /\ Cardinality(InFlight') <= Cardinality(InFlight) /\ Cardinality(InFlight') \in Nat
  <2>1. GatedToday' \in SUBSET GatedToday /\ InFlight' \in SUBSET InFlight
    OBVIOUS
  <2>2. QED BY <2>1, Counts, FS_Subset, FS_CardinalityType
<1>2. QED BY <1>1, Counts, LimitsAssumption DEF DailyOvershoot

LEMMA DailyStep ==
  BrakeInv /\ DailyOvershoot /\ [BrakeNext]_brakeVars => DailyOvershoot'
<1> SUFFICES ASSUME BrakeInv, DailyOvershoot, [BrakeNext]_brakeVars PROVE DailyOvershoot'
  OBVIOUS
<1> USE DEF BrakeGoto
<1>0. BrakeInv'
  BY BrakeStep
<1>1. ASSUME UNCHANGED <<rows, day>>, InFlight' \subseteq InFlight PROVE DailyOvershoot'
  <2>1. GatedToday' = GatedToday
    BY <1>1 DEF GatedToday
  <2>2. QED BY <1>0, <1>1, <2>1, DailyKept
<1>2. ASSUME NEW r \in Requests, StartGated(r) \/ Mutter(r) \/ RtcTurn(r) PROVE DailyOvershoot'
  <2>1. InFlight' \subseteq InFlight
    BY <1>2 DEF StartGated, Mutter, RtcTurn, InFlight, BrakeInv, BrakeTypeOK, Gated
  <2>2. QED BY <1>1, <1>2, <2>1 DEF StartGated, Mutter, RtcTurn
<1>3. ASSUME NEW r \in Requests, CheckMonthly(r) \/ ProviderAnswers(r) \/ CallFails(r)
      PROVE  DailyOvershoot'
  <2>1. InFlight' \subseteq InFlight
    BY <1>3 DEF CheckMonthly, ProviderAnswers, CallFails, InFlight, BrakeInv, BrakeTypeOK
  <2>2. QED BY <1>1, <1>3, <2>1 DEF CheckMonthly, ProviderAnswers, CallFails
<1>4. ASSUME NEW r \in Requests, CheckDaily(r) PROVE DailyOvershoot'
  <2>1. CASE stage' = [stage EXCEPT ![r] = "storeLocal"]
    <3>1. InFlight' \subseteq InFlight
      BY <1>4, <2>1 DEF CheckDaily, InFlight, BrakeInv, BrakeTypeOK
    <3>2. QED BY <1>1, <1>4, <3>1 DEF CheckDaily
  <2>2. CASE DailyLimit > 0 /\ ~ (CountTurnsSince(moment[r]) >= DailyLimit)
    <3> DEFINE seen == {w \in Since(moment[r]) : w.llm}
    <3>1. GatedToday \in SUBSET seen /\ seen \in SUBSET rows
      BY DEF GatedToday, Since, BrakeInv, BrakeTypeOK, PastInv, Row
    <3>2. IsFiniteSet(seen)
      BY <3>1, FS_Subset DEF BrakeInv
    <3>3. Cardinality(GatedToday) <= Cardinality(seen) /\ Cardinality(seen) \in Nat
      BY <3>1, <3>2, FS_Subset, FS_CardinalityType
    <3>4. Cardinality(GatedToday) <= DailyLimit - 1
      BY <2>2, <3>3, Counts, LimitsAssumption DEF CountTurnsSince
    <3>5. GatedToday' = GatedToday
      BY <1>4 DEF CheckDaily, GatedToday
    <3>6. Cardinality(InFlight') <= Cardinality(Requests) /\ Cardinality(InFlight') \in Nat
      <4>1. InFlight' \in SUBSET Requests
        BY DEF InFlight
      <4>2. QED BY <4>1, RequestsAssumption, FS_Subset, FS_CardinalityType
    <3>7. QED BY <3>4, <3>5, <3>6, Counts, LimitsAssumption DEF DailyOvershoot
  <2>3. CASE ~ (DailyLimit > 0)
    BY <2>3 DEF DailyOvershoot
  <2>4. QED BY <1>4, <2>1, <2>2, <2>3 DEF CheckDaily
<1>5. ASSUME NEW r \in Requests, Store(r) PROVE DailyOvershoot'
  <2> DEFINE new == [id |-> nextRow, day |-> day, asker |-> asker[r], llm |-> TRUE,
                     cost |-> bill[r]]
  <2>1. /\ stage[r] = "store" /\ rows' = rows \cup {new} /\ UNCHANGED <<day, asker>>
        /\ stage' = [stage EXCEPT ![r] = AfterStore(r)] /\ AfterStore(r) \in {"prune", "idle"}
    BY <1>5 DEF Store, AppendRow, AfterStore
  <2>2. CASE asker[r] \notin Gated
    <3>1. GatedToday' \subseteq GatedToday /\ InFlight' \subseteq InFlight
      BY <2>1, <2>2 DEF GatedToday, InFlight, BrakeInv, BrakeTypeOK
    <3>2. QED BY <1>0, <3>1, DailyKept
  <2>3. CASE asker[r] \in Gated
    <3>1. new \notin rows
      BY DEF BrakeInv, BrakeTypeOK, PastInv, Row
    <3>2. GatedToday' = GatedToday \cup {new} /\ new \notin GatedToday
      BY <2>1, <2>3, <3>1 DEF GatedToday
    <3>3. InFlight' = InFlight \ {r} /\ r \in InFlight
      BY <2>1, <2>3 DEF InFlight, BrakeInv, BrakeTypeOK
    <3> HIDE DEF new
    <3>4. /\ Cardinality(GatedToday') = Cardinality(GatedToday) + 1
          /\ Cardinality(InFlight') = Cardinality(InFlight) - 1
      BY <3>2, <3>3, Counts, FS_AddElement, FS_RemoveElement
    <3>5. QED BY <3>4, Counts, LimitsAssumption DEF DailyOvershoot
  <2>4. QED BY <2>2, <2>3
<1>6. ASSUME NEW r \in Requests, StoreLocal(r) PROVE DailyOvershoot'
  <2>1. /\ \E w : w.llm = FALSE /\ rows' = rows \cup {w}
        /\ UNCHANGED <<day, asker>> /\ stage[r] = "storeLocal"
        /\ stage' = [stage EXCEPT ![r] = AfterStore(r)] /\ AfterStore(r) \in {"prune", "idle"}
    BY <1>6 DEF StoreLocal, AppendRow, AfterStore
  <2>2. GatedToday' \subseteq GatedToday /\ InFlight' \subseteq InFlight
    BY <2>1 DEF GatedToday, InFlight, BrakeInv, BrakeTypeOK
  <2>3. QED BY <1>0, <2>2, DailyKept
<1>7. ASSUME NEW r \in Requests, Prune(r) PROVE DailyOvershoot'
  <2>1. /\ rows' \subseteq rows /\ UNCHANGED <<day, asker>> /\ stage[r] = "prune"
        /\ stage' = [stage EXCEPT ![r] = "idle"]
    BY <1>7 DEF Prune
  <2>2. GatedToday' \subseteq GatedToday /\ InFlight' \subseteq InFlight
    BY <2>1 DEF GatedToday, InFlight, BrakeInv, BrakeTypeOK
  <2>3. QED BY <1>0, <2>2, DailyKept
<1>8. CASE NextDay
  <2>1. day' = day + 1 /\ UNCHANGED <<rows, stage, asker>>
    BY <1>8 DEF NextDay
  <2>2. GatedToday' \subseteq GatedToday /\ InFlight' \subseteq InFlight
    <3>1. \A w \in rows : w.day # day'
      BY <2>1 DEF BrakeInv, BrakeTypeOK, PastInv, Row
    <3>2. QED BY <2>1, <3>1 DEF GatedToday, InFlight
  <2>3. QED BY <1>0, <2>2, DailyKept
<1>9. CASE UNCHANGED brakeVars
  <2>1. GatedToday' \subseteq GatedToday /\ InFlight' \subseteq InFlight
    BY <1>9 DEF brakeVars, GatedToday, InFlight
  <2>2. QED BY <1>0, <2>1, DailyKept
<1>10. QED
  BY <1>2, <1>3, <1>4, <1>5, <1>6, <1>7, <1>8, <1>9 DEF BrakeNext

-----------------------------------------------------------------------------
(* The monthly cap *)

\* The cents counted from a day on are a finite set, which shrinks with the rows
\* and with a later day.
LEMMA Cents ==
  ASSUME BrakeInv, NEW d \in Nat
  PROVE  IsFiniteSet(CentsSince(d)) /\ SumCostSince(d) \in Nat
<1>1. Since(d) \in SUBSET rows
  BY DEF Since
<1>2. IsFiniteSet(Since(d)) /\ IsFiniteSet(1..MaxCost)
  BY <1>1, FS_Subset, FS_Interval, LimitsAssumption DEF BrakeInv
<1>3. IsFiniteSet(Since(d) \X (1..MaxCost))
  BY <1>2, FS_Product
<1>4. CentsSince(d) \in SUBSET (Since(d) \X (1..MaxCost))
  BY DEF CentsSince
<1>5. QED BY <1>3, <1>4, FS_Subset, FS_CardinalityType DEF SumCostSince

LEMMA CentsLater ==
  ASSUME BrakeInv, NEW d \in Nat, NEW e \in Nat, d <= e
  PROVE  SumCostSince(e) <= SumCostSince(d)
<1>1. Since(e) \subseteq Since(d)
  BY DEF Since, BrakeInv, BrakeTypeOK, Row
<1>2. CentsSince(e) \in SUBSET CentsSince(d)
  BY <1>1 DEF CentsSince
<1>3. QED BY <1>2, Cents, FS_Subset DEF SumCostSince

LEMMA CentsFewer ==
  ASSUME BrakeInv, NEW d \in Nat, rows' \subseteq rows
  PROVE  SumCostSince(d)' <= SumCostSince(d) /\ SumCostSince(d)' \in Nat
<1>1. Since(d)' \subseteq Since(d)
  BY DEF Since
<1>2. CentsSince(d)' \in SUBSET CentsSince(d)
  BY <1>1 DEF CentsSince
<1>3. QED BY <1>2, Cents, FS_Subset, FS_CardinalityType DEF SumCostSince

\* A stored row adds what it cost.
LEMMA CentsAdded ==
  ASSUME BrakeInv, NEW w, w \notin rows, NEW c \in 0..MaxCost, NEW d \in Nat,
         w.cost = c, w.day >= d, rows' = rows \cup {w}
  PROVE  SumCostSince(d)' = SumCostSince(d) + c
<1> DEFINE own == {w} \X (1..c)
<1>1. Since(d)' = Since(d) \cup {w} /\ w \notin Since(d)
  BY DEF Since
<1>2. CentsSince(d)' = CentsSince(d) \cup own /\ CentsSince(d) \cap own = {}
  <2>1. \A n \in 1..MaxCost : n <= c <=> n \in 1..c
    BY LimitsAssumption
  <2>2. \A n \in 1..c : n \in 1..MaxCost
    BY LimitsAssumption
  <2>3. ASSUME NEW x PROVE x \in CentsSince(d)' <=> x \in CentsSince(d) \/ x \in own
    BY <1>1, <2>1, <2>2 DEF CentsSince
  <2>4. ASSUME NEW x PROVE ~ (x \in CentsSince(d) /\ x \in own)
    BY <1>1 DEF CentsSince
  <2>5. QED BY <2>3, <2>4
<1>3. IsFiniteSet(own) /\ Cardinality(own) = c
  <2>1. IsFiniteSet(1..c) /\ Cardinality(1..c) = c
    BY FS_Interval, LimitsAssumption
  <2>2. IsFiniteSet({w}) /\ Cardinality({w}) = 1
    BY FS_Singleton
  <2>3. IsFiniteSet(own) /\ Cardinality(own) = Cardinality({w}) * Cardinality(1..c)
    BY <2>1, <2>2, FS_Product
  <2>4. QED BY <2>1, <2>2, <2>3, LimitsAssumption
<1> HIDE DEF own
<1>4. Cardinality(CentsSince(d) \cup own)
        = Cardinality(CentsSince(d)) + Cardinality(own) - Cardinality({})
  BY <1>2, <1>3, Cents, FS_Union
<1>5. QED BY <1>2, <1>3, <1>4, Cents, FS_EmptySet, LimitsAssumption DEF SumCostSince

\* The arithmetic of the costs still to be paid.
LEMMA Times ==
  ASSUME NEW m \in Nat, NEW n \in Nat
  PROVE  /\ n * MaxCost \in Nat
         /\ m <= n => m * MaxCost <= n * MaxCost
         /\ n > 0 => (n - 1) * MaxCost = n * MaxCost - MaxCost
<1>1. m * MaxCost \in Nat /\ n * MaxCost \in Nat
  BY LimitsAssumption
<1>2. ASSUME m <= n PROVE m * MaxCost <= n * MaxCost
  <2>1. n - m \in Nat
    BY <1>2
  <2>2. (n - m) * MaxCost \in Nat
    BY <2>1, LimitsAssumption
  <2>3. n * MaxCost = m * MaxCost + (n - m) * MaxCost
    BY LimitsAssumption
  <2>4. QED BY <1>1, <2>2, <2>3
<1>3. (n - 1) * MaxCost = n * MaxCost - MaxCost
  BY LimitsAssumption
<1>4. QED BY <1>1, <1>2, <1>3

LEMMA Today ==
  ASSUME BrakeInv
  PROVE  /\ day \in Nat /\ MonthStart(day) \in Nat /\ MonthStart(day) <= day
         /\ \A r \in Requests : moment[r] \in Nat /\ moment[r] <= day
  BY Months DEF BrakeInv, BrakeTypeOK, PastInv

LEMMA MonthlyKept ==
  ASSUME BrakeInv, MonthlyInv, Paying' \subseteq Paying,
         SumCostSince(MonthStart(day))' <= SumCostSince(MonthStart(day)),
         SumCostSince(MonthStart(day))' \in Nat
  PROVE  MonthlyInv'
<1>1. Cardinality(Paying') <= Cardinality(Paying) /\ Cardinality(Paying') \in Nat
  BY Counts, FS_Subset, FS_CardinalityType
<1>2. Cardinality(Paying') * MaxCost <= Cardinality(Paying) * MaxCost
  BY <1>1, Counts, Times
<1>3. SumCostSince(MonthStart(day)) \in Nat
  BY Today, Cents
<1>4. /\ Cardinality(Paying') * MaxCost \in Nat /\ Cardinality(Paying) * MaxCost \in Nat
      /\ Cardinality(Requests) * MaxCost \in Nat
  BY <1>1, Counts, Times
<1>5. QED BY <1>2, <1>3, <1>4, LimitsAssumption DEF MonthlyInv

LEMMA MonthlyStep == BrakeInv /\ MonthlyInv /\ [BrakeNext]_brakeVars => MonthlyInv'
<1> SUFFICES ASSUME BrakeInv, MonthlyInv, [BrakeNext]_brakeVars PROVE MonthlyInv'
  OBVIOUS
<1> USE DEF BrakeGoto
<1> DEFINE S == SumCostSince(MonthStart(day))
<1>0. S \in Nat
  BY Today, Cents
<1>1. ASSUME UNCHANGED <<rows, day>> PROVE S' = S
  BY <1>1 DEF SumCostSince, CentsSince, Since, MonthStart
<1>2. ASSUME rows' \subseteq rows, day' = day PROVE S' <= S /\ S' \in Nat
  <2>1. PICK d \in Nat : d = MonthStart(day) /\ d = MonthStart(day)'
    BY <1>2, Today DEF MonthStart
  <2>2. SumCostSince(d)' <= SumCostSince(d) /\ SumCostSince(d)' \in Nat
    BY <1>2, CentsFewer
  <2>3. SumCostSince(d) = S /\ SumCostSince(d)' = S'
    BY <2>1 DEF SumCostSince, CentsSince, Since
  <2>4. QED BY <2>2, <2>3
<1>3. ASSUME NEW w, w \notin rows, NEW c \in 0..MaxCost, w.cost = c, w.day = day,
             rows' = rows \cup {w}, day' = day
      PROVE  S' = S + c
  <2>1. PICK d \in Nat : d = MonthStart(day) /\ d = MonthStart(day)' /\ day >= d
    BY <1>3, Today DEF MonthStart
  <2>2. SumCostSince(d)' = SumCostSince(d) + c
    BY <1>3, <2>1, CentsAdded
  <2>3. SumCostSince(d) = S /\ SumCostSince(d)' = S'
    BY <2>1 DEF SumCostSince, CentsSince, Since
  <2>4. QED BY <2>2, <2>3
<1> HIDE DEF S
<1>4. ASSUME Paying' \subseteq Paying, S' <= S, S' \in Nat PROVE MonthlyInv'
  BY <1>4, MonthlyKept DEF S
<1>5. ASSUME NEW r \in Requests,
             StartGated(r) \/ Mutter(r) \/ RtcTurn(r) \/ CheckDaily(r)
      PROVE  MonthlyInv'
  <2>1. Paying' \subseteq Paying
    BY <1>5 DEF StartGated, Mutter, RtcTurn, CheckDaily, Paying, BrakeInv, BrakeTypeOK, Gated
  <2>2. UNCHANGED <<rows, day>>
    BY <1>5 DEF StartGated, Mutter, RtcTurn, CheckDaily
  <2>3. QED BY <1>0, <1>1, <1>4, <2>1, <2>2
<1>6. ASSUME NEW r \in Requests, ProviderAnswers(r) \/ CallFails(r) PROVE MonthlyInv'
  <2>1. Paying' \subseteq Paying
    BY <1>6 DEF ProviderAnswers, CallFails, Paying, BrakeInv, BrakeTypeOK
  <2>2. UNCHANGED <<rows, day>>
    BY <1>6 DEF ProviderAnswers, CallFails
  <2>3. QED BY <1>0, <1>1, <1>4, <2>1, <2>2
<1>7. ASSUME NEW r \in Requests, CheckMonthly(r) PROVE MonthlyInv'
  <2>1. UNCHANGED <<rows, day, asker>>
    BY <1>7 DEF CheckMonthly
  <2>2. CASE stage' = [stage EXCEPT ![r] = "storeLocal"]
    <3>1. Paying' \subseteq Paying
      BY <2>1, <2>2 DEF Paying, BrakeInv, BrakeTypeOK
    <3>2. QED BY <1>0, <1>1, <1>4, <2>1, <3>1
  <2>3. CASE MonthlyLimit > 0 /\ ~ (SumCostSince(MonthStart(moment[r])) >= MonthlyLimit)
    <3> DEFINE old == MonthStart(moment[r])
    <3>1. old \in Nat /\ old <= MonthStart(day)
      BY Today, Months
    <3>2. S <= SumCostSince(old) /\ SumCostSince(old) \in Nat
      BY <3>1, Today, CentsLater, Cents DEF S
    <3>3. S <= MonthlyLimit - 1
      BY <1>0, <2>3, <3>2, LimitsAssumption
    <3>4. Cardinality(Paying') <= Cardinality(Requests) /\ Cardinality(Paying') \in Nat
      <4>1. Paying' \in SUBSET Requests
        BY DEF Paying
      <4>2. QED BY <4>1, RequestsAssumption, FS_Subset, FS_CardinalityType
    <3>5. Cardinality(Paying') * MaxCost <= Cardinality(Requests) * MaxCost
      BY <3>4, Counts, Times
    <3>6. Cardinality(Paying') * MaxCost \in Nat /\ Cardinality(Requests) * MaxCost \in Nat
      BY <3>4, Counts, Times
    <3>7. S' <= MonthlyLimit - 1
      BY <1>1, <2>1, <3>3
    <3>8. S' \in Nat
      BY <1>0, <1>1, <2>1
    <3> HIDE DEF old
    <3>9. QED BY <3>5, <3>6, <3>7, <3>8, LimitsAssumption DEF MonthlyInv, S
  <2>4. CASE ~ (MonthlyLimit > 0)
    BY <2>4 DEF MonthlyInv
  <2>5. QED BY <1>7, <2>2, <2>3, <2>4 DEF CheckMonthly
<1>8. ASSUME NEW r \in Requests, Store(r) PROVE MonthlyInv'
  <2> DEFINE new == [id |-> nextRow, day |-> day, asker |-> asker[r], llm |-> TRUE,
                     cost |-> bill[r]]
  <2>1. /\ stage[r] = "store" /\ rows' = rows \cup {new} /\ UNCHANGED <<day, asker>>
        /\ stage' = [stage EXCEPT ![r] = AfterStore(r)] /\ AfterStore(r) \in {"prune", "idle"}
    BY <1>8 DEF Store, AppendRow, AfterStore
  <2>2. new \notin rows /\ new.cost = bill[r] /\ new.day = day
    BY DEF BrakeInv, BrakeTypeOK, PastInv, Row
  <2>3. bill[r] \in 0..MaxCost
    BY DEF BrakeInv, BrakeTypeOK
  <2> HIDE DEF new
  <2>4. S' = S + bill[r]
    BY <1>3, <2>1, <2>2, <2>3
  <2>5. CASE asker[r] \notin Gated
    <3>1. bill[r] = 0
      BY <2>5 DEF BrakeInv, PastInv
    <3>2. Paying' \subseteq Paying
      BY <2>1, <2>5 DEF Paying, BrakeInv, BrakeTypeOK
    <3>3. QED BY <1>0, <1>4, <2>4, <3>1, <3>2
  <2>6. CASE asker[r] \in Gated
    <3>1. Paying' = Paying \ {r} /\ r \in Paying
      BY <2>1, <2>6 DEF Paying, BrakeInv, BrakeTypeOK
    <3>2. Cardinality(Paying') = Cardinality(Paying) - 1 /\ Cardinality(Paying) > 0
      BY <3>1, Counts, FS_RemoveElement, FS_EmptySet
    <3>3. Cardinality(Paying') * MaxCost = Cardinality(Paying) * MaxCost - MaxCost
      BY <3>2, Counts, Times
    <3>4. Cardinality(Paying) * MaxCost \in Nat /\ Cardinality(Requests) * MaxCost \in Nat
      BY Counts, Times
    <3>5. bill[r] \in Int /\ bill[r] <= MaxCost
      BY <2>3, LimitsAssumption
    <3>6. QED BY <1>0, <2>4, <3>3, <3>4, <3>5, LimitsAssumption DEF MonthlyInv, S
  <2>7. QED BY <2>5, <2>6
<1>9. ASSUME NEW r \in Requests, StoreLocal(r) PROVE MonthlyInv'
  <2> DEFINE new == [id |-> nextRow, day |-> day, asker |-> asker[r], llm |-> FALSE, cost |-> 0]
  <2>1. /\ stage[r] = "storeLocal" /\ rows' = rows \cup {new} /\ UNCHANGED <<day, asker>>
        /\ stage' = [stage EXCEPT ![r] = AfterStore(r)] /\ AfterStore(r) \in {"prune", "idle"}
    BY <1>9 DEF StoreLocal, AppendRow, AfterStore
  <2>2. new \notin rows /\ new.cost = 0 /\ new.day = day
    BY DEF BrakeInv, BrakeTypeOK, PastInv, Row
  <2> HIDE DEF new
  <2>3. 0 \in 0..MaxCost
    BY LimitsAssumption
  <2>4. S' = S + 0
    BY <1>3, <2>1, <2>2, <2>3
  <2>5. Paying' \subseteq Paying
    BY <2>1 DEF Paying, BrakeInv, BrakeTypeOK
  <2>6. QED BY <1>0, <1>4, <2>4, <2>5
<1>10. ASSUME NEW r \in Requests, Prune(r) PROVE MonthlyInv'
  <2>1. /\ rows' \subseteq rows /\ UNCHANGED <<day, asker>> /\ stage[r] = "prune"
        /\ stage' = [stage EXCEPT ![r] = "idle"]
    BY <1>10 DEF Prune
  <2>2. Paying' \subseteq Paying
    BY <2>1 DEF Paying, BrakeInv, BrakeTypeOK
  <2>3. QED BY <1>2, <1>4, <2>1, <2>2
<1>11. CASE NextDay
  <2>1. day' = day + 1 /\ UNCHANGED <<rows, stage, asker>>
    BY <1>11 DEF NextDay
  <2>2. PICK d \in Nat, e \in Nat : d = MonthStart(day) /\ e = MonthStart(day + 1) /\ d <= e
    BY Today, Months
  <2>3. SumCostSince(e) <= SumCostSince(d) /\ SumCostSince(e) \in Nat
    BY <2>2, CentsLater, Cents
  <2>4. S = SumCostSince(d) /\ S' = SumCostSince(e)
    BY <2>1, <2>2 DEF S, SumCostSince, CentsSince, Since, MonthStart
  <2>5. Paying' \subseteq Paying
    BY <2>1 DEF Paying
  <2>6. QED BY <1>4, <2>3, <2>4, <2>5
<1>12. CASE UNCHANGED brakeVars
  <2>1. Paying' \subseteq Paying /\ UNCHANGED <<rows, day>>
    BY <1>12 DEF brakeVars, Paying
  <2>2. QED BY <1>0, <1>1, <1>4, <2>1
<1>13. QED
  BY <1>5, <1>6, <1>7, <1>8, <1>9, <1>10, <1>11, <1>12 DEF BrakeNext

-----------------------------------------------------------------------------
(* The account *)

LEMMA UsageStep == BrakeInv /\ UsageInv /\ [BrakeNext]_brakeVars => UsageInv'
<1> SUFFICES ASSUME BrakeInv, UsageInv, [BrakeNext]_brakeVars, ~ pruned' PROVE UsageInv'
  BY DEF UsageInv
<1> USE DEF BrakeGoto
<1> DEFINE S == SumCostSince(MonthStart(day))
<1>0. S \in Nat
  BY Today, Cents
<1>1. ASSUME UNCHANGED <<rows, day, used>> PROVE UsageInv'
  BY <1>1 DEF UsageInv, GatedToday, SumCostSince, CentsSince, Since, MonthStart, used
<1>2. ASSUME NEW w, w \notin rows, NEW c \in 0..MaxCost, w.cost = c, w.day = day,
             rows' = rows \cup {w}, day' = day
      PROVE  S' = S + c
  <2>1. PICK d \in Nat : d = MonthStart(day) /\ d = MonthStart(day)' /\ day >= d
    BY <1>2, Today DEF MonthStart
  <2>2. SumCostSince(d)' = SumCostSince(d) + c
    BY <1>2, <2>1, CentsAdded
  <2>3. SumCostSince(d) = S /\ SumCostSince(d)' = S'
    BY <2>1 DEF SumCostSince, CentsSince, Since
  <2>4. QED BY <2>2, <2>3
<1> HIDE DEF S
<1>3. ASSUME NEW r \in Requests,
             \/ StartGated(r) \/ Mutter(r) \/ RtcTurn(r) \/ CheckDaily(r)
             \/ CheckMonthly(r) \/ ProviderAnswers(r) \/ CallFails(r)
      PROVE  UsageInv'
  <2>1. UNCHANGED <<rows, day, used>>
    BY <1>3 DEF StartGated, Mutter, RtcTurn, CheckDaily, CheckMonthly, ProviderAnswers, CallFails
  <2>2. QED BY <1>1, <2>1
<1>4. ASSUME NEW r \in Requests, Store(r) PROVE UsageInv'
  <2> DEFINE new == [id |-> nextRow, day |-> day, asker |-> asker[r], llm |-> TRUE,
                     cost |-> bill[r]]
  <2>1. rows' = rows \cup {new} /\ UNCHANGED <<day, pruned>>
    BY <1>4 DEF Store, AppendRow
  <2>2. new \notin rows /\ new.cost = bill[r] /\ new.day = day
    BY DEF BrakeInv, BrakeTypeOK, PastInv, Row
  <2>3. bill[r] \in 0..MaxCost /\ bill[r] \in Nat
    BY LimitsAssumption DEF BrakeInv, BrakeTypeOK
  <2>4. new.llm = TRUE /\ new.asker = asker[r]
    OBVIOUS
  <2> HIDE DEF new
  <2>5. S' = S + bill[r]
    BY <1>2, <2>1, <2>2, <2>3
  <2>6. CASE asker[r] \notin Gated
    <3>1. bill[r] = 0
      BY <2>6 DEF BrakeInv, PastInv
    <3>2. GatedToday' = GatedToday
      BY <2>1, <2>4, <2>6 DEF GatedToday
    <3>3. UNCHANGED <<completed, spent>>
      BY <1>4, <2>6 DEF Store
    <3>4. QED BY <1>0, <2>1, <2>5, <3>1, <3>2, <3>3 DEF UsageInv, S
  <2>7. CASE asker[r] \in Gated
    <3>1. GatedToday' = GatedToday \cup {new} /\ new \notin GatedToday
      BY <2>1, <2>2, <2>4, <2>7 DEF GatedToday
    <3>2. Cardinality(GatedToday') = Cardinality(GatedToday) + 1
      BY <3>1, Counts, FS_AddElement
    <3>3. completed' = completed + 1 /\ spent' = spent + bill[r]
      BY <1>4, <2>7 DEF Store
    <3>4. QED BY <2>1, <2>5, <3>2, <3>3 DEF UsageInv, S
  <2>8. QED BY <2>6, <2>7
<1>5. ASSUME NEW r \in Requests, StoreLocal(r) PROVE UsageInv'
  <2> DEFINE new == [id |-> nextRow, day |-> day, asker |-> asker[r], llm |-> FALSE, cost |-> 0]
  <2>1. rows' = rows \cup {new} /\ UNCHANGED <<day, used>>
    BY <1>5 DEF StoreLocal, AppendRow
  <2>2. new \notin rows /\ new.cost = 0 /\ new.day = day /\ new.llm = FALSE
    BY DEF BrakeInv, BrakeTypeOK, PastInv, Row
  <2> HIDE DEF new
  <2>3. 0 \in 0..MaxCost
    BY LimitsAssumption
  <2>4. S' = S
    BY <1>0, <1>2, <2>1, <2>2, <2>3
  <2>5. GatedToday' = GatedToday
    BY <2>1, <2>2 DEF GatedToday
  <2>6. QED BY <2>1, <2>4, <2>5 DEF UsageInv, S, used
<1>6. ASSUME NEW r \in Requests, Prune(r) PROVE UsageInv'
  <2>1. /\ UNCHANGED <<day, completed, spent>> /\ ~ pruned /\ rows' \subseteq rows
        /\ \A w \in rows : w \in rows' \/ ~ (w.llm /\ w.day >= MonthStart(day))
    BY <1>6 DEF Prune
  <2>2. GatedToday' = GatedToday
    BY <2>1, Today DEF GatedToday
  <2>3. CentsSince(MonthStart(day))' = CentsSince(MonthStart(day))
    <3>1. ASSUME NEW w \in Since(MonthStart(day)), w \notin rows' PROVE w.cost = 0
      BY <2>1, <3>1 DEF Since, BrakeInv, PastInv
    <3>2. \A n \in 1..MaxCost : ~ (n <= 0)
      BY LimitsAssumption
    <3>3. Since(MonthStart(day))' \subseteq Since(MonthStart(day))
      BY <2>1 DEF Since, MonthStart
    <3>4. ASSUME NEW w \in Since(MonthStart(day)), w \in rows'
          PROVE  w \in Since(MonthStart(day))'
      BY <2>1, <3>4 DEF Since, MonthStart
    <3>5. ASSUME NEW x
          PROVE  x \in CentsSince(MonthStart(day))' <=> x \in CentsSince(MonthStart(day))
      BY <3>1, <3>2, <3>3, <3>4 DEF CentsSince
    <3>6. QED BY <3>5
  <2>4. QED BY <2>1, <2>2, <2>3 DEF UsageInv, SumCostSince
<1>7. CASE NextDay
  <2>1. /\ day' = day + 1 /\ completed' = 0 /\ UNCHANGED rows
        /\ MonthStart(day') = MonthStart(day) => UNCHANGED <<spent, pruned>>
        /\ MonthStart(day') # MonthStart(day) => spent' = 0
    BY <1>7 DEF NextDay
  <2>2. GatedToday' = {}
    BY <2>1 DEF GatedToday, BrakeInv, BrakeTypeOK, PastInv, Row
  <2>3. Cardinality(GatedToday') = 0
    BY <2>2, FS_EmptySet
  <2>4. CASE MonthStart(day') = MonthStart(day)
    <3>1. S' = S
      BY <2>1, <2>4 DEF S, SumCostSince, CentsSince, Since
    <3>2. QED BY <2>1, <2>3, <2>4, <3>1 DEF UsageInv, S
  <2>5. CASE MonthStart(day') # MonthStart(day)
    <3>1. day < MonthStart(day')
      BY <2>1, <2>5, Today, Months
    <3>2. Since(MonthStart(day))' = {}
      BY <2>1, <3>1, Today, Months DEF Since, BrakeInv, BrakeTypeOK, PastInv, Row
    <3>3. CentsSince(MonthStart(day))' = {}
      BY <3>2 DEF CentsSince
    <3>4. S' = 0
      BY <3>3, FS_EmptySet DEF S, SumCostSince
    <3>5. QED BY <2>1, <2>3, <2>5, <3>4 DEF UsageInv, S
  <2>6. QED BY <2>4, <2>5
<1>8. CASE UNCHANGED brakeVars
  BY <1>1, <1>8 DEF brakeVars, used
<1>9. QED
  BY <1>3, <1>4, <1>5, <1>6, <1>7, <1>8 DEF BrakeNext

\* The caps hold up to the requests in flight: a request that passes the brake has
\* read what was stored, and every other can add one turn, or one call's cost. The
\* same bounds what was really used, until pruning takes paid turns out of the log.
THEOREM OvershootBoundedHolds == BrakeSpec => []OvershootBounded
<1>1. BrakeInit => BrakeInv /\ DailyOvershoot /\ MonthlyInv /\ UsageInv
  <2> SUFFICES ASSUME BrakeInit PROVE BrakeInv /\ DailyOvershoot /\ MonthlyInv /\ UsageInv
    OBVIOUS
  <2>1. BrakeInv
    BY BrakeStarts
  <2>2. GatedToday = {} /\ InFlight = {} /\ Paying = {} /\ CentsSince(MonthStart(day)) = {}
    BY DEF BrakeInit, GatedToday, InFlight, Paying, CentsSince, Since
  <2>3. /\ Cardinality(GatedToday) = 0 /\ Cardinality(InFlight) = 0
        /\ Cardinality(Paying) = 0 /\ SumCostSince(MonthStart(day)) = 0
    BY <2>2, FS_EmptySet DEF SumCostSince
  <2>4. 0 * MaxCost = 0 /\ Cardinality(Requests) * MaxCost \in Nat /\ Cardinality(Requests) \in Nat
    BY <2>1, Counts, Times, LimitsAssumption
  <2>5. DailyOvershoot /\ MonthlyInv
    BY <2>3, <2>4, LimitsAssumption DEF DailyOvershoot, MonthlyInv
  <2>6. UsageInv
    BY <2>3 DEF UsageInv, BrakeInit
  <2>7. QED BY <2>1, <2>5, <2>6
<1>2. BrakeInv /\ DailyOvershoot /\ MonthlyInv /\ UsageInv => OvershootBounded
  <2> SUFFICES ASSUME BrakeInv, DailyOvershoot, MonthlyInv, UsageInv
               PROVE  MonthlyOvershoot /\ UsageUnlessPruned
    BY DEF OvershootBounded
  <2>1. /\ Cardinality(Paying) * MaxCost \in Nat /\ Cardinality(Requests) * MaxCost \in Nat
        /\ SumCostSince(MonthStart(day)) \in Nat
    BY Counts, Times, Today, Cents
  <2>2. MonthlyOvershoot
    BY <2>1, LimitsAssumption DEF MonthlyInv, MonthlyOvershoot
  <2>3. UsageUnlessPruned
    BY <2>2, Counts, LimitsAssumption
       DEF DailyOvershoot, MonthlyOvershoot, UsageInv, UsageUnlessPruned, UsageOvershoot
  <2>4. QED BY <2>2, <2>3
<1>3. QED
  BY <1>1, <1>2, BrakeStep, DailyStep, MonthlyStep, UsageStep, PTL DEF BrakeSpec

-----------------------------------------------------------------------------
(* Turns, log and brake together *)

LEMMA LogInTurnLog == TurnLogSpec => Spec
<1>1. TurnLogInit => Init BY DEF TurnLogInit, ReaderInit
<1>2. [TurnMoves \/ LogMoves \/ BrakeMoves]_<<soulVars, readerVars, brakeVars, part>>
        => [Next]_vars
  BY DEF TurnMoves, LogMoves, BrakeMoves, readerVars, ReaderNext, BuildBegins,
         ListRecentChatMessages, Assemble
<1>q. QED BY <1>1, <1>2, PTL DEF TurnLogSpec, Spec

LEMMA TurnsInTurnLog == TurnLogSpec => TurnSpec
<1>1. TurnLogInit => TurnInit BY DEF TurnLogInit
<1>2. [TurnMoves \/ LogMoves \/ BrakeMoves]_<<soulVars, readerVars, brakeVars, part>>
        => [TurnNext]_soulVars
  BY DEF TurnMoves, LogMoves, BrakeMoves
<1>q. QED BY <1>1, <1>2, PTL DEF TurnLogSpec, TurnSpec

LEMMA BrakeInTurnLog == TurnLogSpec => BrakeSpec
<1>1. TurnLogInit => BrakeInit BY DEF TurnLogInit
<1>2. [TurnMoves \/ LogMoves \/ BrakeMoves]_<<soulVars, readerVars, brakeVars, part>>
        => [BrakeNext]_brakeVars
  BY DEF TurnMoves, LogMoves, BrakeMoves
<1>q. QED BY <1>1, <1>2, PTL DEF TurnLogSpec, BrakeSpec

\* Whatever turns, summarizers, readers and calls do: what they keep is of its types.
THEOREM TurnLogTypeCorrect == TurnLogSpec => []TypesOK
<1>1. TurnTypeOK /\ TypeOK /\ BrakeTypeOK => TypesOK BY DEF TypesOK
<1>q. QED
  BY <1>1, TurnsInTurnLog, LogInTurnLog, BrakeInTurnLog, TurnTypeCorrect, TypeCorrect,
     BrakeTypeCorrect, PTL
=============================================================================
