------------------------------ MODULE Recursions ------------------------------
(***************************************************************************)
(* What the proofs about recursive functions rest on: induction over the   *)
(* natural numbers, stated of a set (the principle as the library states   *)
(* it takes an operator, which no backend can instantiate; this one        *)
(* follows from the well-foundedness of the natural numbers), recursion    *)
(* along a sequence, and what is true of any sequence.                     *)
(***************************************************************************)
EXTENDS Integers, Sequences, SequencesExt, FiniteSets, FiniteSetsExt, Functions,
        NaturalsInduction, WellFoundedInduction, FiniteSetTheorems, TLAPS

-----------------------------------------------------------------------------
(* Induction and recursion *)

\* A set of natural numbers has a least element.
LEMMA LeastNumber ==
  ASSUME NEW T, T \subseteq Nat, T # {}
  PROVE  \E n \in T : \A m \in T : n <= m
<1>1. IsWellFoundedOn(OpToRel(<, Nat), Nat)
  BY NatLessThanWellFounded
<1>2. PICK n \in T : \A m \in T : ~(<<m, n>> \in OpToRel(<, Nat))
  BY <1>1, WFMin
<1>3. \A m \in T : ~(m < n)
  BY <1>2 DEF OpToRel
<1> QED BY <1>3

\* A set that holds zero and the successor of each of its numbers holds them all.
LEMMA Induction ==
  ASSUME NEW T, 0 \in T, \A n \in Nat : n \in T => n + 1 \in T
  PROVE  Nat \subseteq T
<1> SUFFICES ASSUME Nat \ T # {} PROVE FALSE
  OBVIOUS
<1>1. PICK n \in Nat \ T : \A m \in Nat \ T : n <= m
  BY LeastNumber
<1> QED BY <1>1

\* Induction up to a bound.
LEMMA InductionTo ==
  ASSUME NEW N \in Nat, NEW T, 0 \in T, \A n \in 0 .. N - 1 : n \in T => n + 1 \in T
  PROVE  0 .. N \subseteq T
<1> DEFINE U == {n \in Nat : n <= N => n \in T}
<1>1. 0 \in U OBVIOUS
<1>2. \A n \in Nat : n \in U => n + 1 \in U OBVIOUS
<1>3. Nat \subseteq U BY <1>1, <1>2, Induction
<1> QED BY <1>3

\* A function is given by a recursion along a sequence: `step` leads from the value
\* after n - 1 elements to the value after n of them.
Unfolds(g, N, A, base, step) ==
  /\ g \in [0 .. N -> A] /\ g[0] = base
  /\ \A i \in 1 .. N : g[i] = step[i][g[i - 1]]

\* A recursion along a sequence defines a function.
LEMMA Recursion ==
  ASSUME NEW A, NEW base \in A, NEW N \in Nat, NEW step \in [1 .. N -> [A -> A]]
  PROVE  \E g : Unfolds(g, N, A, base, step)
<1> DEFINE T == {n \in 0 .. N : \E g : Unfolds(g, n, A, base, step)}
<1>1. 0 \in T
  <2> DEFINE g == [i \in 0 .. 0 |-> base]
  <2>1. Unfolds(g, 0, A, base, step) BY DEF Unfolds
  <2> QED BY <2>1
<1>2. \A n \in 0 .. N - 1 : n \in T => n + 1 \in T
  <2> TAKE n \in 0 .. N - 1
  <2> HAVE n \in T
  <2>1. PICK g : Unfolds(g, n, A, base, step) OBVIOUS
  <2> DEFINE h == [i \in 0 .. n + 1 |-> IF i = n + 1 THEN step[n + 1][g[n]] ELSE g[i]]
  <2>2. step[n + 1][g[n]] \in A
    BY <2>1 DEF Unfolds
  <2>3. h \in [0 .. n + 1 -> A] /\ h[0] = base
    BY <2>1, <2>2 DEF Unfolds
  <2>4. \A i \in 1 .. n + 1 : h[i] = step[i][h[i - 1]]
    <3> TAKE i \in 1 .. n + 1
    <3>1. CASE i = n + 1 BY <3>1
    <3>2. CASE i # n + 1 BY <2>1, <3>2 DEF Unfolds
    <3> QED BY <3>1, <3>2
  <2> HIDE DEF h
  <2>5. Unfolds(h, n + 1, A, base, step) BY <2>3, <2>4 DEF Unfolds
  <2> QED BY <2>5
<1> HIDE DEF T
<1>3. 0 .. N \subseteq T BY <1>1, <1>2, InductionTo
<1>4. N \in T BY <1>3
<1> QED BY <1>4 DEF T

\* There is only one.
LEMMA OneUnfolding ==
  ASSUME NEW A, NEW base, NEW N \in Nat, NEW step, NEW g, Unfolds(g, N, A, base, step),
         NEW f, f = [n \in 0 .. N |-> f[n]], f[0] = base,
         \A n \in 1 .. N : f[n - 1] = g[n - 1] => f[n] = g[n]
  PROVE  f = g
<1> DEFINE T == {n \in 0 .. N : f[n] = g[n]}
<1>1. 0 \in T BY DEF Unfolds
<1>2. \A n \in 0 .. N - 1 : n \in T => n + 1 \in T
  <2> TAKE n \in 0 .. N - 1
  <2> HAVE n \in T
  <2>1. n + 1 \in 1 .. N /\ (n + 1) - 1 = n OBVIOUS
  <2>2. f[(n + 1) - 1] = g[(n + 1) - 1] => f[n + 1] = g[n + 1] BY <2>1
  <2> QED BY <2>1, <2>2
<1>3. 0 .. N \subseteq T
  <2> HIDE DEF T
  <2> QED BY <1>1, <1>2, InductionTo
<1>4. g = [n \in 0 .. N |-> g[n]] BY DEF Unfolds
<1> QED BY <1>3, <1>4

-----------------------------------------------------------------------------
(* The largest and the smallest *)

LEMMA MaxOfTwo ==
  ASSUME NEW a \in Int, NEW b \in Int
  PROVE  Max({a, b}) = IF a >= b THEN a ELSE b
<1>1. \E x \in {a, b} : \A y \in {a, b} : x >= y OBVIOUS
<1>2. Max({a, b}) \in {a, b} /\ \A y \in {a, b} : Max({a, b}) >= y
  BY <1>1, Zenon DEF Max
<1> QED BY <1>2

\* The smaller of two numbers.
LEMMA MinOfTwo ==
  ASSUME NEW a \in Int, NEW b \in Int
  PROVE  Min({a, b}) = IF a <= b THEN a ELSE b
<1>1. \E x \in {a, b} : \A y \in {a, b} : x <= y OBVIOUS
<1>2. Min({a, b}) \in {a, b} /\ \A y \in {a, b} : Min({a, b}) <= y
  BY <1>1, Zenon DEF Min
<1> QED BY <1>2

\* The largest of the numbers up to a bound.
LEMMA Largest ==
  ASSUME NEW N \in Nat, NEW S, S \subseteq 0 .. N, S # {}
  PROVE  Max(S) \in S /\ \A y \in S : Max(S) >= y
<1> DEFINE T == {N - y : y \in S}
<1>1. T \subseteq Nat /\ T # {}
  <2>1. ASSUME NEW y \in S PROVE N - y \in Nat
    <3>1. y \in 0 .. N OBVIOUS
    <3> QED BY <3>1
  <2>2. PICK y : y \in S OBVIOUS
  <2>3. N - y \in T BY <2>2
  <2> QED BY <2>1, <2>3
<1>2. PICK n \in T : \A m \in T : n <= m
  <2> HIDE DEF T
  <2> QED BY <1>1, LeastNumber
<1>3. PICK x \in S : n = N - x OBVIOUS
<1>4. \A y \in S : N - y \in T OBVIOUS
<1>5. \A y \in S : x >= y
  <2> TAKE y \in S
  <2>1. N - x <= N - y BY <1>2, <1>3, <1>4
  <2> QED BY <2>1
<1> QED BY <1>3, <1>5, Zenon DEF Max

-----------------------------------------------------------------------------
(* Sequences *)

\* Sequences are equal element by element.
LEMMA SameSeq ==
  ASSUME NEW A, NEW s \in Seq(A), NEW t \in Seq(A), Len(s) = Len(t),
         \A i \in 1 .. Len(s) : s[i] = t[i]
  PROVE  s = t
OBVIOUS

\* What a concatenation holds, and where.
LEMMA ConcatIs ==
  ASSUME NEW A, NEW s \in Seq(A), NEW t \in Seq(A)
  PROVE  /\ s \o t \in Seq(A) /\ Len(s \o t) = Len(s) + Len(t)
         /\ Len(s) \in Nat /\ Len(t) \in Nat
         /\ \A i \in 1 .. Len(s) : (s \o t)[i] = s[i]
         /\ \A i \in 1 .. Len(t) : (s \o t)[Len(s) + i] = t[i]
OBVIOUS

LEMMA PrefixIs ==
  ASSUME NEW A, NEW s \in Seq(A), NEW n \in 0 .. Len(s)
  PROVE  /\ SubSeq(s, 1, n) \in Seq(A) /\ Len(SubSeq(s, 1, n)) = n
         /\ \A i \in 1 .. n : SubSeq(s, 1, n)[i] = s[i]
OBVIOUS

\* A list is a prefix of one that starts with its elements.
LEMMA PrefixOf ==
  ASSUME NEW A, NEW s \in Seq(A), NEW t \in Seq(A), Len(s) <= Len(t),
         \A i \in 1 .. Len(s) : s[i] = t[i]
  PROVE  IsPrefix(s, t)
<1>1. SubSeq(s, 1, Len(s)) \in Seq(A) /\ SubSeq(t, 1, Len(s)) \in Seq(A) OBVIOUS
<1>2. Len(SubSeq(s, 1, Len(s))) = Len(s) /\ Len(SubSeq(t, 1, Len(s))) = Len(s) OBVIOUS
<1>3. \A i \in 1 .. Len(s) : SubSeq(s, 1, Len(s))[i] = SubSeq(t, 1, Len(s))[i] OBVIOUS
<1>4. SubSeq(s, 1, Len(s)) = SubSeq(t, 1, Len(s))
  <2> DEFINE a == SubSeq(s, 1, Len(s))
             b == SubSeq(t, 1, Len(s))
  <2>1. a \in Seq(A) /\ b \in Seq(A) /\ Len(a) = Len(b) /\ \A i \in 1 .. Len(a) : a[i] = b[i]
    BY <1>1, <1>2, <1>3
  <2> HIDE DEF a, b
  <2>2. a = b BY <2>1, SameSeq
  <2> QED BY <2>2 DEF a, b
<1> QED BY <1>4 DEF IsPrefix

\* A prefix with one element more.
LEMMA NextPrefix ==
  ASSUME NEW A, NEW s \in Seq(A), NEW n \in 0 .. Len(s) - 1
  PROVE  SubSeq(s, 1, n + 1) = SubSeq(s, 1, n) \o <<s[n + 1]>>
<1> DEFINE a == SubSeq(s, 1, n + 1)
           p == SubSeq(s, 1, n)
           x == s[n + 1]
           b == p \o <<x>>
<1>1. n \in 0 .. Len(s) /\ n + 1 \in 0 .. Len(s) /\ x \in A OBVIOUS
<1>2. a \in Seq(A) /\ Len(a) = n + 1 /\ \A i \in 1 .. n + 1 : a[i] = s[i] BY <1>1, PrefixIs
<1>3. p \in Seq(A) /\ Len(p) = n /\ \A i \in 1 .. n : p[i] = s[i] BY <1>1, PrefixIs
<1> HIDE DEF a, p, x
<1>4. b \in Seq(A) /\ Len(b) = n + 1 /\ (\A i \in 1 .. n : b[i] = p[i]) /\ b[n + 1] = x
  BY <1>1, <1>3
<1> HIDE DEF b
<1>5. \A i \in 1 .. Len(a) : a[i] = b[i] BY <1>1, <1>2, <1>3, <1>4 DEF x
<1>6. a = b BY <1>2, <1>4, <1>5, SameSeq
<1> QED BY <1>6 DEF a, b, p, x

\* The values of a list are those at its places.
LEMMA InList ==
  ASSUME NEW A, NEW s \in Seq(A)
  PROVE  ToSet(s) = {s[i] : i \in 1 .. Len(s)} /\ ToSet(s) \subseteq A
BY DEF ToSet

\* The length of a list is a number and its elements are of its type.
LEMMA ListIs ==
  ASSUME NEW A, NEW s \in Seq(A)
  PROVE  Len(s) \in Nat /\ \A n \in 1 .. Len(s) : s[n] \in A
OBVIOUS

\* A list without repetitions.
Apart(s) == \A i, j \in 1 .. Len(s) : s[i] = s[j] => i = j

\* What two lists hold together, and when nothing is held twice.
LEMMA InConcat ==
  ASSUME NEW A, NEW s \in Seq(A), NEW t \in Seq(A)
  PROVE  /\ ToSet(s \o t) = ToSet(s) \cup ToSet(t)
         /\ (Apart(s) /\ Apart(t) /\ ToSet(s) \cap ToSet(t) = {}) => Apart(s \o t)
<1> DEFINE u == s \o t
           M == Len(s)
           N == Len(t)
<1>1. /\ u \in Seq(A) /\ Len(u) = M + N /\ M \in Nat /\ N \in Nat
      /\ \A i \in 1 .. M : u[i] = s[i]
      /\ \A i \in 1 .. N : u[M + i] = t[i]
  BY ConcatIs
<1>2. ToSet(s) = {s[i] : i \in 1 .. M} /\ ToSet(t) = {t[i] : i \in 1 .. N} BY InList
<1>3. ToSet(u) = {u[i] : i \in 1 .. M + N}
  <2> HIDE DEF u, M, N
  <2> QED BY <1>1, InList
<1> HIDE DEF u, M, N
<1>4. ASSUME NEW i \in 1 .. M + N PROVE i \in 1 .. M \/ \E k \in 1 .. N : i = M + k
  <2>1. CASE i <= M BY <1>1, <2>1
  <2>2. CASE i > M
    <3>1. i - M \in 1 .. N /\ i = M + (i - M) BY <1>1, <2>2
    <3> QED BY <3>1
  <2> QED BY <1>1, <2>1, <2>2
<1>5. ASSUME NEW i \in 1 .. M PROVE i \in 1 .. M + N BY <1>1
<1>6. ASSUME NEW k \in 1 .. N PROVE M + k \in 1 .. M + N BY <1>1
<1>7. ToSet(u) = ToSet(s) \cup ToSet(t)
  <2>1. ASSUME NEW x \in ToSet(u) PROVE x \in ToSet(s) \cup ToSet(t)
    <3>1. PICK i \in 1 .. M + N : x = u[i] BY <1>3
    <3>2. CASE i \in 1 .. M BY <1>1, <1>2, <3>1, <3>2
    <3>3. ASSUME NEW k \in 1 .. N, i = M + k PROVE x \in ToSet(t) BY <1>1, <1>2, <3>1, <3>3
    <3> QED BY <1>4, <3>2, <3>3
  <2>2. ToSet(s) \subseteq ToSet(u) BY <1>1, <1>2, <1>3, <1>5
  <2>3. ToSet(t) \subseteq ToSet(u) BY <1>1, <1>2, <1>3, <1>6
  <2> QED BY <2>1, <2>2, <2>3
<1>8. ASSUME Apart(s), Apart(t), ToSet(s) \cap ToSet(t) = {} PROVE Apart(u)
  <2> SUFFICES ASSUME NEW i \in 1 .. M + N, NEW j \in 1 .. M + N, u[i] = u[j] PROVE i = j
    BY <1>1 DEF Apart
  <2>1. CASE i \in 1 .. M /\ j \in 1 .. M
    <3>1. s[i] = s[j] BY <1>1, <2>1
    <3> QED BY <1>8, <2>1, <3>1 DEF Apart, M
  <2>2. ASSUME i \in 1 .. M, NEW k \in 1 .. N, j = M + k PROVE FALSE
    <3>1. u[i] = s[i] /\ u[j] = t[k] BY <1>1, <2>2
    <3> QED BY <1>2, <1>8, <2>2, <3>1
  <2>3. ASSUME j \in 1 .. M, NEW k \in 1 .. N, i = M + k PROVE FALSE
    <3>1. u[j] = s[j] /\ u[i] = t[k] BY <1>1, <2>3
    <3> QED BY <1>2, <1>8, <2>3, <3>1
  <2>4. ASSUME NEW k \in 1 .. N, NEW l \in 1 .. N, i = M + k, j = M + l PROVE i = j
    <3>1. t[k] = t[l] BY <1>1, <2>4
    <3>2. k = l BY <1>8, <3>1 DEF Apart, N
    <3> QED BY <2>4, <3>2
  <2> QED BY <1>4, <2>1, <2>2, <2>3, <2>4
<1> QED BY <1>7, <1>8 DEF u

\* A prefix holds some of the values, each once.
LEMMA InPrefix ==
  ASSUME NEW A, NEW s \in Seq(A), NEW n \in 0 .. Len(s), Apart(s)
  PROVE  /\ ToSet(SubSeq(s, 1, n)) \subseteq ToSet(s)
         /\ Apart(SubSeq(s, 1, n))
         /\ n = Len(s) => SubSeq(s, 1, n) = s
<1> DEFINE p == SubSeq(s, 1, n)
<1>1. p \in Seq(A) /\ Len(p) = n /\ \A i \in 1 .. n : p[i] = s[i] BY PrefixIs
<1>2. ToSet(s) = {s[i] : i \in 1 .. Len(s)} BY InList
<1> HIDE DEF p
<1>3. ToSet(p) = {p[i] : i \in 1 .. n} BY <1>1, InList
<1>4. \A i \in 1 .. n : i \in 1 .. Len(s) OBVIOUS
<1>5. ToSet(p) \subseteq ToSet(s) BY <1>1, <1>2, <1>3, <1>4
<1>6. Apart(p) BY <1>1, <1>4 DEF Apart
<1>7. n = Len(s) => p = s BY <1>1, SameSeq
<1> QED BY <1>5, <1>6, <1>7 DEF p

\* A list without repetitions holds as many values as it is long.
LEMMA ApartCounts ==
  ASSUME NEW A, NEW s \in Seq(A), Apart(s)
  PROVE  Cardinality(ToSet(s)) = Len(s) /\ IsFiniteSet(ToSet(s))
<1> DEFINE n == Len(s)
<1>1. n \in Nat /\ s \in [1 .. n -> ToSet(s)] BY DEF ToSet
<1>2. s \in Injection(1 .. n, ToSet(s)) BY <1>1 DEF Injection, IsInjective, Apart
<1>3. s \in Surjection(1 .. n, ToSet(s)) BY <1>1 DEF Surjection, ToSet
<1>4. ExistsBijection(1 .. n, ToSet(s)) BY <1>2, <1>3 DEF ExistsBijection, Bijection
<1>5. IsFiniteSet(1 .. n) BY <1>1, FS_Interval
<1> HIDE DEF n
<1>6. Cardinality(ToSet(s)) = n BY <1>1, <1>4, FS_CountingElements
<1>7. IsFiniteSet(ToSet(s)) BY <1>4, <1>5, FS_Bijection
<1> QED BY <1>6, <1>7 DEF n

-----------------------------------------------------------------------------
(* Induction along a sequence *)

\* Induction along a sequence.
LEMMA SeqInduction ==
  ASSUME NEW A, NEW T, <<>> \in T, \A s \in Seq(A) : s \in T => \A x \in A : Append(s, x) \in T
  PROVE  Seq(A) \subseteq T
<1> DEFINE U == {n \in Nat : \A s \in Seq(A) : Len(s) = n => s \in T}
<1>1. 0 \in U
  <2>1. \A s \in Seq(A) : Len(s) = 0 => s = <<>> OBVIOUS
  <2> QED BY <2>1
<1>2. \A n \in Nat : n \in U => n + 1 \in U
  <2> TAKE n \in Nat
  <2> HAVE n \in U
  <2>1. ASSUME NEW s \in Seq(A), Len(s) = n + 1 PROVE s \in T
    <3> DEFINE p == SubSeq(s, 1, n)
               x == s[n + 1]
    <3>1. n \in 0 .. Len(s) /\ n \in 0 .. Len(s) - 1 /\ x \in A BY <2>1
    <3>2. p \in Seq(A) /\ Len(p) = n BY <3>1, PrefixIs
    <3>3. SubSeq(s, 1, n + 1) = p \o <<x>> BY <3>1, NextPrefix
    <3>4. SubSeq(s, 1, n + 1) = s BY <2>1
    <3> HIDE DEF p, x
    <3>5. p \o <<x>> = Append(p, x) BY <3>1, <3>2
    <3>6. p \in T BY <3>2
    <3> QED BY <3>1, <3>2, <3>3, <3>4, <3>5, <3>6
  <2> QED BY <2>1
<1> HIDE DEF U
<1>3. Nat \subseteq U BY <1>1, <1>2, Induction
<1>4. ASSUME NEW s \in Seq(A) PROVE s \in T
  <2>1. Len(s) \in U BY <1>3
  <2> QED BY <2>1 DEF U
<1> QED BY <1>4

\* Two recursions that start alike and take the same steps ...
Alike(f, g, N) == f[0] = g[0] /\ \A n \in 1 .. N : f[n - 1] = g[n - 1] => f[n] = g[n]

\* ... lead to the same values.
LEMMA SameSteps ==
  ASSUME NEW N \in Nat, NEW f, NEW g, Alike(f, g, N)
  PROVE  \A n \in 0 .. N : f[n] = g[n]
<1>0. f[0] = g[0] /\ \A n \in 1 .. N : f[n - 1] = g[n - 1] => f[n] = g[n] BY DEF Alike
<1> DEFINE T == {n \in 0 .. N : f[n] = g[n]}
<1>1. 0 \in T BY <1>0
<1>2. \A n \in 0 .. N - 1 : n \in T => n + 1 \in T
  <2> TAKE n \in 0 .. N - 1
  <2> HAVE n \in T
  <2>1. n + 1 \in 1 .. N /\ (n + 1) - 1 = n /\ n + 1 \in 0 .. N OBVIOUS
  <2>2. f[(n + 1) - 1] = g[(n + 1) - 1] => f[n + 1] = g[n + 1] BY <1>0, <2>1
  <2> QED BY <2>1, <2>2
<1> HIDE DEF T
<1>3. 0 .. N \subseteq T BY <1>1, <1>2, InductionTo
<1> QED BY <1>3 DEF T

\* What a sequence is with one more value.
LEMMA AppendIs ==
  ASSUME NEW A, NEW s \in Seq(A), NEW x \in A
  PROVE  /\ Append(s, x) \in Seq(A) /\ Len(Append(s, x)) = Len(s) + 1 /\ Len(s) \in Nat
         /\ \A i \in 1 .. Len(s) : Append(s, x)[i] = s[i]
         /\ Append(s, x)[Len(s) + 1] = x
OBVIOUS

\* Put together with a longer sequence.
LEMMA ConcatAppend ==
  ASSUME NEW A, NEW s \in Seq(A), NEW t \in Seq(A), NEW x \in A
  PROVE  s \o Append(t, x) = Append(s \o t, x) /\ s \o <<>> = s /\ <<>> \o s = s
<1> DEFINE u == s \o t
           v == Append(t, x)
           l == s \o v
           r == Append(u, x)
<1>1. u \in Seq(A) /\ Len(u) = Len(s) + Len(t) /\ Len(s) \in Nat /\ Len(t) \in Nat
      /\ (\A i \in 1 .. Len(s) : u[i] = s[i]) /\ (\A i \in 1 .. Len(t) : u[Len(s) + i] = t[i])
  BY ConcatIs
<1>2. /\ v \in Seq(A) /\ Len(v) = Len(t) + 1 /\ (\A i \in 1 .. Len(t) : v[i] = t[i])
      /\ v[Len(t) + 1] = x
  BY AppendIs
<1> HIDE DEF u, v
<1>3. l \in Seq(A) /\ Len(l) = Len(s) + Len(v)
      /\ (\A i \in 1 .. Len(s) : l[i] = s[i]) /\ (\A i \in 1 .. Len(v) : l[Len(s) + i] = v[i])
  <2>1. v \in Seq(A) BY <1>2
  <2> QED BY <2>1, ConcatIs
<1>4. /\ r \in Seq(A) /\ Len(r) = Len(u) + 1 /\ (\A i \in 1 .. Len(u) : r[i] = u[i])
      /\ r[Len(u) + 1] = x
  <2>1. u \in Seq(A) BY <1>1
  <2> QED BY <2>1, AppendIs
<1> HIDE DEF l, r
<1>5. ASSUME NEW i \in 1 .. Len(l) PROVE l[i] = r[i]
  <2>1. CASE i \in 1 .. Len(s) BY <1>1, <1>3, <1>4, <2>1
  <2>2. CASE i = Len(s) + Len(t) + 1
    <3>1. i = Len(s) + Len(v) /\ Len(v) \in 1 .. Len(v) BY <1>1, <1>2, <2>2
    <3>2. l[Len(s) + Len(v)] = v[Len(v)] BY <1>3, <3>1
    <3> QED BY <1>1, <1>2, <1>4, <2>2, <3>1, <3>2
  <2>3. CASE i \in Len(s) + 1 .. Len(s) + Len(t)
    <3>1. /\ i - Len(s) \in 1 .. Len(t) /\ i - Len(s) \in 1 .. Len(v)
          /\ i = Len(s) + (i - Len(s)) /\ i \in 1 .. Len(u)
      BY <1>1, <1>2, <2>3
    <3>2. l[i] = v[i - Len(s)] /\ u[i] = t[i - Len(s)] BY <1>1, <1>3, <3>1
    <3> QED BY <1>2, <1>4, <3>1, <3>2
  <2> QED BY <1>1, <1>2, <1>3, <2>1, <2>2, <2>3
<1>6. l = r
  <2>1. l \in Seq(A) /\ r \in Seq(A) /\ Len(l) = Len(r) BY <1>1, <1>2, <1>3, <1>4
  <2> QED BY <1>5, <2>1, SameSeq
<1>7. s \o <<>> = s /\ <<>> \o s = s OBVIOUS
<1> QED BY <1>6, <1>7 DEF l, r, u, v

\* The least of a set of numbers is one of them.
LEMMA Smallest ==
  ASSUME NEW S, S \subseteq Nat, S # {}
  PROVE  Min(S) \in S /\ \A y \in S : Min(S) <= y
<1>1. \E x \in S : \A y \in S : x <= y BY LeastNumber
<1> QED BY <1>1, Zenon DEF Min

\* A sequence is its beginning and the rest of it.
LEMMA CutInTwo ==
  ASSUME NEW A, NEW s \in Seq(A), NEW n \in 0 .. Len(s)
  PROVE  /\ SubSeq(s, 1, n) \in Seq(A) /\ SubSeq(s, n + 1, Len(s)) \in Seq(A)
         /\ s = SubSeq(s, 1, n) \o SubSeq(s, n + 1, Len(s))
         /\ Len(SubSeq(s, n + 1, Len(s))) = Len(s) - n
         /\ \A i \in 1 .. Len(s) - n : SubSeq(s, n + 1, Len(s))[i] = s[n + i]
<1> DEFINE a == SubSeq(s, 1, n)
           b == SubSeq(s, n + 1, Len(s))
           u == a \o b
<1>1. a \in Seq(A) /\ Len(a) = n /\ \A i \in 1 .. n : a[i] = s[i] BY PrefixIs
<1>2. b \in Seq(A) /\ Len(b) = Len(s) - n /\ \A i \in 1 .. Len(s) - n : b[i] = s[n + i]
  <2>1. n \in Nat /\ Len(s) \in Nat /\ n <= Len(s) OBVIOUS
  <2>2. Len(b) = Len(s) - n BY <2>1
  <2>3. \A i \in 1 .. Len(s) - n : (n + 1) + i - 1 = n + i BY <2>1
  <2>4. \A i \in 1 .. Len(s) - n : b[i] = s[(n + 1) + i - 1] BY <2>1, <2>2
  <2>5. b \in Seq(A) BY <2>1
  <2> QED BY <2>2, <2>3, <2>4, <2>5
<1> HIDE DEF a, b
<1>3. /\ u \in Seq(A) /\ Len(u) = Len(a) + Len(b)
      /\ \A i \in 1 .. Len(a) : u[i] = a[i]
      /\ \A i \in 1 .. Len(b) : u[Len(a) + i] = b[i]
  BY <1>1, <1>2, ConcatIs
<1> HIDE DEF u
<1>4. ASSUME NEW i \in 1 .. Len(s) PROVE s[i] = u[i]
  <2>1. CASE i <= n
    <3>1. i \in 1 .. n BY <2>1
    <3> QED BY <1>1, <1>3, <3>1
  <2>2. CASE ~(i <= n)
    <3>1. i - n \in 1 .. Len(s) - n /\ n + (i - n) = i BY <2>2
    <3>2. u[n + (i - n)] = b[i - n] BY <1>1, <1>2, <1>3, <3>1
    <3>3. b[i - n] = s[n + (i - n)] BY <1>2, <3>1
    <3> QED BY <3>1, <3>2, <3>3
  <2> QED BY <2>1, <2>2
<1>5. Len(s) = Len(u) BY <1>1, <1>2, <1>3
<1>6. s = u BY <1>3, <1>4, <1>5, SameSeq
<1> QED BY <1>1, <1>2, <1>6 DEF u, a, b

\* More of the reply has arrived.
LEMMA ArrivedIs ==
  ASSUME NEW A, NEW s \in Seq(A), NEW m \in 0 .. Len(s), NEW n \in Nat, m + n <= Len(s)
  PROVE  /\ SubSeq(s, 1, m) \in Seq(A) /\ SubSeq(s, m + 1, m + n) \in Seq(A)
         /\ SubSeq(s, 1, m + n) = SubSeq(s, 1, m) \o SubSeq(s, m + 1, m + n)
<1> DEFINE t == SubSeq(s, 1, m + n)
<1>1. m + n \in 0 .. Len(s) OBVIOUS
<1>2. t \in Seq(A) /\ Len(t) = m + n BY <1>1, PrefixIs
<1>3. SubSeq(t, 1, m) = SubSeq(s, 1, m) /\ SubSeq(t, m + 1, m + n) = SubSeq(s, m + 1, m + n)
  <2> DEFINE a == SubSeq(t, 1, m)
             b == SubSeq(s, 1, m)
             c == SubSeq(t, m + 1, m + n)
             d == SubSeq(s, m + 1, m + n)
  <2>1. \A i \in 1 .. m + n : t[i] = s[i] BY <1>1, PrefixIs
  <2> HIDE DEF t
  <2>2. /\ a \in Seq(A) /\ b \in Seq(A) /\ Len(a) = m /\ Len(b) = m
        /\ \A i \in 1 .. m : a[i] = t[i] /\ b[i] = s[i]
    BY <1>2, PrefixIs
  <2>3. a = b
    <3>1. \A i \in 1 .. m : a[i] = b[i] BY <2>1, <2>2
    <3> HIDE DEF a, b
    <3> QED BY <2>2, <3>1, SameSeq
  <2>4. c \in Seq(A) /\ d \in Seq(A) /\ Len(c) = n /\ Len(d) = n BY <1>1, <1>2
  <2>5. \A i \in 1 .. n : c[i] = t[m + i] /\ d[i] = s[m + i]
    <3>1. \A i \in 1 .. n : (m + 1) + i - 1 = m + i OBVIOUS
    <3>2. \A i \in 1 .. n : c[i] = t[(m + 1) + i - 1] /\ d[i] = s[(m + 1) + i - 1] BY <1>1, <1>2
    <3> QED BY <3>1, <3>2
  <2>6. c = d
    <3>1. \A i \in 1 .. n : c[i] = d[i]
      <4> TAKE i \in 1 .. n
      <4>1. m + i \in 1 .. m + n OBVIOUS
      <4> HIDE DEF c, d
      <4> QED BY <2>1, <2>5, <4>1
    <3> HIDE DEF c, d
    <3> QED BY <2>4, <3>1, SameSeq
  <2> QED BY <2>3, <2>6
<1> HIDE DEF t
<1>4. m \in 0 .. Len(t) BY <1>2
<1>5. /\ SubSeq(t, 1, m) \in Seq(A) /\ SubSeq(t, m + 1, Len(t)) \in Seq(A)
      /\ t = SubSeq(t, 1, m) \o SubSeq(t, m + 1, Len(t))
  BY <1>2, <1>4, CutInTwo
<1> QED BY <1>2, <1>3, <1>5 DEF t
=============================================================================
