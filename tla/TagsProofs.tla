----------------------------- MODULE TagsProofs ------------------------------
(***************************************************************************)
(* Theorems about the expression tagger and its callers, for any reply of  *)
(* any length, any answers of the model and any cap: what the guards leave *)
(* of an answer, how a text that arrives in pieces is cut into sentences,  *)
(* and that the tagger only adds.                                          *)
(***************************************************************************)
EXTENDS ExpressionTags, Recursions

-----------------------------------------------------------------------------
(* What is left of a text at some of its places *)

\* The recursion of At, and what each of its steps adds.
AtSteps(s, places) ==
  LET at[n \in 0 .. Len(s)] ==
        IF n = 0 THEN <<>> ELSE IF n \in places THEN Append(at[n - 1], s[n]) ELSE at[n - 1]
  IN at

LEMMA AtUnfolds ==
  ASSUME NEW A, NEW s \in Seq(A), NEW P
  PROVE  /\ AtSteps(s, P) \in [0 .. Len(s) -> Seq(A)] /\ AtSteps(s, P)[0] = <<>>
         /\ \A n \in 1 .. Len(s) : AtSteps(s, P)[n] =
              IF n \in P THEN Append(AtSteps(s, P)[n - 1], s[n]) ELSE AtSteps(s, P)[n - 1]
         /\ At(s, P) = AtSteps(s, P)[Len(s)]
<1> DEFINE N == Len(s)
           B == Seq(A)
           step == [n \in 1 .. N |-> [a \in B |-> IF n \in P THEN Append(a, s[n]) ELSE a]]
           Good(f) == f = [n \in 0 .. N |->
                             IF n = 0 THEN <<>> ELSE IF n \in P THEN Append(f[n - 1], s[n]) ELSE f[n - 1]]
<1>1. N \in Nat /\ <<>> \in B /\ \A n \in 1 .. N : s[n] \in A OBVIOUS
<1>2. step \in [1 .. N -> [B -> B]]
  <2>1. ASSUME NEW n \in 1 .. N, NEW a \in B PROVE (IF n \in P THEN Append(a, s[n]) ELSE a) \in B
    <3>1. Append(a, s[n]) \in B BY <1>1
    <3> QED BY <3>1
  <2> HIDE DEF B, N
  <2> QED BY <2>1
<1>3. PICK g : Unfolds(g, N, B, <<>>, step)
  <2> HIDE DEF step, N, B
  <2> QED BY <1>1, <1>2, Recursion
<1>4. g \in [0 .. N -> B] /\ g[0] = <<>> BY <1>3 DEF Unfolds
<1>5. ASSUME NEW n \in 1 .. N
      PROVE  /\ n \in 0 .. N /\ n # 0 /\ n - 1 \in 0 .. N
             /\ g[n] = IF n \in P THEN Append(g[n - 1], s[n]) ELSE g[n - 1]
  <2>1. n \in 0 .. N /\ n # 0 /\ n - 1 \in 0 .. N BY <1>1
  <2>2. g[n - 1] \in B BY <1>4, <2>1
  <2>3. g[n] = step[n][g[n - 1]] BY <1>3 DEF Unfolds
  <2> HIDE DEF B, N
  <2> QED BY <2>1, <2>2, <2>3
<1>6. Good(g)
  <2>1. ASSUME NEW n \in 0 .. N
        PROVE  g[n] = IF n = 0 THEN <<>> ELSE IF n \in P THEN Append(g[n - 1], s[n]) ELSE g[n - 1]
    <3>1. n = 0 \/ n \in 1 .. N BY <1>1
    <3>2. CASE n = 0 BY <1>4, <3>2
    <3>3. CASE n \in 1 .. N
      <4>1. n # 0 /\ g[n] = IF n \in P THEN Append(g[n - 1], s[n]) ELSE g[n - 1] BY <1>5, <3>3
      <4> HIDE DEF B, N
      <4> QED BY <4>1, Zenon
    <3> HIDE DEF B, N
    <3> QED BY <3>1, <3>2, <3>3
  <2>2. g = [n \in 0 .. N |-> g[n]] BY <1>4
  <2> HIDE DEF B, N
  <2> QED BY <2>1, <2>2
<1>7. AtSteps(s, P) = CHOOSE f : Good(f) BY DEF AtSteps
<1>8. Good(AtSteps(s, P))
  <2> HIDE DEF Good
  <2> QED BY <1>6, <1>7
<1>9. AtSteps(s, P) = g
  <2> DEFINE f == AtSteps(s, P)
  <2>0. N \in Nat /\ Unfolds(g, N, B, <<>>, step) BY <1>1, <1>3
  <2>1. f = [n \in 0 .. N |-> f[n]] /\ f[0] = <<>> BY <1>1, <1>8
  <2>2. ASSUME NEW n \in 1 .. N, f[n - 1] = g[n - 1] PROVE f[n] = g[n]
    <3>0. n \in 0 .. N /\ n # 0 BY <1>5
    <3> HIDE DEF B, N
    <3>1. f[n] = IF n \in P THEN Append(f[n - 1], s[n]) ELSE f[n - 1] BY <1>8, <3>0, Zenon
    <3> HIDE DEF f
    <3> QED BY <1>5, <2>2, <3>1
  <2> HIDE DEF N, B, step, f, Good
  <2>4. N \in Nat /\ Alike(f, g, N) BY <2>0, <2>1, <2>2 DEF Unfolds, Alike
  <2>5. \A n \in 0 .. N : f[n] = g[n] BY <2>4, SameSteps
  <2>6. g = [n \in 0 .. N |-> g[n]] BY <2>0 DEF Unfolds
  <2>7. f = g BY <2>1, <2>5, <2>6
  <2> QED BY <2>7 DEF f
<1>10. At(s, P) = AtSteps(s, P)[N] BY DEF At, AtSteps
<1> QED BY <1>4, <1>5, <1>9, <1>10

\* With one more symbol, what is left has it when its place is one of them; which places
\* beyond the text are named does not matter.
LEMMA AtAppend ==
  ASSUME NEW A, NEW s \in Seq(A), NEW x \in A, NEW P, NEW Q, \A i \in 1 .. Len(s) : i \in P <=> i \in Q
  PROVE  /\ At(s, Q) \in Seq(A)
         /\ At(Append(s, x), P) = IF Len(s) + 1 \in P THEN Append(At(s, Q), x) ELSE At(s, Q)
<1> DEFINE u == Append(s, x)
           f == AtSteps(u, P)
           g == AtSteps(s, Q)
           N == Len(s)
<1>1. u \in Seq(A) /\ Len(u) = N + 1 /\ N \in Nat /\ (\A i \in 1 .. N : u[i] = s[i]) /\ u[N + 1] = x
  BY AppendIs
<1> HIDE DEF u
<1>2. /\ f[0] = <<>> /\ At(u, P) = f[N + 1]
      /\ \A n \in 1 .. N + 1 : f[n] = IF n \in P THEN Append(f[n - 1], u[n]) ELSE f[n - 1]
  <2>1. u \in Seq(A) BY <1>1
  <2> HIDE DEF N
  <2>2. /\ f[0] = <<>> /\ At(u, P) = f[Len(u)]
        /\ \A n \in 1 .. Len(u) : f[n] = IF n \in P THEN Append(f[n - 1], u[n]) ELSE f[n - 1]
    BY <2>1, AtUnfolds
  <2> QED BY <1>1, <2>2
<1>3. /\ g \in [0 .. N -> Seq(A)] /\ g[0] = <<>> /\ At(s, Q) = g[N]
      /\ \A n \in 1 .. N : g[n] = IF n \in Q THEN Append(g[n - 1], s[n]) ELSE g[n - 1]
  BY AtUnfolds
<1> HIDE DEF f, g, N
<1>4. \A n \in 1 .. N : f[n - 1] = g[n - 1] => f[n] = g[n]
  <2> TAKE n \in 1 .. N
  <2>1. n \in 1 .. N + 1 /\ u[n] = s[n] /\ (n \in P <=> n \in Q) BY <1>1 DEF N
  <2> QED BY <1>2, <1>3, <2>1
<1>5. \A n \in 0 .. N : f[n] = g[n]
  <2>1. N \in Nat /\ Alike(f, g, N) BY <1>1, <1>2, <1>3, <1>4 DEF Alike
  <2> QED BY <2>1, SameSteps
<1>6. N \in 0 .. N /\ N + 1 \in 1 .. N + 1 /\ (N + 1) - 1 = N BY <1>1
<1>7. f[N + 1] = IF N + 1 \in P THEN Append(g[N], x) ELSE g[N]
  BY <1>1, <1>2, <1>5, <1>6
<1> QED BY <1>2, <1>3, <1>6, <1>7 DEF u, N

\* Nothing is left of nothing.
LEMMA AtEmpty ==
  ASSUME NEW P
  PROVE  At(<<>>, P) = <<>>
<1> DEFINE e == <<>>
           A == {}
<1>1. e \in Seq(A) /\ Len(e) = 0 OBVIOUS
<1> HIDE DEF e, A
<1>2. e \in Seq(A) BY <1>1
<1>3. AtSteps(e, P)[0] = <<>> /\ At(e, P) = AtSteps(e, P)[Len(e)] BY <1>2, AtUnfolds
<1> QED BY <1>1, <1>3 DEF e

\* What a longer sequence has at its places.
LEMMA PlacesAppend ==
  ASSUME NEW A, NEW s \in Seq(A), NEW x \in A, NEW S
  PROVE  /\ DOMAIN s = 1 .. Len(s) /\ DOMAIN Append(s, x) = 1 .. Len(s) + 1
         /\ \A i \in 1 .. Len(s) : i \in Places(Append(s, x), S) <=> i \in Places(s, S)
         /\ Len(s) + 1 \in Places(Append(s, x), S) <=> x \in S
<1> DEFINE u == Append(s, x)
<1>1. /\ u \in Seq(A) /\ Len(u) = Len(s) + 1 /\ Len(s) \in Nat
      /\ (\A i \in 1 .. Len(s) : u[i] = s[i]) /\ u[Len(s) + 1] = x
  BY AppendIs
<1>2. DOMAIN s = 1 .. Len(s) /\ DOMAIN u = 1 .. Len(u) BY <1>1
<1> HIDE DEF u
<1>3. \A i \in 1 .. Len(s) : i \in Places(u, S) <=> i \in Places(s, S) BY <1>1, <1>2 DEF Places
<1>4. Len(s) + 1 \in Places(u, S) <=> x \in S BY <1>1, <1>2 DEF Places
<1> QED BY <1>1, <1>2, <1>3, <1>4 DEF u

-----------------------------------------------------------------------------
(* The words of a text *)

WordSet == ToSet(Word)

\* One more symbol is one more word, or none.
LEMMA WordsAppend ==
  ASSUME NEW A, NEW s \in Seq(A), NEW x \in A
  PROVE  /\ WordsOf(s) \in Seq(A)
         /\ WordsOf(Append(s, x)) = IF x \in WordSet THEN Append(WordsOf(s), x) ELSE WordsOf(s)
         /\ WordsOf(<<>>) = <<>>
<1> DEFINE P == Places(Append(s, x), WordSet)
           Q == Places(s, WordSet)
<1>1. /\ \A i \in 1 .. Len(s) : i \in P <=> i \in Q
      /\ Len(s) + 1 \in P <=> x \in WordSet
  BY PlacesAppend
<1> HIDE DEF P, Q
<1>2. /\ At(s, Q) \in Seq(A)
      /\ At(Append(s, x), P) = IF Len(s) + 1 \in P THEN Append(At(s, Q), x) ELSE At(s, Q)
  <2>1. \A i \in 1 .. Len(s) : i \in P <=> i \in Q BY <1>1
  <2> QED BY <2>1, AtAppend
<1> QED BY <1>1, <1>2, AtEmpty DEF P, Q, WordsOf, WordSet

\* The words of a text are symbols of it.
LEMMA WordsType ==
  ASSUME NEW A, NEW s \in Seq(A)
  PROVE  WordsOf(s) \in Seq(A)
<1> DEFINE T == {t \in Seq(A) : WordsOf(t) \in Seq(A)}
<1>1. <<>> \in T
  <2>1. WordsOf(<<>>) = <<>> BY AtEmpty DEF WordsOf
  <2>2. <<>> \in Seq(A) OBVIOUS
  <2> QED BY <2>1, <2>2, Zenon
<1>2. ASSUME NEW t \in Seq(A), t \in T, NEW x \in A PROVE Append(t, x) \in T
  <2>1. /\ WordsOf(t) \in Seq(A)
        /\ WordsOf(Append(t, x)) = IF x \in WordSet THEN Append(WordsOf(t), x) ELSE WordsOf(t)
    BY WordsAppend
  <2>2. Append(t, x) \in Seq(A) BY AppendIs
  <2> DEFINE w == WordsOf(t)
  <2>3. w \in Seq(A) BY <2>1
  <2> HIDE DEF w
  <2>4. Append(w, x) \in Seq(A) BY <2>3, AppendIs
  <2> QED BY <2>1, <2>2, <2>4 DEF w
<1> HIDE DEF T
<1>3. Seq(A) \subseteq T BY <1>1, <1>2, SeqInduction
<1> QED BY <1>3 DEF T

\* The words of two texts, one after the other.
LEMMA WordsConcat ==
  ASSUME NEW A, NEW s \in Seq(A), NEW t \in Seq(A)
  PROVE  WordsOf(s \o t) = WordsOf(s) \o WordsOf(t)
<1> DEFINE T == {v \in Seq(A) : WordsOf(s \o v) = WordsOf(s) \o WordsOf(v)}
<1>0. WordsOf(s) \in Seq(A) BY WordsType
<1>1. <<>> \in T
  <2>1. WordsOf(<<>>) = <<>> BY AtEmpty DEF WordsOf
  <2>2. s \o <<>> = s OBVIOUS
  <2>3. WordsOf(s) \o <<>> = WordsOf(s) BY <1>0
  <2>4. <<>> \in Seq(A) OBVIOUS
  <2> QED BY <2>1, <2>2, <2>3, <2>4, Zenon
<1>2. ASSUME NEW v \in Seq(A), v \in T, NEW x \in A PROVE Append(v, x) \in T
  <2>1. s \o Append(v, x) = Append(s \o v, x) BY ConcatAppend
  <2>2. s \o v \in Seq(A) /\ Append(v, x) \in Seq(A) BY ConcatIs, AppendIs
  <2> DEFINE u == s \o v
  <2>3. u \in Seq(A) BY <2>2
  <2> HIDE DEF u
  <2>4. WordsOf(Append(u, x)) = IF x \in WordSet THEN Append(WordsOf(u), x) ELSE WordsOf(u)
    BY <2>3, WordsAppend
  <2>5. WordsOf(Append(v, x)) = IF x \in WordSet THEN Append(WordsOf(v), x) ELSE WordsOf(v)
    BY WordsAppend
  <2>6. WordsOf(u) = WordsOf(s) \o WordsOf(v) BY <1>2 DEF u
  <2> DEFINE a == WordsOf(s)
             b == WordsOf(v)
  <2>7. a \in Seq(A) /\ b \in Seq(A) BY <1>0, WordsType
  <2>8. a \o Append(b, x) = Append(a \o b, x)
    <3>1. a \in Seq(A) BY <2>7
    <3>2. b \in Seq(A) BY <2>7
    <3> HIDE DEF a, b
    <3> QED BY <3>1, <3>2, ConcatAppend
  <2>9. WordsOf(Append(u, x)) = a \o WordsOf(Append(v, x)) BY <2>4, <2>5, <2>6, <2>8
  <2> QED BY <2>1, <2>2, <2>9 DEF u
<1> HIDE DEF T
<1>3. Seq(A) \subseteq T BY <1>1, <1>2, SeqInduction
<1> QED BY <1>3 DEF T

\* A text has no words exactly when there is nothing in it to tag.
LEMMA NoWords ==
  ASSUME NEW A, NEW s \in Seq(A)
  PROVE  WordsOf(s) = <<>> <=> ~HasTaggableContent(s)
<1> DEFINE T == {t \in Seq(A) : WordsOf(t) = <<>> <=> Places(t, WordSet) = {}}
<1>1. <<>> \in T
  <2>1. WordsOf(<<>>) = <<>> BY AtEmpty DEF WordsOf
  <2>2. Places(<<>>, WordSet) = {} BY DEF Places
  <2> QED BY <2>1, <2>2
<1>2. ASSUME NEW t \in Seq(A), t \in T, NEW x \in A PROVE Append(t, x) \in T
  <2>1. /\ WordsOf(t) \in Seq(A)
        /\ WordsOf(Append(t, x)) = IF x \in WordSet THEN Append(WordsOf(t), x) ELSE WordsOf(t)
    BY WordsAppend
  <2>2. Append(t, x) \in Seq(A) BY AppendIs
  <2>3. /\ DOMAIN t = 1 .. Len(t) /\ DOMAIN Append(t, x) = 1 .. Len(t) + 1
        /\ \A i \in 1 .. Len(t) : i \in Places(Append(t, x), WordSet) <=> i \in Places(t, WordSet)
        /\ Len(t) + 1 \in Places(Append(t, x), WordSet) <=> x \in WordSet
    BY PlacesAppend
  <2>4. /\ Places(t, WordSet) \subseteq 1 .. Len(t)
        /\ Places(Append(t, x), WordSet) \subseteq 1 .. Len(t) + 1
    BY <2>3 DEF Places
  <2>5. CASE x \in WordSet
    <3>1. Append(WordsOf(t), x) # <<>>
      <4> DEFINE w == WordsOf(t)
      <4>1. w \in Seq(A) BY <2>1
      <4> HIDE DEF w
      <4>2. Len(Append(w, x)) = Len(w) + 1 /\ Len(w) \in Nat BY <4>1
      <4> QED BY <4>2 DEF w
    <3> QED BY <2>1, <2>2, <2>3, <2>5, <3>1
  <2>6. CASE x \notin WordSet
    <3>1. Places(Append(t, x), WordSet) = Places(t, WordSet)
      <4>1. Len(t) \in Nat OBVIOUS
      <4>2. 1 .. Len(t) + 1 = (1 .. Len(t)) \cup {Len(t) + 1} BY <4>1
      <4> QED BY <2>3, <2>4, <2>6, <4>2
    <3> QED BY <1>2, <2>1, <2>2, <2>6, <3>1
  <2> QED BY <2>5, <2>6
<1> HIDE DEF T
<1>3. Seq(A) \subseteq T BY <1>1, <1>2, SeqInduction
<1> QED BY <1>3 DEF T, HasTaggableContent, WordSet

\* Keeping every place of a word keeps the words.
LEMMA WordsAt ==
  ASSUME NEW A, NEW s \in Seq(A), NEW P, Places(s, WordSet) \subseteq P
  PROVE  WordsOf(At(s, P)) = WordsOf(s)
<1> DEFINE T == {t \in Seq(A) : Places(t, WordSet) \subseteq P => WordsOf(At(t, P)) = WordsOf(t)}
<1>1. <<>> \in T
  <2>1. At(<<>>, P) = <<>> BY AtEmpty
  <2>2. <<>> \in Seq(A) OBVIOUS
  <2> QED BY <2>1, <2>2, Zenon
<1>2. ASSUME NEW t \in Seq(A), t \in T, NEW x \in A PROVE Append(t, x) \in T
  <2>1. Append(t, x) \in Seq(A) BY AppendIs
  <2>2. /\ DOMAIN t = 1 .. Len(t) /\ DOMAIN Append(t, x) = 1 .. Len(t) + 1
        /\ \A i \in 1 .. Len(t) : i \in Places(Append(t, x), WordSet) <=> i \in Places(t, WordSet)
        /\ Len(t) + 1 \in Places(Append(t, x), WordSet) <=> x \in WordSet
    BY PlacesAppend
  <2>3. Places(t, WordSet) \subseteq Places(Append(t, x), WordSet) BY <2>2 DEF Places
  <2>4. /\ At(t, P) \in Seq(A)
        /\ At(Append(t, x), P) = IF Len(t) + 1 \in P THEN Append(At(t, P), x) ELSE At(t, P)
    <3>1. \A i \in 1 .. Len(t) : i \in P <=> i \in P OBVIOUS
    <3> QED BY <3>1, AtAppend
  <2>5. WordsOf(Append(t, x)) = IF x \in WordSet THEN Append(WordsOf(t), x) ELSE WordsOf(t)
    BY WordsAppend
  <2> DEFINE a == At(t, P)
  <2>6. WordsOf(Append(a, x)) = IF x \in WordSet THEN Append(WordsOf(a), x) ELSE WordsOf(a)
    <3>1. a \in Seq(A) BY <2>4
    <3> HIDE DEF a
    <3> QED BY <3>1, WordsAppend
  <2>7. ASSUME Places(Append(t, x), WordSet) \subseteq P
        PROVE  WordsOf(At(Append(t, x), P)) = WordsOf(Append(t, x))
    <3>1. WordsOf(a) = WordsOf(t) BY <1>2, <2>3, <2>7
    <3>2. x \in WordSet => Len(t) + 1 \in P BY <2>2, <2>7
    <3> HIDE DEF a
    <3>3. At(Append(t, x), P) = IF Len(t) + 1 \in P THEN Append(a, x) ELSE a BY <2>4 DEF a
    <3>4. CASE x \in WordSet
      <4>1. At(Append(t, x), P) = Append(a, x) BY <3>2, <3>3, <3>4
      <4> QED BY <2>5, <2>6, <3>1, <3>4, <4>1
    <3>5. CASE x \notin WordSet
      <4>1. WordsOf(Append(a, x)) = WordsOf(a) BY <2>6, <3>5
      <4>2. WordsOf(At(Append(t, x), P)) = WordsOf(a) BY <3>3, <4>1
      <4> QED BY <2>5, <3>1, <3>5, <4>2
    <3> QED BY <3>4, <3>5
  <2> QED BY <2>1, <2>7
<1> HIDE DEF T
<1>3. Seq(A) \subseteq T BY <1>1, <1>2, SeqInduction
<1> QED BY <1>3 DEF T

\* Sequences with the same words at the same places.
LEMMA SameWords ==
  ASSUME NEW A, NEW s \in Seq(A), NEW B, NEW t \in Seq(B), Len(s) = Len(t),
         \A i \in 1 .. Len(s) : (s[i] \in WordSet \/ t[i] \in WordSet) => s[i] = t[i]
  PROVE  WordsOf(s) = WordsOf(t)
<1> DEFINE N == Len(s)
           P == Places(s, WordSet)
           Q == Places(t, WordSet)
           f == AtSteps(s, P)
           g == AtSteps(t, Q)
<1>1. N \in Nat /\ DOMAIN s = 1 .. N /\ DOMAIN t = 1 .. N OBVIOUS
<1>2. \A i \in 1 .. N : (i \in P <=> i \in Q) /\ (i \in P => s[i] = t[i])
  BY <1>1 DEF Places
<1> HIDE DEF P, Q
<1>3. /\ f[0] = <<>> /\ At(s, P) = f[N]
      /\ \A n \in 1 .. N : f[n] = IF n \in P THEN Append(f[n - 1], s[n]) ELSE f[n - 1]
  BY AtUnfolds
<1>4. /\ g[0] = <<>> /\ At(t, Q) = g[Len(t)]
      /\ \A n \in 1 .. Len(t) : g[n] = IF n \in Q THEN Append(g[n - 1], t[n]) ELSE g[n - 1]
  BY AtUnfolds
<1> HIDE DEF f, g
<1>5. \A n \in 1 .. N : f[n - 1] = g[n - 1] => f[n] = g[n]
  <2> TAKE n \in 1 .. N
  <2>1. f[n] = IF n \in P THEN Append(f[n - 1], s[n]) ELSE f[n - 1] BY <1>3
  <2>2. g[n] = IF n \in Q THEN Append(g[n - 1], t[n]) ELSE g[n - 1] BY <1>4
  <2> HIDE DEF N
  <2> QED BY <1>2, <2>1, <2>2
<1>6. f[0] = g[0] BY <1>3, <1>4
<1> HIDE DEF N
<1>7. N \in Nat BY <1>1
<1>8. \A n \in 0 .. N : f[n] = g[n]
  <2>1. N \in Nat /\ Alike(f, g, N) BY <1>5, <1>6, <1>7 DEF Alike
  <2> QED BY <2>1, SameSteps
<1>9. f[N] = g[N] BY <1>7, <1>8
<1>10. Len(t) = N BY DEF N
<1> QED BY <1>3, <1>4, <1>9, <1>10 DEF WordsOf, P, Q, WordSet

-----------------------------------------------------------------------------
(* What is left of a text, its words in any case *)

\* f says where in s each symbol of r is from.
Picks(f, r, s) ==
  /\ f \in [1 .. Len(r) -> 1 .. Len(s)]
  /\ \A j, k \in 1 .. Len(r) : j < k => f[j] < f[k]
  /\ \A k \in 1 .. Len(r) : r[k] = s[f[k]]

\* r is s with symbols left out that are no words.
Thins(r, s) ==
  /\ WordsOf(r) = WordsOf(s)
  /\ \E f : Picks(f, r, s) /\ \A m \in Places(s, WordSet) : \E k \in 1 .. Len(r) : f[k] = m

\* What At leaves, and where it is from.
LEMMA AtIs ==
  ASSUME NEW A, NEW s \in Seq(A), NEW P
  PROVE  /\ At(s, P) \in Seq(A)
         /\ \E f : /\ Picks(f, At(s, P), s)
                   /\ \A k \in 1 .. Len(At(s, P)) : f[k] \in P
                   /\ \A m \in P \cap (1 .. Len(s)) : \E k \in 1 .. Len(At(s, P)) : f[k] = m
<1> DEFINE Ok(r, t) == \E f : /\ Picks(f, r, t)
                              /\ \A k \in 1 .. Len(r) : f[k] \in P
                              /\ \A m \in P \cap (1 .. Len(t)) : \E k \in 1 .. Len(r) : f[k] = m
           T == {t \in Seq(A) : At(t, P) \in Seq(A) /\ Ok(At(t, P), t)}
<1>1. <<>> \in T
  <2>1. At(<<>>, P) = <<>> BY AtEmpty
  <2>2. <<>> \in Seq(A) OBVIOUS
  <2>3. Ok(<<>>, <<>>)
    <3>1. Picks(<<>>, <<>>, <<>>) BY DEF Picks
    <3> QED BY <3>1
  <2> HIDE DEF Ok
  <2> QED BY <2>1, <2>2, <2>3
<1>2. ASSUME NEW t \in Seq(A), t \in T, NEW x \in A PROVE Append(t, x) \in T
  <2> DEFINE u == Append(t, x)
             r == At(t, P)
             q == At(u, P)
             N == Len(t)
             M == Len(r)
  <2>0. Ok(r, t) BY <1>2
  <2>1. /\ u \in Seq(A) /\ Len(u) = N + 1 /\ N \in Nat /\ (\A i \in 1 .. N : u[i] = t[i])
        /\ u[N + 1] = x
    BY AppendIs
  <2>2. r \in Seq(A) /\ q = IF N + 1 \in P THEN Append(r, x) ELSE r
    <3>1. \A i \in 1 .. Len(t) : i \in P <=> i \in P OBVIOUS
    <3> QED BY <3>1, AtAppend
  <2>3. PICK f : /\ Picks(f, r, t)
                 /\ \A k \in 1 .. Len(r) : f[k] \in P
                 /\ \A m \in P \cap (1 .. Len(t)) : \E k \in 1 .. Len(r) : f[k] = m
    BY <2>0
  <2> HIDE DEF u, r, q, T
  <2>4. CASE N + 1 \in P
    <3> DEFINE g == [k \in 1 .. M + 1 |-> IF k = M + 1 THEN N + 1 ELSE f[k]]
    <3>1. /\ q \in Seq(A) /\ Len(q) = M + 1 /\ M \in Nat /\ (\A i \in 1 .. M : q[i] = r[i])
          /\ q[M + 1] = x
      <4>1. q = Append(r, x) BY <2>2, <2>4
      <4>2. Append(r, x) \in Seq(A) /\ Len(Append(r, x)) = Len(r) + 1 /\ Len(r) \in Nat
            /\ (\A i \in 1 .. Len(r) : Append(r, x)[i] = r[i]) /\ Append(r, x)[Len(r) + 1] = x
        BY <2>2, AppendIs
      <4> QED BY <4>1, <4>2
    <3>2. \A k \in 1 .. M : f[k] \in 1 .. N /\ r[k] = t[f[k]] /\ f[k] \in P BY <2>3 DEF Picks
    <3>3. \A j, k \in 1 .. M : j < k => f[j] < f[k] BY <2>3 DEF Picks
    <3> HIDE DEF M, N
    <3>4. g \in [1 .. M + 1 -> 1 .. N + 1]
      <4>1. ASSUME NEW k \in 1 .. M + 1 PROVE (IF k = M + 1 THEN N + 1 ELSE f[k]) \in 1 .. N + 1
        <5>1. k = M + 1 \/ k \in 1 .. M BY <3>1
        <5>2. CASE k = M + 1 BY <2>1, <5>2
        <5>3. CASE k \in 1 .. M
          <6>1. f[k] \in 1 .. N /\ k # M + 1 BY <3>1, <3>2, <5>3
          <6> QED BY <2>1, <6>1
        <5> QED BY <5>1, <5>2, <5>3
      <4> QED BY <4>1
    <3>5. \A k \in 1 .. M : k \in 1 .. M + 1 /\ k # M + 1 /\ g[k] = f[k] BY <3>1
    <3>6. g[M + 1] = N + 1 BY <3>1
    <3>7. \A k \in 1 .. M + 1 : k \in 1 .. M \/ k = M + 1 BY <3>1
    <3> HIDE DEF g
    <3>8. ASSUME NEW j \in 1 .. M + 1, NEW k \in 1 .. M + 1, j < k PROVE g[j] < g[k]
      <4>1. j \in 1 .. M BY <3>1, <3>8
      <4>2. CASE k \in 1 .. M BY <3>3, <3>5, <3>8, <4>1, <4>2
      <4>3. CASE k = M + 1
        <5>1. f[j] \in 1 .. N BY <3>2, <4>1
        <5>2. f[j] < N + 1 BY <2>1, <5>1
        <5> QED BY <3>5, <3>6, <4>1, <4>3, <5>2
      <4> QED BY <3>7, <4>2, <4>3
    <3>9. ASSUME NEW k \in 1 .. M + 1 PROVE q[k] = u[g[k]]
      <4>1. CASE k \in 1 .. M
        <5>1. q[k] = r[k] /\ g[k] = f[k] /\ f[k] \in 1 .. N /\ r[k] = t[f[k]]
          BY <3>1, <3>2, <3>5, <4>1
        <5>2. u[f[k]] = t[f[k]] BY <2>1, <5>1
        <5> QED BY <5>1, <5>2
      <4>2. CASE k = M + 1 BY <2>1, <3>1, <3>6, <4>2
      <4> QED BY <3>7, <4>1, <4>2
    <3>10. \A k \in 1 .. M + 1 : g[k] \in P BY <2>4, <3>2, <3>5, <3>6, <3>7
    <3>11. ASSUME NEW m \in P \cap (1 .. N + 1) PROVE \E k \in 1 .. M + 1 : g[k] = m
      <4>1. CASE m = N + 1
        <5>1. M + 1 \in 1 .. M + 1 BY <3>1
        <5> QED BY <3>6, <4>1, <5>1
      <4>2. CASE m # N + 1
        <5>1. m \in P \cap (1 .. N) BY <2>1, <4>2
        <5>2. PICK k \in 1 .. M : f[k] = m BY <2>3, <5>1 DEF M, N
        <5> QED BY <3>5, <5>2
      <4> QED BY <4>1, <4>2
    <3>12. Picks(g, q, u) BY <2>1, <3>1, <3>4, <3>8, <3>9 DEF Picks
    <3>13. Ok(q, u)
      <4>1. /\ Picks(g, q, u)
            /\ \A k \in 1 .. Len(q) : g[k] \in P
            /\ \A m \in P \cap (1 .. Len(u)) : \E k \in 1 .. Len(q) : g[k] = m
        BY <2>1, <3>1, <3>10, <3>11, <3>12
      <4> QED BY <4>1
    <3> HIDE DEF Ok
    <3> QED BY <2>1, <3>1, <3>13 DEF T, u, q
  <2>5. CASE N + 1 \notin P
    <3>1. q = r BY <2>2, <2>5
    <3>2. Picks(f, r, u)
      <4>1. \A k \in 1 .. Len(r) : f[k] \in 1 .. N /\ f[k] \in 1 .. N + 1 /\ r[k] = t[f[k]]
        BY <2>1, <2>3 DEF Picks
      <4>2. \A k \in 1 .. Len(r) : r[k] = u[f[k]] BY <2>1, <4>1
      <4>3. f \in [1 .. Len(r) -> 1 .. Len(u)] BY <2>1, <2>3, <4>1 DEF Picks
      <4> QED BY <2>3, <4>2, <4>3 DEF Picks
    <3>3. P \cap (1 .. Len(u)) = P \cap (1 .. Len(t))
      <4>1. 1 .. Len(u) = (1 .. Len(t)) \cup {N + 1} BY <2>1
      <4> QED BY <2>5, <4>1
    <3>4. Ok(r, u)
      <4>1. /\ Picks(f, r, u)
            /\ \A k \in 1 .. Len(r) : f[k] \in P
            /\ \A m \in P \cap (1 .. Len(u)) : \E k \in 1 .. Len(r) : f[k] = m
        BY <2>3, <3>2, <3>3
      <4> QED BY <4>1
    <3> HIDE DEF Ok
    <3> QED BY <2>1, <2>2, <3>1, <3>4 DEF T, u, q
  <2> QED BY <2>4, <2>5 DEF u
<1> HIDE DEF T
<1>3. Seq(A) \subseteq T BY <1>1, <1>2, SeqInduction
<1> QED BY <1>3 DEF T

\* A text is thinned by leaving out places without words.
LEMMA AtThins ==
  ASSUME NEW A, NEW s \in Seq(A), NEW P, Places(s, WordSet) \subseteq P
  PROVE  At(s, P) \in Seq(A) /\ Thins(At(s, P), s)
<1> DEFINE r == At(s, P)
<1>1. WordsOf(r) = WordsOf(s) BY WordsAt
<1>2. /\ r \in Seq(A)
      /\ \E f : /\ Picks(f, r, s)
                /\ \A k \in 1 .. Len(r) : f[k] \in P
                /\ \A m \in P \cap (1 .. Len(s)) : \E k \in 1 .. Len(r) : f[k] = m
  BY AtIs
<1> HIDE DEF r
<1>3. PICK f : /\ Picks(f, r, s)
               /\ \A m \in P \cap (1 .. Len(s)) : \E k \in 1 .. Len(r) : f[k] = m
  BY <1>2
<1>4. Places(s, WordSet) \subseteq P \cap (1 .. Len(s)) BY DEF Places
<1>5. \A m \in Places(s, WordSet) : \E k \in 1 .. Len(r) : f[k] = m BY <1>3, <1>4
<1> QED BY <1>1, <1>2, <1>3, <1>5 DEF Thins, r

\* Thinning is an order, and goes on part by part.
LEMMA ThinsSelf ==
  ASSUME NEW A, NEW s \in Seq(A)
  PROVE  Thins(s, s)
<1> DEFINE f == [k \in 1 .. Len(s) |-> k]
<1>1. Picks(f, s, s) BY DEF Picks
<1>2. \A m \in Places(s, WordSet) : m \in 1 .. Len(s) BY DEF Places
<1>3. \A m \in Places(s, WordSet) : \E k \in 1 .. Len(s) : f[k] = m BY <1>2
<1> HIDE DEF f
<1> QED BY <1>1, <1>3 DEF Thins

LEMMA ThinsTwice ==
  ASSUME NEW A, NEW r \in Seq(A), NEW s \in Seq(A), NEW t \in Seq(A), Thins(r, s), Thins(s, t)
  PROVE  Thins(r, t)
<1>1. PICK f : Picks(f, r, s) /\ \A m \in Places(s, WordSet) : \E k \in 1 .. Len(r) : f[k] = m
  BY DEF Thins
<1>2. PICK g : Picks(g, s, t) /\ \A m \in Places(t, WordSet) : \E k \in 1 .. Len(s) : g[k] = m
  BY DEF Thins
<1> DEFINE h == [k \in 1 .. Len(r) |-> g[f[k]]]
<1>3. \A k \in 1 .. Len(r) : f[k] \in 1 .. Len(s) /\ r[k] = s[f[k]] BY <1>1 DEF Picks
<1>4. \A k \in 1 .. Len(s) : g[k] \in 1 .. Len(t) /\ s[k] = t[g[k]] BY <1>2 DEF Picks
<1>5. \A k \in 1 .. Len(r) : h[k] = g[f[k]] OBVIOUS
<1>6. h \in [1 .. Len(r) -> 1 .. Len(t)] BY <1>3, <1>4
<1> HIDE DEF h
<1>7. ASSUME NEW j \in 1 .. Len(r), NEW k \in 1 .. Len(r), j < k PROVE h[j] < h[k]
  <2>1. f[j] < f[k] BY <1>1, <1>7 DEF Picks
  <2>2. f[j] \in 1 .. Len(s) /\ f[k] \in 1 .. Len(s) BY <1>3
  <2>3. g[f[j]] < g[f[k]] BY <1>2, <2>1, <2>2 DEF Picks
  <2> QED BY <1>5, <2>3
<1>8. \A k \in 1 .. Len(r) : r[k] = t[h[k]] BY <1>3, <1>4, <1>5
<1>9. Picks(h, r, t) BY <1>6, <1>7, <1>8 DEF Picks
<1>10. ASSUME NEW m \in Places(t, WordSet) PROVE \E k \in 1 .. Len(r) : h[k] = m
  <2>1. PICK k \in 1 .. Len(s) : g[k] = m BY <1>2
  <2>2. s[k] \in WordSet BY <1>4, <2>1 DEF Places
  <2>3. DOMAIN s = 1 .. Len(s) OBVIOUS
  <2>4. k \in Places(s, WordSet) BY <2>2, <2>3 DEF Places
  <2>5. PICK j \in 1 .. Len(r) : f[j] = k BY <1>1, <2>4
  <2> QED BY <1>5, <2>1, <2>5
<1> QED BY <1>9, <1>10 DEF Thins

LEMMA ThinsConcat ==
  ASSUME NEW A, NEW r \in Seq(A), NEW s \in Seq(A), NEW p \in Seq(A), NEW q \in Seq(A),
         Thins(r, s), Thins(p, q)
  PROVE  Thins(r \o p, s \o q)
<1> DEFINE u == r \o p
           v == s \o q
           M == Len(r)
           K == Len(p)
           N == Len(s)
           L == Len(q)
<1>1. WordsOf(u) = WordsOf(v)
  <2>1. WordsOf(u) = WordsOf(r) \o WordsOf(p) BY WordsConcat
  <2>2. WordsOf(v) = WordsOf(s) \o WordsOf(q) BY WordsConcat
  <2> QED BY <2>1, <2>2 DEF Thins
<1>2. PICK f : Picks(f, r, s) /\ \A m \in Places(s, WordSet) : \E k \in 1 .. Len(r) : f[k] = m
  BY DEF Thins
<1>3. PICK g : Picks(g, p, q) /\ \A m \in Places(q, WordSet) : \E k \in 1 .. Len(p) : g[k] = m
  BY DEF Thins
<1>4. /\ u \in Seq(A) /\ Len(u) = M + K /\ M \in Nat /\ K \in Nat
      /\ \A i \in 1 .. M : u[i] = r[i]
      /\ \A i \in 1 .. K : u[M + i] = p[i]
  BY ConcatIs
<1>5. /\ v \in Seq(A) /\ Len(v) = N + L /\ N \in Nat /\ L \in Nat
      /\ \A i \in 1 .. N : v[i] = s[i]
      /\ \A i \in 1 .. L : v[N + i] = q[i]
  BY ConcatIs
<1>6. DOMAIN s = 1 .. N /\ DOMAIN q = 1 .. L /\ DOMAIN v = 1 .. Len(v)
  <2>1. v \in Seq(A) BY <1>5
  <2> HIDE DEF v
  <2> QED BY <2>1
<1>7. \A k \in 1 .. M : f[k] \in 1 .. N /\ r[k] = s[f[k]] BY <1>2 DEF Picks
<1>8. \A k \in 1 .. K : g[k] \in 1 .. L /\ p[k] = q[g[k]] BY <1>3 DEF Picks
<1>9. \A j, k \in 1 .. M : j < k => f[j] < f[k] BY <1>2 DEF Picks
<1>10. \A j, k \in 1 .. K : j < k => g[j] < g[k] BY <1>3 DEF Picks
<1>11. \A m \in Places(s, WordSet) : \E k \in 1 .. M : f[k] = m BY <1>2
<1>12. \A m \in Places(q, WordSet) : \E k \in 1 .. K : g[k] = m BY <1>3
<1> HIDE DEF u, v, M, K, N, L
<1> DEFINE h == [k \in 1 .. M + K |-> IF k <= M THEN f[k] ELSE N + g[k - M]]
<1>13. \A k \in 1 .. M + K : k \in 1 .. M \/ \E i \in 1 .. K : k = M + i
  <2> TAKE k \in 1 .. M + K
  <2>1. CASE k <= M BY <1>4, <2>1
  <2>2. CASE ~(k <= M)
    <3>1. k - M \in 1 .. K /\ k = M + (k - M) BY <1>4, <2>2
    <3> QED BY <3>1
  <2> QED BY <2>1, <2>2
<1>14. \A k \in 1 .. M : k \in 1 .. M + K /\ h[k] = f[k] BY <1>4
<1>15. \A i \in 1 .. K : M + i \in 1 .. M + K /\ h[M + i] = N + g[i]
  <2> TAKE i \in 1 .. K
  <2>1. M + i \in 1 .. M + K /\ ~(M + i <= M) /\ (M + i) - M = i BY <1>4
  <2> QED BY <2>1
<1>16. h = [k \in 1 .. M + K |-> h[k]] OBVIOUS
<1> HIDE DEF h
<1>17. ASSUME NEW i \in 1 .. N PROVE i \in 1 .. N + L BY <1>5
<1>18. ASSUME NEW i \in 1 .. L PROVE N + i \in 1 .. N + L /\ N + i > N BY <1>5
<1>19. ASSUME NEW k \in 1 .. M + K PROVE h[k] \in 1 .. N + L /\ u[k] = v[h[k]]
  <2>1. CASE k \in 1 .. M
    <3>1. h[k] = f[k] /\ f[k] \in 1 .. N /\ r[k] = s[f[k]] BY <1>7, <1>14, <2>1
    <3>2. u[k] = r[k] /\ v[f[k]] = s[f[k]] /\ f[k] \in 1 .. N + L BY <1>4, <1>5, <1>17, <2>1, <3>1
    <3> QED BY <3>1, <3>2
  <2>2. ASSUME NEW i \in 1 .. K, k = M + i PROVE h[k] \in 1 .. N + L /\ u[k] = v[h[k]]
    <3>1. h[k] = N + g[i] /\ g[i] \in 1 .. L /\ p[i] = q[g[i]] BY <1>8, <1>15, <2>2
    <3>2. u[k] = p[i] /\ v[N + g[i]] = q[g[i]] /\ N + g[i] \in 1 .. N + L
      BY <1>4, <1>5, <1>18, <2>2, <3>1
    <3> QED BY <3>1, <3>2
  <2> QED BY <1>13, <2>1, <2>2
<1>20. ASSUME NEW j \in 1 .. M + K, NEW k \in 1 .. M + K, j < k PROVE h[j] < h[k]
  <2>1. CASE j \in 1 .. M /\ k \in 1 .. M BY <1>9, <1>14, <1>20, <2>1
  <2>2. ASSUME j \in 1 .. M, NEW i \in 1 .. K, k = M + i PROVE h[j] < h[k]
    <3>1. h[j] = f[j] /\ f[j] \in 1 .. N BY <1>7, <1>14, <2>2
    <3>2. h[k] = N + g[i] /\ g[i] \in 1 .. L BY <1>8, <1>15, <2>2
    <3> QED BY <1>5, <3>1, <3>2
  <2>3. ASSUME k \in 1 .. M, NEW i \in 1 .. K, j = M + i PROVE FALSE
    BY <1>4, <1>20, <2>3
  <2>4. ASSUME NEW i \in 1 .. K, j = M + i, NEW l \in 1 .. K, k = M + l PROVE h[j] < h[k]
    <3>1. i < l BY <1>4, <1>20, <2>4
    <3>2. g[i] < g[l] /\ g[i] \in 1 .. L /\ g[l] \in 1 .. L BY <1>8, <1>10, <3>1
    <3>3. h[j] = N + g[i] /\ h[k] = N + g[l] BY <1>15, <2>4
    <3> QED BY <1>5, <3>2, <3>3
  <2> QED BY <1>13, <2>1, <2>2, <2>3, <2>4
<1>21. Picks(h, u, v)
  <2>1. h \in [1 .. M + K -> 1 .. N + L] BY <1>16, <1>19
  <2>2. \A k \in 1 .. M + K : u[k] = v[h[k]] BY <1>19
  <2>3. \A j, k \in 1 .. M + K : j < k => h[j] < h[k] BY <1>20
  <2> QED BY <1>4, <1>5, <2>1, <2>2, <2>3 DEF Picks
<1>22. ASSUME NEW m \in Places(v, WordSet) PROVE \E k \in 1 .. M + K : h[k] = m
  <2>1. m \in 1 .. N + L /\ v[m] \in WordSet BY <1>5, <1>6 DEF Places
  <2>2. CASE m <= N
    <3>1. m \in 1 .. N BY <1>5, <2>1, <2>2
    <3>2. m \in Places(s, WordSet) BY <1>5, <1>6, <2>1, <3>1 DEF Places
    <3>3. PICK k \in 1 .. M : f[k] = m BY <1>11, <3>2
    <3> QED BY <1>14, <3>3
  <2>3. CASE ~(m <= N)
    <3>1. m - N \in 1 .. L /\ N + (m - N) = m BY <1>5, <2>1, <2>3
    <3>2. v[N + (m - N)] = q[m - N] BY <1>5, <3>1
    <3>3. m - N \in Places(q, WordSet) BY <1>6, <2>1, <3>1, <3>2 DEF Places
    <3>4. PICK k \in 1 .. K : g[k] = m - N BY <1>12, <3>3
    <3>5. h[M + k] = m /\ M + k \in 1 .. M + K BY <1>15, <3>1, <3>4
    <3> QED BY <3>5
  <2> QED BY <2>2, <2>3
<1> QED BY <1>1, <1>4, <1>21, <1>22 DEF Thins, u, v

\* A text thinned by the end of it in which there is no word.
LEMMA ThinsPrefix ==
  ASSUME NEW A, NEW s \in Seq(A), NEW p \in Seq(A), ~HasTaggableContent(p)
  PROVE  Thins(s, s \o p)
<1> DEFINE e == <<>>
<1>1. e \in Seq(A) /\ s \o e = s BY ConcatAppend
<1>2. Thins(s, s) BY ThinsSelf
<1>3. Thins(e, p)
  <2>1. WordsOf(e) = e BY AtEmpty DEF WordsOf
  <2>2. WordsOf(p) = e BY NoWords
  <2>3. Picks(e, e, p) BY DEF Picks
  <2>4. Places(p, WordSet) = {} BY DEF HasTaggableContent, WordSet
  <2> HIDE DEF e
  <2> QED BY <2>1, <2>2, <2>3, <2>4 DEF Thins
<1> HIDE DEF e
<1>4. Thins(s \o e, s \o p) BY <1>1, <1>2, <1>3, ThinsConcat
<1> QED BY <1>1, <1>4

-----------------------------------------------------------------------------
(* Legal texts *)

\* The tags that must not reach the synthesizer; a text in which each tag has a word
\* behind it, one with a single break, and one without such tags.
IllFormed == DOMAIN Malformed \cup {"[ ]"}
Backed(s) == \A j \in 1 .. Len(s) : s[j] \in Tags => \E m \in j .. Len(s) : s[m] \in WordSet
OneBreak(s) == \A i, j \in 1 .. Len(s) : s[i] \in Breaks /\ s[j] \in Breaks => i = j
WellFormed(s) == \A j \in 1 .. Len(s) : s[j] \notin IllFormed

\* A symbol is of one kind.
LEMMA WordsApart ==
  /\ WordSet \cap Tags = {} /\ WordSet \cap Pauses = {} /\ WordSet \cap Blank = {}
  /\ Tags \cap Pauses = {} /\ Breaks \subseteq Tags /\ IllFormed \subseteq Tags
  /\ IllFormed = {"[ sad ]", "[ break]", "[ ]"} /\ Tags \cap Blank = {}
<1>1. WordSet \cap (Pauses \cup Tags) = {} BY TextAssumption DEF WordSet
<1>2. Blank \subseteq Pauses BY DEF Blank, Pauses
<1>3. DOMAIN Malformed = {"[ sad ]", "[ break]"} BY DEF Malformed
<1>4. Tags \cap Pauses = {} BY <1>3 DEF Tags, Pauses, Exempt, Breaks
<1>5. Breaks \subseteq Tags /\ IllFormed \subseteq Tags
  BY <1>3 DEF Tags, Exempt, Breaks, IllFormed
<1>6. IllFormed = {"[ sad ]", "[ break]", "[ ]"} BY <1>3 DEF IllFormed
<1> QED BY <1>1, <1>2, <1>4, <1>5, <1>6

\* Leaving out what is no word leaves a legal text legal.
LEMMA ThinsKeeps ==
  ASSUME NEW A, NEW r \in Seq(A), NEW s \in Seq(A), Thins(r, s)
  PROVE  /\ Backed(s) => Backed(r)
         /\ OneBreak(s) => OneBreak(r)
         /\ WellFormed(s) => WellFormed(r)
<1>1. PICK f : Picks(f, r, s) /\ \A m \in Places(s, WordSet) : \E k \in 1 .. Len(r) : f[k] = m
  BY DEF Thins
<1>2. \A k \in 1 .. Len(r) : f[k] \in 1 .. Len(s) /\ r[k] = s[f[k]] BY <1>1 DEF Picks
<1>3. \A j, k \in 1 .. Len(r) : j < k => f[j] < f[k] BY <1>1 DEF Picks
<1>4. ASSUME NEW j \in 1 .. Len(r), NEW k \in 1 .. Len(r), f[j] <= f[k] PROVE j <= k
  <2> SUFFICES ASSUME k < j PROVE FALSE OBVIOUS
  <2>1. f[k] < f[j] BY <1>3
  <2>2. f[k] \in 1 .. Len(s) /\ f[j] \in 1 .. Len(s) BY <1>2
  <2> QED BY <1>4, <2>1, <2>2
<1>5. DOMAIN s = 1 .. Len(s) OBVIOUS
<1>6. ASSUME Backed(s), NEW j \in 1 .. Len(r), r[j] \in Tags
      PROVE \E m \in j .. Len(r) : r[m] \in WordSet
  <2>1. f[j] \in 1 .. Len(s) /\ s[f[j]] \in Tags BY <1>2, <1>6
  <2>2. PICK m \in f[j] .. Len(s) : s[m] \in WordSet BY <1>6, <2>1 DEF Backed
  <2>3. m \in 1 .. Len(s) /\ f[j] <= m BY <2>1, <2>2
  <2>4. m \in Places(s, WordSet) BY <1>5, <2>2, <2>3 DEF Places
  <2>5. PICK k \in 1 .. Len(r) : f[k] = m BY <1>1, <2>4
  <2>6. j <= k BY <1>4, <2>3, <2>5
  <2>7. r[k] \in WordSet BY <1>2, <2>2, <2>5
  <2>8. k \in j .. Len(r) BY <2>6
  <2> QED BY <2>7, <2>8
<1>7. ASSUME OneBreak(s), NEW i \in 1 .. Len(r), NEW j \in 1 .. Len(r), r[i] \in Breaks, r[j] \in Breaks
      PROVE i = j
  <2>1. f[i] \in 1 .. Len(s) /\ f[j] \in 1 .. Len(s) /\ s[f[i]] \in Breaks /\ s[f[j]] \in Breaks
    BY <1>2, <1>7
  <2>2. f[i] = f[j] BY <1>7, <2>1 DEF OneBreak
  <2>3. i <= j /\ j <= i BY <1>4, <2>1, <2>2
  <2> QED BY <2>3
<1>8. WellFormed(s) => WellFormed(r) BY <1>2 DEF WellFormed
<1>9. Backed(s) => Backed(r) BY <1>6 DEF Backed
<1>10. OneBreak(s) => OneBreak(r) BY <1>7 DEF OneBreak
<1> QED BY <1>8, <1>9, <1>10

\* What _strip_dangling_tags looks for behind a tag.
LEMMA HasBehind ==
  ASSUME NEW A, NEW s \in Seq(A), NEW j \in 1 .. Len(s)
  PROVE  HasTaggableContent(SubSeq(s, j, Len(s))) <=> \E m \in j .. Len(s) : s[m] \in WordSet
<1> DEFINE n == j - 1
           b == SubSeq(s, n + 1, Len(s))
<1>1. n \in 0 .. Len(s) /\ n + 1 = j /\ Len(s) \in Nat OBVIOUS
<1>2. b = SubSeq(s, j, Len(s)) BY <1>1
<1> HIDE DEF n
<1>3. b \in Seq(A) /\ Len(b) = Len(s) - n /\ \A i \in 1 .. Len(s) - n : b[i] = s[n + i]
  BY <1>1, CutInTwo
<1> HIDE DEF b
<1>4. DOMAIN b = 1 .. Len(s) - n BY <1>3
<1>5. HasTaggableContent(b) <=> \E i \in 1 .. Len(s) - n : b[i] \in WordSet
  BY <1>4 DEF HasTaggableContent, Places, WordSet
<1>6. ASSUME NEW i \in 1 .. Len(s) - n, b[i] \in WordSet
      PROVE \E m \in j .. Len(s) : s[m] \in WordSet
  <2>1. n + i \in j .. Len(s) BY <1>1
  <2> QED BY <1>3, <1>6, <2>1
<1>7. ASSUME NEW m \in j .. Len(s), s[m] \in WordSet
      PROVE \E i \in 1 .. Len(s) - n : b[i] \in WordSet
  <2>1. m - n \in 1 .. Len(s) - n /\ n + (m - n) = m BY <1>1
  <2>2. b[m - n] = s[n + (m - n)] BY <1>3, <2>1
  <2> QED BY <1>7, <2>1, <2>2
<1> QED BY <1>2, <1>5, <1>6, <1>7

\* What TagsLegal asks of a result.
LEMMA LegalIs ==
  ASSUME NEW A, NEW s \in Seq(A), Backed(s), OneBreak(s), WellFormed(s)
  PROVE  /\ Cardinality(Places(s, Breaks)) <= 1
         /\ \A j \in DOMAIN s : s[j] \in Tags =>
              s[j] \notin DOMAIN Malformed \cup {"[ ]"} /\ HasTaggableContent(SubSeq(s, j, Len(s)))
<1>1. DOMAIN s = 1 .. Len(s) OBVIOUS
<1>2. Cardinality(Places(s, Breaks)) <= 1
  <2>1. CASE Places(s, Breaks) = {} BY <2>1, FS_EmptySet
  <2>2. ASSUME NEW i \in Places(s, Breaks) PROVE Cardinality(Places(s, Breaks)) <= 1
    <3>1. \A j \in Places(s, Breaks) : j = i BY <1>1 DEF Places, OneBreak
    <3>2. Places(s, Breaks) = {i} BY <3>1
    <3>3. Cardinality({i}) = 1 BY FS_Singleton
    <3> QED BY <3>2, <3>3
  <2> QED BY <2>1, <2>2
<1>3. ASSUME NEW j \in 1 .. Len(s), s[j] \in Tags PROVE HasTaggableContent(SubSeq(s, j, Len(s)))
  <2>1. \E m \in j .. Len(s) : s[m] \in WordSet BY <1>3 DEF Backed
  <2> QED BY <2>1, HasBehind
<1> QED BY <1>1, <1>2, <1>3 DEF WellFormed, IllFormed

\* The symbols of a reply, and those of an answer.
Plain   == WordSet \cup Pauses
Symbols == Plain \cup Tags

-----------------------------------------------------------------------------
(* White space *)

\* White space has no words; what is left when there is nothing else.
LEMMA RStripIs ==
  ASSUME NEW A, NEW s \in Seq(A)
  PROVE  RStrip(s) \in Seq(A) /\ Thins(RStrip(s), s)
<1> DEFINE solid == DOMAIN s \ Places(s, Blank)
           n == Max(solid \cup {0})
           p == SubSeq(s, n + 1, Len(s))
<1>1. DOMAIN s = 1 .. Len(s) /\ Len(s) \in Nat OBVIOUS
<1>2. n \in 0 .. Len(s) /\ \A i \in solid : n >= i
  <2> DEFINE S == solid \cup {0}
  <2>1. S \subseteq 0 .. Len(s) /\ S # {} BY <1>1
  <2> HIDE DEF S
  <2>2. Max(S) \in S /\ \A y \in S : Max(S) >= y BY <1>1, <2>1, Largest
  <2> QED BY <2>1, <2>2 DEF S
<1> HIDE DEF n
<1>3. /\ SubSeq(s, 1, n) \in Seq(A) /\ p \in Seq(A)
      /\ s = SubSeq(s, 1, n) \o p
      /\ Len(p) = Len(s) - n
      /\ \A i \in 1 .. Len(s) - n : p[i] = s[n + i]
  BY <1>2, CutInTwo
<1> HIDE DEF p
<1>4. ~HasTaggableContent(p)
  <2>1. ASSUME NEW i \in 1 .. Len(s) - n PROVE p[i] \notin WordSet
    <3>1. n + i \in 1 .. Len(s) /\ ~(n >= n + i) BY <1>1, <1>2
    <3>2. n + i \notin solid BY <1>2, <3>1
    <3>3. s[n + i] \in Blank BY <1>1, <3>1, <3>2 DEF Places
    <3> QED BY <1>3, <3>3, WordsApart
  <2>2. DOMAIN p = 1 .. Len(s) - n BY <1>3
  <2> QED BY <2>1, <2>2 DEF HasTaggableContent, Places, WordSet
<1>5. Thins(SubSeq(s, 1, n), SubSeq(s, 1, n) \o p)
  <2> DEFINE a == SubSeq(s, 1, n)
  <2>1. a \in Seq(A) /\ p \in Seq(A) BY <1>3
  <2> HIDE DEF a
  <2>2. Thins(a, a \o p) BY <1>4, <2>1, ThinsPrefix
  <2> QED BY <2>2 DEF a
<1>6. Thins(SubSeq(s, 1, n), s) BY <1>3, <1>5
<1> QED BY <1>3, <1>6 DEF RStrip, n

LEMMA StripIs ==
  ASSUME NEW A, NEW s \in Seq(A)
  PROVE  /\ Strip(s) \in Seq(A) /\ WordsOf(Strip(s)) = WordsOf(s)
         /\ Strip(s) = <<>> => ~HasTaggableContent(s)
<1> DEFINE solid == DOMAIN s \ Places(s, Blank)
<1>1. DOMAIN s = 1 .. Len(s) /\ Len(s) \in Nat OBVIOUS
<1>2. \A i \in 1 .. Len(s) : i \notin solid => s[i] \notin WordSet
  <2> TAKE i \in 1 .. Len(s)
  <2>1. i \notin solid => s[i] \in Blank BY <1>1 DEF Places
  <2> QED BY <2>1, WordsApart
<1>3. Strip(s) \in Seq(A) /\ WordsOf(Strip(s)) = WordsOf(s)
  <2>1. CASE solid = {}
    <3>1. Strip(s) = <<>> BY <2>1 DEF Strip
    <3>2. ~HasTaggableContent(s) BY <1>1, <1>2, <2>1 DEF HasTaggableContent, Places, WordSet
    <3>3. WordsOf(s) = <<>> BY <3>2, NoWords
    <3>4. WordsOf(<<>>) = <<>> BY AtEmpty DEF WordsOf
    <3>5. <<>> \in Seq(A) OBVIOUS
    <3> QED BY <3>1, <3>3, <3>4, <3>5, Zenon
  <2>2. CASE solid # {}
    <3> DEFINE lo == Min(solid)
               hi == Max(solid)
               t == SubSeq(s, 1, hi)
               c == SubSeq(s, hi + 1, Len(s))
               n == lo - 1
               a == SubSeq(t, 1, n)
               b == SubSeq(t, n + 1, Len(t))
    <3>1. solid \subseteq 0 .. Len(s) /\ solid \subseteq Nat /\ solid \subseteq 1 .. Len(s)
      BY <1>1
    <3>2. lo \in solid /\ hi \in solid /\ (\A y \in solid : lo <= y) /\ \A y \in solid : hi >= y
      <4> HIDE DEF solid
      <4>1. lo \in solid /\ \A y \in solid : lo <= y BY <2>2, <3>1, Smallest
      <4>2. hi \in solid /\ \A y \in solid : hi >= y BY <1>1, <2>2, <3>1, Largest
      <4> QED BY <4>1, <4>2
    <3>3. Strip(s) = SubSeq(s, lo, hi) BY <2>2 DEF Strip
    <3> HIDE DEF lo, hi
    <3>4. lo \in 1 .. Len(s) /\ hi \in 1 .. Len(s) /\ lo <= hi /\ hi \in 0 .. Len(s)
      BY <1>1, <3>1, <3>2
    <3>5. /\ t \in Seq(A) /\ c \in Seq(A) /\ s = t \o c /\ Len(c) = Len(s) - hi
          /\ \A i \in 1 .. Len(s) - hi : c[i] = s[hi + i]
      BY <3>4, CutInTwo
    <3>6. Len(t) = hi /\ \A i \in 1 .. hi : t[i] = s[i] BY <3>4, PrefixIs
    <3>7. SubSeq(s, lo, hi) = SubSeq(t, n + 1, Len(t))
      <4>1. n + 1 = lo BY <3>4
      <4>2. SubSeq(SubSeq(s, 1, hi), lo, hi) = SubSeq(s, lo, hi) BY <3>4
      <4> QED BY <3>6, <4>1, <4>2
    <3> HIDE DEF t, c, n
    <3>8. n \in 0 .. Len(t) BY <3>4, <3>6 DEF n
    <3>9. a \in Seq(A) /\ b \in Seq(A) /\ t = a \o b BY <3>5, <3>8, CutInTwo
    <3>10. Len(a) = n /\ \A i \in 1 .. n : a[i] = t[i] BY <3>5, <3>8, PrefixIs
    <3> HIDE DEF a, b
    <3>11. ~HasTaggableContent(c)
      <4>1. ASSUME NEW i \in 1 .. Len(s) - hi PROVE c[i] \notin WordSet
        <5>1. hi + i \in 1 .. Len(s) /\ ~(hi >= hi + i) BY <1>1, <3>4
        <5>2. hi + i \notin solid BY <3>2, <5>1
        <5> QED BY <1>2, <3>5, <5>1, <5>2
      <4>2. DOMAIN c = 1 .. Len(s) - hi BY <3>5
      <4> QED BY <4>1, <4>2 DEF HasTaggableContent, Places, WordSet
    <3>12. ~HasTaggableContent(a)
      <4>1. ASSUME NEW i \in 1 .. n PROVE a[i] \notin WordSet
        <5>1. i \in 1 .. hi /\ i \in 1 .. Len(s) /\ ~(lo <= i) BY <3>4 DEF n
        <5>2. i \notin solid BY <3>2, <5>1
        <5> QED BY <1>2, <3>6, <3>10, <5>1, <5>2
      <4>2. DOMAIN a = 1 .. n BY <3>9, <3>10
      <4> QED BY <4>1, <4>2 DEF HasTaggableContent, Places, WordSet
    <3>13. WordsOf(s) = WordsOf(t) \o WordsOf(c) BY <3>5, WordsConcat
    <3>14. WordsOf(t) = WordsOf(a) \o WordsOf(b) BY <3>9, WordsConcat
    <3>15. WordsOf(c) = <<>> BY <3>5, <3>11, NoWords
    <3>16. WordsOf(a) = <<>> BY <3>9, <3>12, NoWords
    <3>17. WordsOf(b) \in Seq(A) BY <3>9, WordsType
    <3>18. WordsOf(s) = WordsOf(b)
      <4> DEFINE w == WordsOf(b)
      <4>1. w \in Seq(A) BY <3>17
      <4> HIDE DEF w
      <4>2. <<>> \o w = w /\ w \o <<>> = w BY <4>1
      <4> QED BY <3>13, <3>14, <3>15, <3>16, <4>2 DEF w
    <3>19. Strip(s) = b BY <3>3, <3>7 DEF b
    <3> QED BY <3>9, <3>18, <3>19
  <2> QED BY <2>1, <2>2
<1>4. ASSUME Strip(s) = <<>> PROVE ~HasTaggableContent(s)
  <2>1. WordsOf(<<>>) = <<>> BY AtEmpty DEF WordsOf
  <2>2. WordsOf(s) = <<>> BY <1>3, <1>4, <2>1
  <2> QED BY <2>2, NoWords
<1> QED BY <1>3, <1>4

-----------------------------------------------------------------------------
(* The guards *)

\* Without dangling tags the words stay, and each tag has one behind it.
LEMMA DanglingIs ==
  ASSUME NEW A, NEW s \in Seq(A)
  PROVE  /\ StripDanglingTags(s) \in Seq(A)
         /\ WordsOf(StripDanglingTags(s)) = WordsOf(s)
         /\ Backed(StripDanglingTags(s))
<1> DEFINE kept == {i \in DOMAIN s : s[i] \in Tags => HasTaggableContent(SubSeq(s, i, Len(s)))}
           r == At(s, kept)
<1>1. DOMAIN s = 1 .. Len(s) OBVIOUS
<1>2. \A i \in 1 .. Len(s) : i \in kept <=> (s[i] \in Tags => \E m \in i .. Len(s) : s[m] \in WordSet)
  BY <1>1, HasBehind
<1>3. Places(s, WordSet) \subseteq kept
  <2>1. \A i \in 1 .. Len(s) : s[i] \in WordSet => s[i] \notin Tags BY WordsApart
  <2> QED BY <1>1, <1>2, <2>1 DEF Places
<1>4. StripDanglingTags(s) = IF kept = DOMAIN s THEN s ELSE RStrip(r) BY DEF StripDanglingTags
<1> HIDE DEF kept
<1>5. CASE kept = DOMAIN s
  <2>1. Backed(s) BY <1>1, <1>2, <1>5 DEF Backed
  <2> QED BY <1>4, <1>5, <2>1
<1>6. CASE kept # DOMAIN s
  <2>1. r \in Seq(A) /\ Thins(r, s) BY <1>3, AtThins
  <2>2. Backed(r)
    <3>1. PICK f : /\ Picks(f, r, s)
                   /\ \A k \in 1 .. Len(r) : f[k] \in kept
                   /\ \A m \in kept \cap (1 .. Len(s)) : \E k \in 1 .. Len(r) : f[k] = m
      BY AtIs
    <3> HIDE DEF r
    <3>2. \A k \in 1 .. Len(r) : f[k] \in 1 .. Len(s) /\ r[k] = s[f[k]] BY <3>1 DEF Picks
    <3>3. \A j, k \in 1 .. Len(r) : j < k => f[j] < f[k] BY <3>1 DEF Picks
    <3>4. ASSUME NEW j \in 1 .. Len(r), r[j] \in Tags
          PROVE \E m \in j .. Len(r) : r[m] \in WordSet
      <4>1. f[j] \in 1 .. Len(s) /\ s[f[j]] \in Tags /\ f[j] \in kept BY <3>1, <3>2, <3>4
      <4>2. PICK m \in f[j] .. Len(s) : s[m] \in WordSet BY <1>2, <4>1
      <4>3. m \in 1 .. Len(s) /\ f[j] <= m BY <4>1, <4>2
      <4>4. m \in kept BY <1>1, <1>3, <4>2, <4>3 DEF Places
      <4>5. PICK k \in 1 .. Len(r) : f[k] = m BY <3>1, <4>3, <4>4
      <4>6. j <= k
        <5> SUFFICES ASSUME k < j PROVE FALSE OBVIOUS
        <5>1. f[k] < f[j] BY <3>3
        <5> QED BY <4>1, <4>3, <4>5, <5>1
      <4>7. k \in j .. Len(r) /\ r[k] \in WordSet BY <3>2, <4>2, <4>5, <4>6
      <4> QED BY <4>7
    <3> QED BY <3>4 DEF Backed
  <2> HIDE DEF r
  <2>3. RStrip(r) \in Seq(A) /\ Thins(RStrip(r), r) BY <2>1, RStripIs
  <2>4. Backed(RStrip(r)) BY <2>1, <2>2, <2>3, ThinsKeeps
  <2>5. WordsOf(RStrip(r)) = WordsOf(s) BY <2>1, <2>3 DEF Thins
  <2> QED BY <1>4, <1>6, <2>3, <2>4, <2>5
<1> QED BY <1>5, <1>6

\* Tags are only removed or repaired, the repaired ones where they were.
LEMMA MalformedIs ==
  ASSUME NEW s \in Seq(Symbols)
  PROVE  /\ NormalizeMalformedTags(s) \in Seq(Symbols)
         /\ WordsOf(NormalizeMalformedTags(s)) = WordsOf(s)
         /\ Backed(s) => Backed(NormalizeMalformedTags(s))
         /\ WellFormed(NormalizeMalformedTags(s))
<1> DEFINE P == DOMAIN s \ Places(s, {"[ ]"})
           kept == At(s, P)
           r == [i \in DOMAIN kept |-> IF kept[i] \in DOMAIN Malformed THEN Malformed[kept[i]] ELSE kept[i]]
<1>1. Places(s, WordSet) \subseteq P
  <2>1. "[ ]" \notin WordSet BY WordsApart
  <2> QED BY <2>1 DEF Places
<1>2. kept \in Seq(Symbols) /\ Thins(kept, s) BY <1>1, AtThins
<1>3. \A k \in 1 .. Len(kept) : kept[k] # "[ ]"
  <2>1. PICK f : Picks(f, kept, s) /\ \A k \in 1 .. Len(kept) : f[k] \in P BY AtIs
  <2>2. \A i \in P : s[i] # "[ ]" BY DEF Places
  <2> HIDE DEF kept, P
  <2> QED BY <2>1, <2>2 DEF Picks
<1>4. NormalizeMalformedTags(s) = r BY DEF NormalizeMalformedTags
<1> HIDE DEF kept, P
<1>5. /\ DOMAIN kept = 1 .. Len(kept) /\ Len(kept) \in Nat
      /\ \A i \in 1 .. Len(kept) : kept[i] \in Symbols
  BY <1>2
<1>6. \A t \in DOMAIN Malformed : Malformed[t] \in {"[sad]", "[break]"} /\ t \in Tags
  BY DEF Malformed, Tags
<1>7. /\ {"[sad]", "[break]"} \subseteq Symbols /\ {"[sad]", "[break]"} \cap IllFormed = {}
      /\ {"[sad]", "[break]"} \subseteq Tags
  BY WordsApart DEF Symbols, Tags, Exempt, Breaks
<1>8. ASSUME NEW i \in 1 .. Len(kept)
      PROVE  /\ r[i] \in Symbols /\ r[i] \notin IllFormed
             /\ r[i] \in WordSet \/ kept[i] \in WordSet => r[i] = kept[i]
             /\ r[i] \in Tags => kept[i] \in Tags
  <2>1. r[i] = IF kept[i] \in DOMAIN Malformed THEN Malformed[kept[i]] ELSE kept[i] BY <1>5
  <2> HIDE DEF r
  <2>2. CASE kept[i] \in DOMAIN Malformed
    <3>1. r[i] \in {"[sad]", "[break]"} /\ kept[i] \in Tags BY <1>6, <2>1, <2>2
    <3>2. r[i] \in Tags /\ r[i] \in Symbols /\ r[i] \notin IllFormed BY <1>7, <3>1
    <3> QED BY <3>1, <3>2, WordsApart
  <2>3. CASE kept[i] \notin DOMAIN Malformed
    <3>1. r[i] = kept[i] BY <2>1, <2>3
    <3>2. kept[i] \notin IllFormed BY <1>3, <2>3 DEF IllFormed
    <3> QED BY <1>5, <3>1, <3>2
  <2> QED BY <2>2, <2>3
<1>9. r = [i \in 1 .. Len(kept) |-> r[i]] BY <1>5
<1> HIDE DEF r
<1>10. r \in Seq(Symbols) /\ Len(r) = Len(kept) BY <1>5, <1>8, <1>9
<1>11. WordsOf(r) = WordsOf(s)
  <2>1. WordsOf(r) = WordsOf(kept) BY <1>2, <1>8, <1>10, SameWords
  <2> QED BY <1>2, <2>1 DEF Thins
<1>12. ASSUME Backed(s) PROVE Backed(r)
  <2>1. Backed(kept) BY <1>2, <1>12, ThinsKeeps
  <2>2. ASSUME NEW j \in 1 .. Len(r), r[j] \in Tags PROVE \E m \in j .. Len(r) : r[m] \in WordSet
    <3>1. kept[j] \in Tags BY <1>8, <1>10, <2>2
    <3>2. PICK m \in j .. Len(kept) : kept[m] \in WordSet BY <1>10, <2>1, <3>1 DEF Backed
    <3>3. m \in 1 .. Len(kept) BY <3>2
    <3>4. r[m] \in WordSet BY <1>8, <3>2, <3>3
    <3> QED BY <1>10, <3>4
  <2> QED BY <2>2 DEF Backed
<1>13. WellFormed(r) BY <1>8, <1>10 DEF WellFormed
<1> QED BY <1>4, <1>10, <1>11, <1>12, <1>13

\* Of the breaks one is left at most, and nothing else goes.
LEMMA BreakIs ==
  ASSUME NEW A, NEW s \in Seq(A)
  PROVE  /\ NormalizeBreakTags(s) \in Seq(A)
         /\ Thins(NormalizeBreakTags(s), s)
         /\ OneBreak(NormalizeBreakTags(s))
<1> DEFINE breaks == Places(s, Breaks)
           useful == {i \in breaks : Glued(s, i) \cap Pauses = {}}
           kept   == IF useful = {} THEN {} ELSE {Min(useful)}
           P == (DOMAIN s \ breaks) \cup kept
           r == At(s, P)
<1>1. NormalizeBreakTags(s) = r BY DEF NormalizeBreakTags
<1>2. Places(s, WordSet) \subseteq P
  <2>1. WordSet \cap Breaks = {} BY WordsApart
  <2> QED BY <2>1 DEF Places
<1>3. \A i, j \in kept : i = j OBVIOUS
<1>4. \A i \in P : i \in DOMAIN s /\ s[i] \in Breaks => i \in kept BY DEF Places
<1> HIDE DEF kept, P
<1>5. r \in Seq(A) /\ Thins(r, s) BY <1>2, AtThins
<1>6. OneBreak(r)
  <2>1. PICK f : Picks(f, r, s) /\ \A k \in 1 .. Len(r) : f[k] \in P BY AtIs
  <2> HIDE DEF r
  <2>2. \A k \in 1 .. Len(r) : f[k] \in 1 .. Len(s) /\ r[k] = s[f[k]] BY <2>1 DEF Picks
  <2>3. \A j, k \in 1 .. Len(r) : j < k => f[j] < f[k] BY <2>1 DEF Picks
  <2>4. DOMAIN s = 1 .. Len(s) OBVIOUS
  <2>5. ASSUME NEW i \in 1 .. Len(r), NEW j \in 1 .. Len(r), r[i] \in Breaks, r[j] \in Breaks
        PROVE i = j
    <3>1. f[i] \in kept /\ f[j] \in kept BY <1>4, <2>1, <2>2, <2>4, <2>5
    <3>2. f[i] = f[j] /\ f[i] \in 1 .. Len(s) BY <1>3, <2>2, <3>1
    <3>3. ~(i < j) /\ ~(j < i) BY <2>3, <3>2
    <3> QED BY <3>3
  <2> QED BY <2>5 DEF OneBreak
<1> QED BY <1>1, <1>5, <1>6

-----------------------------------------------------------------------------
(* Texts put together *)

\* The recursion of Join, and what one more part adds.
JoinUnfolds(g, p, A) ==
  /\ g \in [0 .. Len(p) -> Seq(A)] /\ g[0] = <<>>
  /\ \A n \in 1 .. Len(p) : g[n] = g[n - 1] \o p[n]

LEMMA JoinSteps ==
  ASSUME NEW A, NEW p \in Seq(Seq(A))
  PROVE  \E g : JoinUnfolds(g, p, A) /\ Join(p) = g[Len(p)]
<1> DEFINE N == Len(p)
           B == Seq(A)
           step == [n \in 1 .. N |-> [a \in B |-> a \o p[n]]]
           Good(f) == f = [i \in 1 .. N |-> IF i = 1 THEN p[i] ELSE f[i - 1] \o p[i]]
           flat == CHOOSE f : Good(f)
<1>1. N \in Nat /\ <<>> \in B /\ \A n \in 1 .. N : p[n] \in B OBVIOUS
<1>2. step \in [1 .. N -> [B -> B]]
  <2>1. ASSUME NEW n \in 1 .. N, NEW a \in B PROVE a \o p[n] \in B
    <3>1. p[n] \in Seq(A) /\ a \in Seq(A) BY <1>1
    <3> DEFINE q == p[n]
    <3> HIDE DEF q
    <3>2. q \in Seq(A) BY <3>1 DEF q
    <3>3. a \o q \in Seq(A) BY <3>1, <3>2, ConcatIs
    <3> QED BY <3>3 DEF q
  <2> HIDE DEF B, N
  <2> QED BY <2>1
<1>3. PICK g : Unfolds(g, N, B, <<>>, step)
  <2> HIDE DEF step, N, B
  <2> QED BY <1>1, <1>2, Recursion
<1>4. g \in [0 .. N -> B] /\ g[0] = <<>> BY <1>3 DEF Unfolds
<1>5. ASSUME NEW n \in 1 .. N
      PROVE  n \in 0 .. N /\ n # 0 /\ n - 1 \in 0 .. N /\ g[n] = g[n - 1] \o p[n]
  <2>1. n \in 0 .. N /\ n # 0 /\ n - 1 \in 0 .. N BY <1>1
  <2>2. g[n - 1] \in B BY <1>4, <2>1
  <2>3. g[n] = step[n][g[n - 1]] BY <1>3 DEF Unfolds
  <2> HIDE DEF B, N
  <2> QED BY <2>1, <2>2, <2>3
<1>6. JoinUnfolds(g, p, A) BY <1>4, <1>5 DEF JoinUnfolds
<1>7. \E f : Good(f)
  <2> DEFINE h == [i \in 1 .. N |-> g[i]]
  <2>1. ASSUME NEW i \in 1 .. N
        PROVE  g[i] = IF i = 1 THEN p[i] ELSE h[i - 1] \o p[i]
    <3>1. CASE i = 1
      <4>1. g[i] = <<>> \o p[i]
        <5> HIDE DEF N, B, h
        <5>1. i - 1 = 0 BY <3>1
        <5>2. g[i - 1] = <<>> BY <1>4, <5>1
        <5>3. g[i] = g[i - 1] \o p[i] BY <1>5, Zenon
        <5> QED BY <5>2, <5>3, Zenon
      <4>2. p[i] \in Seq(A) BY <1>1
      <4> DEFINE q == p[i]
      <4>3. <<>> \o q = q
        <5>1. q \in Seq(A) BY <4>2
        <5> HIDE DEF q
        <5> QED BY <5>1
      <4> QED BY <3>1, <4>1, <4>3
    <3>2. CASE i # 1
      <4>1. i - 1 \in 1 .. N BY <1>1, <3>2
      <4>2. h[i - 1] = g[i - 1] BY <4>1
      <4> HIDE DEF h
      <4> QED BY <1>5, <3>2, <4>2
    <3> QED BY <3>1, <3>2
  <2>2. h = [i \in 1 .. N |-> IF i = 1 THEN p[i] ELSE h[i - 1] \o p[i]]
    <3>1. \A i \in 1 .. N : h[i] = IF i = 1 THEN p[i] ELSE h[i - 1] \o p[i]
      <4> TAKE i \in 1 .. N
      <4>1. h[i] = g[i] OBVIOUS
      <4> HIDE DEF h
      <4> QED BY <2>1, <4>1
    <3>2. h = [i \in 1 .. N |-> h[i]] OBVIOUS
    <3> HIDE DEF h
    <3> QED BY <3>1, <3>2
  <2> HIDE DEF h
  <2> QED BY <2>2
<1>8. Good(flat)
  <2> HIDE DEF Good
  <2> QED BY <1>7
<1> HIDE DEF flat
<1>9. \A n \in 1 .. N : flat[n] = g[n]
  <2> DEFINE h == [n \in 0 .. N |-> IF n = 0 THEN <<>> ELSE flat[n]]
  <2>1. h[0] = g[0] BY <1>1, <1>4
  <2>2. ASSUME NEW n \in 1 .. N, h[n - 1] = g[n - 1] PROVE h[n] = g[n]
    <3>0. flat[n] = IF n = 1 THEN p[n] ELSE flat[n - 1] \o p[n]
      <4> HIDE DEF N
      <4> QED BY <1>8
    <3>1. h[n] = flat[n] /\ h[n - 1] = IF n = 1 THEN <<>> ELSE flat[n - 1] BY <1>1
    <3>2. CASE n = 1
      <4>1. g[n] = <<>> \o p[n]
        <5> HIDE DEF N, B, h
        <5>1. n - 1 = 0 BY <3>2
        <5>2. g[n - 1] = <<>> BY <1>4, <5>1
        <5>3. g[n] = g[n - 1] \o p[n] BY <1>5, Zenon
        <5> QED BY <5>2, <5>3, Zenon
      <4>2. p[n] \in Seq(A) BY <1>1
      <4> DEFINE q == p[n]
      <4>3. <<>> \o q = q
        <5>1. q \in Seq(A) BY <4>2
        <5> HIDE DEF q
        <5> QED BY <5>1
      <4> HIDE DEF h
      <4> QED BY <3>0, <3>1, <3>2, <4>1, <4>3
    <3>3. CASE n # 1
      <4> HIDE DEF h
      <4> QED BY <1>5, <2>2, <3>0, <3>1, <3>3
    <3> QED BY <3>2, <3>3
  <2>3. \A n \in 1 .. N : n \in 0 .. N /\ h[n] = flat[n] BY <1>1
  <2> HIDE DEF h
  <2>4. N \in Nat /\ Alike(h, g, N) BY <1>1, <2>1, <2>2 DEF Alike
  <2> HIDE DEF N
  <2>5. \A n \in 0 .. N : h[n] = g[n] BY <2>4, SameSteps
  <2> QED BY <2>3, <2>5
<1>10. Join(p) = g[N]
  <2>1. Join(p) = IF N = 0 THEN p ELSE flat[N] BY DEF Join, FlattenSeq, flat
  <2>2. CASE N = 0
    <3>1. p = <<>> BY <2>2
    <3> QED BY <1>4, <2>1, <2>2, <3>1
  <2>3. CASE N # 0
    <3>1. N \in 1 .. N BY <1>1, <2>3
    <3> QED BY <1>9, <2>1, <2>3, <3>1
  <2> QED BY <2>2, <2>3
<1> QED BY <1>6, <1>10

LEMMA JoinAppend ==
  ASSUME NEW A, NEW p \in Seq(Seq(A)), NEW x \in Seq(A)
  PROVE  /\ Join(p) \in Seq(A)
         /\ Join(Append(p, x)) = Join(p) \o x
         /\ Join(<<>>) = <<>>
<1> DEFINE u == Append(p, x)
           N == Len(p)
           B == Seq(A)
<1>1. u \in Seq(B) /\ Len(u) = N + 1 /\ N \in Nat /\ (\A i \in 1 .. N : u[i] = p[i]) /\ u[N + 1] = x
  <2> HIDE DEF N, B
  <2>1. p \in Seq(B) /\ x \in B BY DEF B
  <2> QED BY <2>1, AppendIs DEF N
<1> HIDE DEF u
<1>2. PICK g : JoinUnfolds(g, p, A) /\ Join(p) = g[N] BY JoinSteps
<1>3. PICK f : JoinUnfolds(f, u, A) /\ Join(u) = f[Len(u)] BY <1>1, JoinSteps
<1>4. g \in [0 .. N -> Seq(A)] /\ g[0] = <<>> /\ \A n \in 1 .. N : g[n] = g[n - 1] \o p[n]
  BY <1>2 DEF JoinUnfolds
<1>5. f[0] = <<>> /\ \A n \in 1 .. N + 1 : f[n] = f[n - 1] \o u[n] BY <1>1, <1>3 DEF JoinUnfolds
<1>6. \A n \in 1 .. N : n \in 1 .. N + 1 /\ u[n] = p[n] BY <1>1
<1> HIDE DEF N
<1>7. Alike(f, g, N) BY <1>4, <1>5, <1>6 DEF Alike
<1>8. \A n \in 0 .. N : f[n] = g[n] BY <1>1, <1>7, SameSteps
<1>9. N \in 0 .. N /\ N + 1 \in 1 .. N + 1 /\ (N + 1) - 1 = N BY <1>1
<1>10. f[N + 1] = g[N] \o x BY <1>1, <1>5, <1>8, <1>9
<1>11. Join(<<>>) = <<>> BY DEF Join, FlattenSeq
<1> QED BY <1>1, <1>2, <1>3, <1>4, <1>9, <1>10, <1>11 DEF u

-----------------------------------------------------------------------------
(* Texts cut into sentences *)

\* A text cut so far, and cut with one more symbol, that ends a sentence or does not.
CutTexts(A) == [complete : Seq(Seq(A)), remainder : Seq(A)]
Shut(c, x)   == [complete |-> Append(c.complete, Append(c.remainder, x)), remainder |-> <<>>]
Longer(c, x) == [complete |-> c.complete, remainder |-> Append(c.remainder, x)]
Sliced(c, x, ends) == IF ends THEN Shut(c, x) ELSE Longer(c, x)

LEMMA SlicedIs ==
  ASSUME NEW A, NEW c \in CutTexts(A), NEW x \in A, NEW e
  PROVE  Sliced(c, x, e) \in CutTexts(A)
<1>1. c.complete \in Seq(Seq(A)) /\ c.remainder \in Seq(A) BY DEF CutTexts
<1> DEFINE s == Append(c.remainder, x)
<1>2. s \in Seq(A)
  <2> DEFINE r == c.remainder
  <2>1. r \in Seq(A) BY <1>1
  <2> HIDE DEF r
  <2>2. Append(r, x) \in Seq(A) BY <2>1, AppendIs
  <2> QED BY <2>2 DEF r
<1> HIDE DEF s
<1> DEFINE B == Seq(A)
<1>3. Append(c.complete, s) \in Seq(B)
  <2> DEFINE r == c.complete
  <2>1. r \in Seq(B) /\ s \in B BY <1>1, <1>2
  <2> HIDE DEF r, B
  <2>2. Append(r, s) \in Seq(B) BY <2>1, AppendIs
  <2> QED BY <2>2 DEF r
<1>4. <<>> \in Seq(A) OBVIOUS
<1> HIDE DEF B
<1>5. [complete |-> Append(c.complete, s), remainder |-> <<>>] \in CutTexts(A)
  BY <1>3, <1>4 DEF CutTexts, B
<1>6. [complete |-> c.complete, remainder |-> s] \in CutTexts(A) BY <1>1, <1>2 DEF CutTexts
<1> QED BY <1>5, <1>6 DEF Sliced, Shut, Longer, s

\* The recursion of CutAfter.
CutUnfolds(g, s, P, A) ==
  /\ g \in [0 .. Len(s) -> CutTexts(A)] /\ g[0] = [complete |-> <<>>, remainder |-> <<>>]
  /\ \A n \in 1 .. Len(s) : g[n] = Sliced(g[n - 1], s[n], n \in P)

LEMMA CutSteps ==
  ASSUME NEW A, NEW s \in Seq(A), NEW P
  PROVE  \E g : CutUnfolds(g, s, P, A) /\ CutAfter(s, P) = g[Len(s)]
<1> DEFINE N == Len(s)
           B == CutTexts(A)
           none == [complete |-> <<>>, remainder |-> <<>>]
           step == [n \in 1 .. N |-> [c \in B |-> Sliced(c, s[n], n \in P)]]
           Good(f) == f = [n \in 0 .. N |-> IF n = 0 THEN none ELSE Sliced(f[n - 1], s[n], n \in P)]
           cut == CHOOSE f : Good(f)
<1>1. N \in Nat /\ \A n \in 1 .. N : s[n] \in A OBVIOUS
<1>2. none \in B
  <2>1. <<>> \in Seq(A) /\ <<>> \in Seq(Seq(A)) OBVIOUS
  <2> QED BY <2>1 DEF CutTexts
<1> HIDE DEF none
<1>3. step \in [1 .. N -> [B -> B]]
  <2>1. ASSUME NEW n \in 1 .. N, NEW c \in B PROVE Sliced(c, s[n], n \in P) \in B
    <3>1. s[n] \in A BY <1>1
    <3> QED BY <3>1, SlicedIs
  <2> HIDE DEF B, N
  <2> QED BY <2>1
<1>4. PICK g : Unfolds(g, N, B, none, step)
  <2> HIDE DEF step, N, B
  <2> QED BY <1>1, <1>2, <1>3, Recursion
<1>5. g \in [0 .. N -> B] /\ g[0] = none BY <1>4 DEF Unfolds
<1>6. ASSUME NEW n \in 1 .. N
      PROVE  n \in 0 .. N /\ n # 0 /\ n - 1 \in 0 .. N /\ g[n] = Sliced(g[n - 1], s[n], n \in P)
  <2>1. n \in 0 .. N /\ n # 0 /\ n - 1 \in 0 .. N BY <1>1
  <2>2. g[n - 1] \in B BY <1>5, <2>1
  <2>3. g[n] = step[n][g[n - 1]] BY <1>4 DEF Unfolds
  <2> HIDE DEF B, N
  <2> QED BY <2>1, <2>2, <2>3
<1>7. CutUnfolds(g, s, P, A) BY <1>5, <1>6 DEF CutUnfolds, none
<1>8. Good(g)
  <2>1. ASSUME NEW n \in 0 .. N
        PROVE  g[n] = IF n = 0 THEN none ELSE Sliced(g[n - 1], s[n], n \in P)
    <3>1. CASE n = 0 BY <1>5, <3>1
    <3>2. CASE n # 0
      <4>1. n \in 1 .. N BY <1>1, <3>2
      <4>2. g[n] = Sliced(g[n - 1], s[n], n \in P) BY <1>6, <4>1
      <4> QED BY <3>2, <4>2
    <3> QED BY <3>1, <3>2
  <2>2. g = [n \in 0 .. N |-> g[n]] BY <1>5
  <2> HIDE DEF B, N
  <2> QED BY <2>1, <2>2
<1>9. Good(cut)
  <2> HIDE DEF Good
  <2> QED BY <1>8
<1>10. CutAfter(s, P) = cut[N] BY DEF CutAfter, Sliced, Shut, Longer, none
<1> HIDE DEF cut
<1>11. \A n \in 0 .. N : cut[n] = g[n]
  <2>1. cut[0] = g[0] BY <1>1, <1>5, <1>9
  <2>2. ASSUME NEW n \in 1 .. N, cut[n - 1] = g[n - 1] PROVE cut[n] = g[n]
    <3>0. n \in 0 .. N /\ n # 0 BY <1>6
    <3> HIDE DEF N, B
    <3>1. cut[n] = Sliced(cut[n - 1], s[n], n \in P) BY <1>9, <3>0, Zenon
    <3> QED BY <1>6, <2>2, <3>1
  <2> HIDE DEF Good
  <2>3. N \in Nat /\ Alike(cut, g, N) BY <1>1, <2>1, <2>2 DEF Alike
  <2> HIDE DEF N
  <2> QED BY <2>3, SameSteps
<1>12. N \in 0 .. N BY <1>1
<1> QED BY <1>7, <1>10, <1>11, <1>12

\* The same places up to n.
Agree(P, Q, n) == \A i \in 1 .. n : i \in P <=> i \in Q

\* With one more symbol, the last sentence ends there or becomes longer.
LEMMA CutAppend ==
  ASSUME NEW A, NEW s \in Seq(A), NEW x \in A, NEW P, NEW Q, Agree(P, Q, Len(s))
  PROVE  /\ CutAfter(s, Q) \in CutTexts(A)
         /\ CutAfter(Append(s, x), P) = IF Len(s) + 1 \in P THEN Shut(CutAfter(s, Q), x)
                                       ELSE Longer(CutAfter(s, Q), x)
         /\ CutAfter(<<>>, P) = [complete |-> <<>>, remainder |-> <<>>]
<1> DEFINE u == Append(s, x)
           N == Len(s)
<1>1. u \in Seq(A) /\ Len(u) = N + 1 /\ N \in Nat /\ (\A i \in 1 .. N : u[i] = s[i]) /\ u[N + 1] = x
  BY AppendIs
<1> HIDE DEF u
<1>2. PICK g : CutUnfolds(g, s, Q, A) /\ CutAfter(s, Q) = g[N] BY CutSteps
<1>3. PICK f : CutUnfolds(f, u, P, A) /\ CutAfter(u, P) = f[Len(u)] BY <1>1, CutSteps
<1>4. /\ g \in [0 .. N -> CutTexts(A)] /\ g[0] = [complete |-> <<>>, remainder |-> <<>>]
      /\ \A n \in 1 .. N : g[n] = Sliced(g[n - 1], s[n], n \in Q)
  BY <1>2 DEF CutUnfolds
<1>5. /\ f[0] = [complete |-> <<>>, remainder |-> <<>>]
      /\ \A n \in 1 .. N + 1 : f[n] = Sliced(f[n - 1], u[n], n \in P)
  BY <1>1, <1>3 DEF CutUnfolds
<1>6. \A n \in 1 .. N : n \in 1 .. N + 1 /\ u[n] = s[n] /\ (n \in P) = (n \in Q) BY <1>1 DEF Agree
<1> HIDE DEF N
<1>7. Alike(f, g, N)
  <2>1. f[0] = g[0] BY <1>4, <1>5
  <2>2. ASSUME NEW n \in 1 .. N, f[n - 1] = g[n - 1] PROVE f[n] = g[n]
    <3>1. f[n] = Sliced(f[n - 1], u[n], n \in P) BY <1>5, <1>6
    <3>2. g[n] = Sliced(g[n - 1], s[n], n \in Q) BY <1>4
    <3>3. u[n] = s[n] /\ (n \in P) = (n \in Q) BY <1>6
    <3>4. Sliced(f[n - 1], u[n], n \in P) = Sliced(g[n - 1], s[n], n \in Q)
      BY <2>2, <3>3 DEF Sliced
    <3> QED BY <3>1, <3>2, <3>4
  <2> QED BY <2>1, <2>2 DEF Alike
<1>8. \A n \in 0 .. N : f[n] = g[n] BY <1>1, <1>7, SameSteps
<1>9. N \in 0 .. N /\ N + 1 \in 1 .. N + 1 /\ (N + 1) - 1 = N BY <1>1
<1>10. f[N + 1] = Sliced(g[N], x, N + 1 \in P)
  <2>1. f[N + 1] = Sliced(f[(N + 1) - 1], u[N + 1], N + 1 \in P) BY <1>5, <1>9
  <2>2. f[(N + 1) - 1] = g[N] /\ u[N + 1] = x BY <1>1, <1>8, <1>9
  <2> QED BY <2>1, <2>2
<1>11. CutAfter(<<>>, P) = [complete |-> <<>>, remainder |-> <<>>]
  <2> DEFINE e == <<>>
  <2>1. e \in Seq(A) /\ Len(e) = 0 OBVIOUS
  <2> HIDE DEF e
  <2>2. PICK h : CutUnfolds(h, e, P, A) /\ CutAfter(e, P) = h[Len(e)] BY <2>1, CutSteps
  <2> QED BY <2>1, <2>2 DEF CutUnfolds, e
<1>12. f[N + 1] = IF N + 1 \in P THEN Shut(g[N], x) ELSE Longer(g[N], x)
  BY <1>10 DEF Sliced
<1>13. CutAfter(u, P) = IF N + 1 \in P THEN Shut(CutAfter(s, Q), x) ELSE Longer(CutAfter(s, Q), x)
  BY <1>1, <1>2, <1>3, <1>12, Zenon
<1>14. CutAfter(s, Q) \in CutTexts(A) BY <1>2, <1>4, <1>9
<1> QED BY <1>11, <1>13, <1>14 DEF u, N

\* A text is its sentences and what is left.
LEMMA CutWhole ==
  ASSUME NEW A, NEW s \in Seq(A), NEW P
  PROVE  /\ CutAfter(s, P) \in CutTexts(A)
         /\ CutAfter(s, P).complete \in Seq(Seq(A)) /\ CutAfter(s, P).remainder \in Seq(A)
         /\ Join(CutAfter(s, P).complete) \o CutAfter(s, P).remainder = s
<1> DEFINE T == {t \in Seq(A) : Join(CutAfter(t, P).complete) \o CutAfter(t, P).remainder = t}
<1>0. ASSUME NEW t \in Seq(A), NEW x \in A
      PROVE  /\ CutAfter(t, P) \in CutTexts(A)
             /\ CutAfter(t, P).complete \in Seq(Seq(A)) /\ CutAfter(t, P).remainder \in Seq(A)
             /\ CutAfter(Append(t, x), P) = IF Len(t) + 1 \in P THEN Shut(CutAfter(t, P), x)
                                            ELSE Longer(CutAfter(t, P), x)
             /\ CutAfter(<<>>, P) = [complete |-> <<>>, remainder |-> <<>>]
             /\ Append(t, x) \in Seq(A)
  <2>1. Agree(P, P, Len(t)) BY DEF Agree
  <2>2. /\ CutAfter(t, P) \in CutTexts(A)
        /\ CutAfter(Append(t, x), P) = IF Len(t) + 1 \in P THEN Shut(CutAfter(t, P), x)
                                       ELSE Longer(CutAfter(t, P), x)
        /\ CutAfter(<<>>, P) = [complete |-> <<>>, remainder |-> <<>>]
    BY <2>1, CutAppend
  <2>3. Append(t, x) \in Seq(A) BY AppendIs
  <2> QED BY <2>2, <2>3 DEF CutTexts
<1>1. <<>> \in T /\ CutAfter(<<>>, P) = [complete |-> <<>>, remainder |-> <<>>]
  <2>1. <<>> \in Seq(A) OBVIOUS
  <2>2. CutAfter(<<>>, P) = [complete |-> <<>>, remainder |-> <<>>]
    <3> DEFINE e == <<>>
    <3>1. e \in Seq({}) OBVIOUS
    <3> HIDE DEF e
    <3>2. PICK h : CutUnfolds(h, e, P, {}) /\ CutAfter(e, P) = h[Len(e)] BY <3>1, CutSteps
    <3> QED BY <3>1, <3>2 DEF CutUnfolds, e
  <2>3. Join(<<>>) = <<>> BY DEF Join, FlattenSeq
  <2>4. CutAfter(<<>>, P).complete = <<>> /\ CutAfter(<<>>, P).remainder = <<>> BY <2>2
  <2>5. <<>> \o <<>> = <<>> OBVIOUS
  <2> QED BY <2>1, <2>2, <2>3, <2>4, <2>5, Zenon
<1>2. ASSUME NEW t \in Seq(A), t \in T, NEW x \in A PROVE Append(t, x) \in T
  <2> DEFINE c == CutAfter(t, P)
             d == CutAfter(Append(t, x), P)
             p == c.complete
             r == c.remainder
             y == Append(r, x)
             j == Join(p)
  <2>1. /\ p \in Seq(Seq(A)) /\ r \in Seq(A) /\ Append(t, x) \in Seq(A)
        /\ d = IF Len(t) + 1 \in P THEN Shut(c, x) ELSE Longer(c, x)
    BY <1>0
  <2>2. j \o r = t BY <1>2
  <2> HIDE DEF c, d
  <2>3. y \in Seq(A) /\ j \in Seq(A)
    <3>1. r \in Seq(A) /\ p \in Seq(Seq(A)) BY <2>1
    <3> HIDE DEF r, p
    <3>2. Append(r, x) \in Seq(A) BY <3>1, AppendIs
    <3>3. Join(p) \in Seq(A) BY <3>1, <3>2, JoinAppend
    <3> QED BY <3>2, <3>3
  <2>4. j \o y = Append(t, x)
    <3>1. j \in Seq(A) /\ r \in Seq(A) BY <2>1, <2>3
    <3> HIDE DEF j, r
    <3>2. j \o Append(r, x) = Append(j \o r, x) BY <3>1, ConcatAppend
    <3> QED BY <2>2, <3>2
  <2>5. Join(Append(p, y)) = j \o y
    <3>1. p \in Seq(Seq(A)) /\ y \in Seq(A) BY <2>1, <2>3
    <3> HIDE DEF p, y
    <3> QED BY <3>1, JoinAppend
  <2>6. Join(Append(p, y)) \o <<>> = j \o y
    <3> DEFINE k == j \o y
    <3>1. k \in Seq(A)
      <4> HIDE DEF j, y
      <4> QED BY <2>3, ConcatIs
    <3> HIDE DEF k
    <3>2. k \o <<>> = k BY <3>1
    <3> QED BY <2>5, <3>2 DEF k
  <2>7. Join(d.complete) \o d.remainder = Append(t, x)
    <3>1. CASE Len(t) + 1 \in P
      <4>1. d = [complete |-> Append(p, y), remainder |-> <<>>] BY <2>1, <3>1 DEF Shut, Longer
      <4> HIDE DEF p, y, j
      <4> QED BY <2>4, <2>6, <4>1
    <3>2. CASE ~(Len(t) + 1 \in P)
      <4>1. d = [complete |-> p, remainder |-> y] BY <2>1, <3>2 DEF Shut, Longer
      <4> HIDE DEF p, y
      <4> QED BY <2>4, <4>1
    <3> QED BY <3>1, <3>2
  <2> QED BY <2>1, <2>7 DEF d
<1>3. s \in T
  <2> HIDE DEF T
  <2>1. Seq(A) \subseteq T BY <1>1, <1>2, SeqInduction
  <2> QED BY <2>1
<1>4. CutAfter(s, P) \in CutTexts(A)
  <2>1. PICK g : CutUnfolds(g, s, P, A) /\ CutAfter(s, P) = g[Len(s)] BY CutSteps
  <2>2. Len(s) \in 0 .. Len(s) OBVIOUS
  <2> QED BY <2>1, <2>2 DEF CutUnfolds
<1> QED BY <1>3, <1>4 DEF CutTexts

\* A reply loses nothing but white space when it is split.
LEMMA SentencesIs ==
  ASSUME NEW A, NEW s \in Seq(A)
  PROVE  /\ SplitCompleteSentences(s).complete \in Seq(Seq(A))
         /\ SplitCompleteSentences(s).remainder \in Seq(A)
         /\ SentencesOf(s) \in Seq(Seq(A)) /\ Thins(Join(SentencesOf(s)), s)
<1> DEFINE P == {i \in Places(s, Terminators) : i = Len(s) \/ s[i + 1] \notin Terminators}
           c == CutAfter(s, P)
           p == c.complete
           r == c.remainder
<1>1. SplitCompleteSentences(s) = c BY DEF SplitCompleteSentences
<1> HIDE DEF P
<1>2. p \in Seq(Seq(A)) /\ r \in Seq(A) /\ Join(p) \o r = s BY CutWhole
<1>3. SentencesOf(s) = IF Strip(r) = <<>> THEN p ELSE Append(p, r) BY <1>1 DEF SentencesOf
<1> HIDE DEF p, r
<1>4. Join(p) \in Seq(A) /\ Join(Append(p, r)) = Join(p) \o r /\ Append(p, r) \in Seq(Seq(A))
  <2> DEFINE B == Seq(A)
  <2>1. Join(p) \in Seq(A) /\ Join(Append(p, r)) = Join(p) \o r BY <1>2, JoinAppend
  <2>2. p \in Seq(B) /\ r \in B BY <1>2
  <2> HIDE DEF B
  <2>3. Append(p, r) \in Seq(B) BY <2>2, AppendIs
  <2> QED BY <2>1, <2>3 DEF B
<1>5. CASE Strip(r) = <<>>
  <2>1. ~HasTaggableContent(r) BY <1>2, <1>5, StripIs
  <2> DEFINE j == Join(p)
  <2>2. j \in Seq(A) BY <1>4
  <2> HIDE DEF j
  <2>3. Thins(j, j \o r) BY <1>2, <2>1, <2>2, ThinsPrefix
  <2> QED BY <1>1, <1>2, <1>3, <1>5, <2>3 DEF j, p, r
<1>6. CASE Strip(r) # <<>>
  <2>1. Thins(s, s) BY ThinsSelf
  <2> QED BY <1>1, <1>2, <1>3, <1>4, <1>6, <2>1 DEF p, r
<1> QED BY <1>5, <1>6

\* Thin each part and the whole is thinned.
LEMMA JoinThins ==
  ASSUME NEW A, NEW p \in Seq(Seq(A)), NEW q \in Seq(Seq(A)), Len(p) = Len(q),
         \A i \in 1 .. Len(p) : Thins(p[i], q[i])
  PROVE  Thins(Join(p), Join(q)) /\ Join(p) \in Seq(A)
<1> DEFINE N == Len(p)
<1>1. PICK g : JoinUnfolds(g, p, A) /\ Join(p) = g[N] BY JoinSteps
<1>2. PICK f : JoinUnfolds(f, q, A) /\ Join(q) = f[Len(q)] BY JoinSteps
<1>3. /\ N \in Nat /\ N = Len(q)
      /\ \A i \in 1 .. N : Thins(p[i], q[i]) /\ p[i] \in Seq(A) /\ q[i] \in Seq(A) OBVIOUS
<1>4. g \in [0 .. N -> Seq(A)] /\ g[0] = <<>> /\ \A n \in 1 .. N : g[n] = g[n - 1] \o p[n]
  BY <1>1 DEF JoinUnfolds
<1>5. f \in [0 .. N -> Seq(A)] /\ f[0] = <<>> /\ \A n \in 1 .. N : f[n] = f[n - 1] \o q[n]
  BY <1>2, <1>3 DEF JoinUnfolds
<1> DEFINE T == {n \in 0 .. N : Thins(g[n], f[n])}
<1>6. 0 \in T
  <2>1. Thins(<<>>, <<>>)
    <3>1. <<>> \in Seq(A) OBVIOUS
    <3> DEFINE e == <<>>
    <3>2. e \in Seq(A) BY <3>1
    <3> HIDE DEF e
    <3>3. Thins(e, e) BY <3>2, ThinsSelf
    <3> QED BY <3>3 DEF e
  <2>2. 0 \in 0 .. N BY <1>3
  <2>3. g[0] = <<>> /\ f[0] = <<>> BY <1>4, <1>5
  <2> HIDE DEF N
  <2> QED BY <2>1, <2>2, <2>3, Zenon
<1>7. ASSUME NEW n \in 0 .. N - 1, n \in T PROVE n + 1 \in T
  <2>1. n + 1 \in 1 .. N /\ (n + 1) - 1 = n /\ n \in 0 .. N /\ n + 1 \in 0 .. N BY <1>3
  <2> HIDE DEF N
  <2>2. Thins(g[n], f[n]) BY <1>7
  <2> DEFINE a == g[n]
             b == f[n]
             x == p[n + 1]
             y == q[n + 1]
  <2>3. a \in Seq(A) /\ b \in Seq(A) BY <1>4, <1>5, <2>1
  <2>4. x \in Seq(A) /\ y \in Seq(A) /\ Thins(x, y) BY <1>3, <2>1
  <2>5. g[n + 1] = g[(n + 1) - 1] \o x BY <1>4, <2>1
  <2>6. f[n + 1] = f[(n + 1) - 1] \o y BY <1>5, <2>1
  <2>7. g[(n + 1) - 1] = a /\ f[(n + 1) - 1] = b BY <2>1
  <2>8. Thins(a, b) BY <2>2
  <2> HIDE DEF a, b, x, y
  <2>9. Thins(a \o x, b \o y) BY <2>3, <2>4, <2>8, ThinsConcat
  <2>10. g[n + 1] = a \o x /\ f[n + 1] = b \o y BY <2>5, <2>6, <2>7, Zenon
  <2>11. Thins(g[n + 1], f[n + 1]) BY <2>9, <2>10, Zenon
  <2> QED BY <2>1, <2>11
<1>8. N \in T
  <2> HIDE DEF T, N
  <2>1. N \in Nat BY <1>3
  <2>2. 0 .. N \subseteq T BY <1>6, <1>7, <2>1, InductionTo
  <2> QED BY <2>1, <2>2
<1>9. N \in 0 .. N BY <1>3
<1> QED BY <1>1, <1>2, <1>3, <1>4, <1>8, <1>9

\* Removing repeated moods only takes tags away.
LEMMA SuppressIs ==
  ASSUME NEW A, NEW s \in Seq(A)
  PROVE  SuppressRepeatedLeadingTags(s) \in Seq(A) /\ Thins(SuppressRepeatedLeadingTags(s), s)
<1> DEFINE q == SentencesOf(s)
           moods(k) == Places(q[k], Tags \ Exempt)
           lead(k)  == IF k = 0 THEN "none"
                       ELSE IF moods(k) = {} THEN "none" ELSE q[k][Min(moods(k))]
           part(k) == IF lead(k) # "none" /\ lead(k) = lead(k - 1)
                      THEN At(q[k], DOMAIN q[k] \ {Min(moods(k))})
                      ELSE q[k]
           p == [k \in DOMAIN q |-> part(k)]
<1>1. SuppressRepeatedLeadingTags(s) = IF Len(q) <= 1 THEN s ELSE Join(p)
  BY DEF SuppressRepeatedLeadingTags
<1>2. q \in Seq(Seq(A)) /\ Thins(Join(q), s) BY SentencesIs
<1> HIDE DEF q
<1>3. ASSUME NEW k \in 1 .. Len(q) PROVE part(k) \in Seq(A) /\ Thins(part(k), q[k])
  <2> DEFINE x == q[k]
             M == moods(k)
  <2>1. x \in Seq(A) BY <1>2
  <2>2. k # 0 BY <1>2
  <2>3. CASE lead(k) # "none" /\ lead(k) = lead(k - 1)
    <3>1. M # {} BY <2>2, <2>3
    <3>2. M \subseteq Nat /\ M = Places(x, Tags \ Exempt) /\ part(k) = At(x, DOMAIN x \ {Min(M)})
      <4>1. DOMAIN x = 1 .. Len(x)
        <5> HIDE DEF x
        <5> QED BY <2>1
      <4>2. part(k) = At(x, DOMAIN x \ {Min(M)}) BY <2>3
      <4> QED BY <4>1, <4>2 DEF Places
    <3> HIDE DEF x, M
    <3>3. Min(M) \in M BY <3>1, <3>2, Smallest
    <3>4. x[Min(M)] \in Tags BY <3>2, <3>3 DEF Places
    <3>5. x[Min(M)] \notin WordSet BY <3>4, WordsApart
    <3>6. Places(x, WordSet) \subseteq DOMAIN x \ {Min(M)} BY <3>5 DEF Places
    <3> DEFINE P == DOMAIN x \ {Min(M)}
    <3>7. Places(x, WordSet) \subseteq P BY <3>6
    <3> HIDE DEF P
    <3>8. At(x, P) \in Seq(A) /\ Thins(At(x, P), x) BY <2>1, <3>7, AtThins
    <3> QED BY <3>2, <3>8 DEF x, P
  <2>4. CASE ~(lead(k) # "none" /\ lead(k) = lead(k - 1))
    <3>1. part(k) = x BY <2>4
    <3> HIDE DEF part, x
    <3>2. Thins(x, x) BY <2>1, ThinsSelf
    <3> QED BY <2>1, <3>1, <3>2 DEF x
  <2> QED BY <2>3, <2>4
<1> HIDE DEF part
<1>4. CASE Len(q) <= 1
  <2>1. Thins(s, s) BY ThinsSelf
  <2> QED BY <1>1, <1>4, <2>1
<1>5. CASE ~(Len(q) <= 1)
  <2>1. DOMAIN q = 1 .. Len(q) /\ Len(q) \in Nat BY <1>2
  <2>2. \A k \in 1 .. Len(q) : p[k] = part(k) BY <2>1
  <2>3. p \in Seq(Seq(A)) /\ Len(p) = Len(q)
    <3> DEFINE B == Seq(A)
    <3>1. \A k \in 1 .. Len(q) : part(k) \in B BY <1>3
    <3> HIDE DEF B
    <3>2. p \in Seq(B) /\ Len(p) = Len(q) BY <2>1, <3>1
    <3> QED BY <3>2 DEF B
  <2> HIDE DEF p
  <2>4. \A k \in 1 .. Len(p) : Thins(p[k], q[k]) BY <1>3, <2>2, <2>3
  <2>5. Thins(Join(p), Join(q)) /\ Join(p) \in Seq(A) BY <1>2, <2>3, <2>4, JoinThins
  <2>6. Join(q) \in Seq(A)
    <3>1. <<>> \in Seq(A) OBVIOUS
    <3> DEFINE e == <<>>
    <3>2. e \in Seq(A) BY <3>1
    <3> HIDE DEF e
    <3> QED BY <1>2, <3>2, JoinAppend
  <2> DEFINE a == Join(p)
             b == Join(q)
  <2>7. a \in Seq(A) /\ b \in Seq(A) /\ Thins(a, b) /\ Thins(b, s) BY <1>2, <2>5, <2>6
  <2> HIDE DEF a, b
  <2>8. Thins(a, s) BY <2>7, ThinsTwice
  <2> QED BY <1>1, <1>5, <2>7, <2>8 DEF a
<1> QED BY <1>4, <1>5

\* What is legal to speak, with the words of the sentence.
Legal(r, s) == WordsOf(r) = WordsOf(s) /\ Backed(r) /\ OneBreak(r) /\ WellFormed(r)

\* A sentence of the reply has no tags.
LEMMA PlainIs ==
  ASSUME NEW s \in Seq(Plain)
  PROVE  s \in Seq(Symbols) /\ Legal(s, s)
<1>1. Plain \cap Tags = {} BY WordsApart DEF Plain
<1>2. \A i \in 1 .. Len(s) : s[i] \in Plain OBVIOUS
<1>3. \A i \in 1 .. Len(s) : s[i] \notin Tags /\ s[i] \notin Breaks /\ s[i] \notin IllFormed
  BY <1>1, <1>2, WordsApart
<1>4. Plain \subseteq Symbols BY DEF Symbols
<1>5. s \in Seq(Symbols)
  <2> HIDE DEF Plain, Symbols
  <2> QED BY <1>2, <1>4
<1> QED BY <1>3, <1>5 DEF Legal, Backed, OneBreak, WellFormed

\* What a text keeps when tags and white space are left out are its words, among others.
LEMMA WordingIs ==
  ASSUME NEW A, NEW s \in Seq(A)
  PROVE  WordsOf(Wording(s)) = WordsOf(s)
<1> DEFINE P == DOMAIN s \ Places(s, Tags \cup Blank)
<1>1. Places(s, WordSet) \subseteq P BY WordsApart DEF Places
<1> HIDE DEF P
<1>2. WordsOf(At(s, P)) = WordsOf(s) BY <1>1, WordsAt
<1> QED BY <1>2 DEF Wording, P

\* Thinned or not, what is legal stays so.
LEMMA ThinsLegal ==
  ASSUME NEW A, NEW r \in Seq(A), NEW s \in Seq(A), NEW t, Thins(r, s), Legal(s, t)
  PROVE  Legal(r, t)
<1>1. /\ Backed(s) => Backed(r)
      /\ OneBreak(s) => OneBreak(r)
      /\ WellFormed(s) => WellFormed(r)
  BY ThinsKeeps
<1> QED BY <1>1 DEF Legal, Thins

\* Whatever the model answers, the guards leave the words of the sentence.
LEMMA ApplyIs ==
  ASSUME NEW c, c.sentence \in Seq(Plain), c.answer \in Seq(Symbols)
  PROVE  ApplyExpressionTags(c) \in Seq(Symbols) /\ Legal(ApplyExpressionTags(c), c.sentence)
<1> DEFINE s == c.sentence
           a == c.answer
           d == StripDanglingTags(a)
           m == NormalizeMalformedTags(d)
           g == NormalizeBreakTags(m)
           w == SuppressRepeatedLeadingTags(g)
<1>1. ApplyExpressionTags(c) = IF a = <<>> \/ ~PreservesWording(Strip(s), a) THEN s
                               ELSE IF path = "whole" THEN w ELSE g
  BY DEF ApplyExpressionTags, NormalizeTagPlacement
<1>2. s \in Seq(Plain) /\ a \in Seq(Symbols) OBVIOUS
<1> HIDE DEF s, a
<1>3. s \in Seq(Symbols) /\ Legal(s, s) BY <1>2, PlainIs
<1>4. CASE PreservesWording(Strip(s), a)
  <2>1. WordsOf(a) = WordsOf(s)
    <3> DEFINE t == Strip(s)
    <3>1. t \in Seq(Plain) /\ WordsOf(t) = WordsOf(s) BY <1>2, StripIs
    <3>2. Wording(t) = Wording(a) BY <1>4 DEF PreservesWording
    <3> HIDE DEF t
    <3>3. WordsOf(Wording(t)) = WordsOf(t) BY <3>1, WordingIs
    <3>4. WordsOf(Wording(a)) = WordsOf(a) BY <1>2, WordingIs
    <3> QED BY <3>1, <3>2, <3>3, <3>4
  <2>2. d \in Seq(Symbols) /\ WordsOf(d) = WordsOf(a) /\ Backed(d) BY <1>2, DanglingIs
  <2> HIDE DEF d
  <2>3. /\ m \in Seq(Symbols) /\ WordsOf(m) = WordsOf(d)
        /\ Backed(d) => Backed(m)
        /\ WellFormed(m)
    BY <2>2, MalformedIs
  <2> HIDE DEF m
  <2>4. g \in Seq(Symbols) /\ Thins(g, m) /\ OneBreak(g) BY <2>3, BreakIs
  <2> HIDE DEF g
  <2>5. (Backed(m) => Backed(g)) /\ (WellFormed(m) => WellFormed(g)) BY <2>3, <2>4, ThinsKeeps
  <2>6. Legal(g, s) BY <2>1, <2>2, <2>3, <2>4, <2>5 DEF Legal, Thins
  <2>7. w \in Seq(Symbols) /\ Thins(w, g) BY <2>4, SuppressIs
  <2> HIDE DEF w
  <2>8. Legal(w, s) BY <2>4, <2>6, <2>7, ThinsLegal
  <2> QED BY <1>1, <1>3, <2>4, <2>6, <2>7, <2>8 DEF s, w, g, m, d
<1>5. CASE ~PreservesWording(Strip(s), a)
  <2>1. ApplyExpressionTags(c) = s BY <1>1, <1>5
  <2> QED BY <1>3, <2>1 DEF s
<1> QED BY <1>4, <1>5

\* The context a call is given is part of what was said.
LEMMA PriorIs ==
  ASSUME NEW A, NEW p \in Seq(Seq(A))
  PROVE  BuildPriorContext(p) \in Seq(A)
<1> DEFINE n == Len(p)
           tail(k) == Join(SubSeq(p, k, n))
           long == {k \in 1 .. n : Len(tail(k)) >= CharCap}
           from == IF long = {} THEN 1 ELSE Max(long)
<1>1. BuildPriorContext(p) = IF Len(Join(p)) <= CharCap THEN Join(p) ELSE tail(from)
  BY DEF BuildPriorContext
<1>2. n \in Nat OBVIOUS
<1>3. from \in 1 .. n + 1
  <2>1. CASE long = {} BY <1>2, <2>1
  <2>2. CASE long # {}
    <3>1. long \subseteq 0 .. n BY <1>2
    <3>2. long \subseteq 1 .. n OBVIOUS
    <3> HIDE DEF long, n
    <3>3. Max(long) \in long BY <1>2, <2>2, <3>1, Largest
    <3>4. from = Max(long) /\ Max(long) \in 1 .. n BY <2>2, <3>2, <3>3
    <3> HIDE DEF from
    <3> QED BY <1>2, <3>4
  <2> QED BY <2>1, <2>2
<1> HIDE DEF from
<1>4. ASSUME NEW t \in Seq(Seq(A)) PROVE Join(t) \in Seq(A)
  <2> DEFINE e == <<>>
  <2>1. e \in Seq(A) OBVIOUS
  <2> HIDE DEF e
  <2> QED BY <2>1, JoinAppend
<1>5. SubSeq(p, from, n) \in Seq(Seq(A))
  <2> DEFINE B == Seq(A)
             m == from - 1
  <2>1. m \in 0 .. Len(p) /\ m + 1 = from BY <1>2, <1>3
  <2>2. p \in Seq(B) OBVIOUS
  <2> HIDE DEF B, m
  <2>3. SubSeq(p, m + 1, Len(p)) \in Seq(B) BY <2>1, <2>2, CutInTwo
  <2> QED BY <2>1, <2>3 DEF B
<1> QED BY <1>1, <1>4, <1>5

-----------------------------------------------------------------------------
(* The words of the sentences, one by one *)

\* Sentence by sentence, and only of those that say something.
WordsOfEach(p) == [i \in DOMAIN p |-> WordsOf(p[i])]
Said(p) == WordsOfEach(Taggable(p))

\* One more sentence.
LEMMA EachAppend ==
  ASSUME NEW A, NEW p \in Seq(Seq(A)), NEW x \in Seq(A)
  PROVE  /\ WordsOfEach(p) \in Seq(Seq(A)) /\ Len(WordsOfEach(p)) = Len(p)
         /\ WordsOfEach(Append(p, x)) = Append(WordsOfEach(p), WordsOf(x))
         /\ WordsOfEach(<<>>) = <<>>
<1> DEFINE B == Seq(A)
           N == Len(p)
           u == Append(p, x)
           w == WordsOfEach(p)
           a == WordsOfEach(u)
           b == Append(w, WordsOf(x))
<1>1. ASSUME NEW q \in Seq(B)
      PROVE  WordsOfEach(q) \in Seq(B) /\ Len(WordsOfEach(q)) = Len(q)
             /\ \A i \in 1 .. Len(q) : WordsOfEach(q)[i] = WordsOf(q[i])
  <2>1. DOMAIN q = 1 .. Len(q) /\ Len(q) \in Nat /\ \A i \in 1 .. Len(q) : q[i] \in B OBVIOUS
  <2>2. ASSUME NEW i \in 1 .. Len(q) PROVE WordsOf(q[i]) \in B
    <3> DEFINE y == q[i]
    <3>1. y \in Seq(A) BY <2>1
    <3> HIDE DEF y
    <3>2. WordsOf(y) \in Seq(A) BY <3>1, WordsType
    <3> QED BY <3>2 DEF y
  <2> HIDE DEF B
  <2> QED BY <2>1, <2>2 DEF WordsOfEach
<1>2. p \in Seq(B) /\ x \in B OBVIOUS
<1>3. WordsOf(x) \in B BY WordsType
<1> HIDE DEF B
<1>4. /\ u \in Seq(B) /\ Len(u) = N + 1 /\ N \in Nat
      /\ (\A i \in 1 .. N : u[i] = p[i]) /\ u[N + 1] = x
  BY <1>2, AppendIs
<1>5. w \in Seq(B) /\ Len(w) = N /\ \A i \in 1 .. N : w[i] = WordsOf(p[i]) BY <1>1, <1>2
<1> HIDE DEF u
<1>6. a \in Seq(B) /\ Len(a) = Len(u) /\ \A i \in 1 .. Len(u) : a[i] = WordsOf(u[i]) BY <1>1, <1>4
<1> HIDE DEF w, a, N
<1>7. /\ b \in Seq(B) /\ Len(b) = Len(w) + 1
      /\ (\A i \in 1 .. Len(w) : b[i] = w[i]) /\ b[Len(w) + 1] = WordsOf(x)
  BY <1>3, <1>5, AppendIs
<1> HIDE DEF b
<1>8. ASSUME NEW i \in 1 .. Len(a) PROVE a[i] = b[i]
  <2>1. i \in 1 .. N \/ i = N + 1 BY <1>4, <1>6
  <2>2. i \in 1 .. Len(u) BY <1>6
  <2>3. CASE i \in 1 .. N BY <1>4, <1>5, <1>6, <1>7, <2>2, <2>3
  <2>4. CASE i = N + 1 BY <1>4, <1>5, <1>6, <1>7, <2>2, <2>4
  <2> QED BY <2>1, <2>3, <2>4
<1>9. a = b
  <2>1. Len(a) = Len(b) BY <1>4, <1>5, <1>6, <1>7
  <2> QED BY <1>6, <1>7, <1>8, <2>1, SameSeq
<1>10. WordsOfEach(<<>>) = <<>> BY DEF WordsOfEach
<1> QED BY <1>5, <1>9, <1>10 DEF a, b, w, u, N, B

LEMMA TaggableAppend ==
  ASSUME NEW A, NEW p \in Seq(Seq(A)), NEW x \in Seq(A)
  PROVE  /\ Taggable(p) \in Seq(Seq(A))
         /\ Taggable(Append(p, x)) = IF HasTaggableContent(x) THEN Append(Taggable(p), x) ELSE Taggable(p)
         /\ Taggable(<<>>) = <<>>
<1> DEFINE B == Seq(A)
           N == Len(p)
           u == Append(p, x)
           P == {k \in DOMAIN u : HasTaggableContent(u[k])}
           Q == {k \in DOMAIN p : HasTaggableContent(p[k])}
<1>1. p \in Seq(B) /\ x \in B OBVIOUS
<1> HIDE DEF B
<1>2. /\ u \in Seq(B) /\ Len(u) = N + 1 /\ N \in Nat
      /\ (\A i \in 1 .. N : u[i] = p[i]) /\ u[N + 1] = x
  BY <1>1, AppendIs
<1>3. DOMAIN p = 1 .. N /\ DOMAIN u = 1 .. N + 1
  <2>1. DOMAIN p = 1 .. N OBVIOUS
  <2> HIDE DEF u
  <2>2. DOMAIN u = 1 .. Len(u) BY <1>2
  <2> QED BY <1>2, <2>1, <2>2
<1>4. Taggable(u) = At(u, P) /\ Taggable(p) = At(p, Q) BY DEF Taggable
<1>5. \A i \in 1 .. N : i \in P <=> i \in Q
  <2> HIDE DEF u
  <2> QED BY <1>2, <1>3
<1>6. N + 1 \in P <=> HasTaggableContent(x)
  <2> HIDE DEF u
  <2> QED BY <1>2, <1>3
<1> HIDE DEF P, Q, N
<1>7. \A i \in 1 .. Len(p) : i \in P <=> i \in Q BY <1>5 DEF N
<1>8. /\ At(p, Q) \in Seq(B)
      /\ At(Append(p, x), P) = IF Len(p) + 1 \in P THEN Append(At(p, Q), x) ELSE At(p, Q)
  BY <1>1, <1>7, AtAppend
<1>9. Taggable(<<>>) = <<>> BY AtEmpty DEF Taggable
<1> QED BY <1>4, <1>6, <1>8, <1>9 DEF N, B

LEMMA SaidAppend ==
  ASSUME NEW A, NEW p \in Seq(Seq(A)), NEW x \in Seq(A)
  PROVE  /\ Said(p) \in Seq(Seq(A))
         /\ Said(Append(p, x)) = IF HasTaggableContent(x) THEN Append(Said(p), WordsOf(x)) ELSE Said(p)
         /\ Said(<<>>) = <<>>
<1> DEFINE t == Taggable(p)
<1>1. /\ t \in Seq(Seq(A)) /\ Taggable(<<>>) = <<>>
      /\ Taggable(Append(p, x)) = IF HasTaggableContent(x) THEN Append(t, x) ELSE t
  BY TaggableAppend
<1> HIDE DEF t
<1>2. /\ WordsOfEach(t) \in Seq(Seq(A)) /\ WordsOfEach(<<>>) = <<>>
      /\ WordsOfEach(Append(t, x)) = Append(WordsOfEach(t), WordsOf(x))
  BY <1>1, EachAppend
<1> QED BY <1>1, <1>2 DEF Said, t

LEMMA SaidConcat ==
  ASSUME NEW A, NEW p \in Seq(Seq(A)), NEW q \in Seq(Seq(A))
  PROVE  Said(p \o q) = Said(p) \o Said(q)
<1> DEFINE B == Seq(A)
           T == {v \in Seq(B) : Said(p \o v) = Said(p) \o Said(v)}
<1>0. /\ Said(p) \in Seq(B) /\ p \in Seq(B) /\ q \in Seq(B) /\ Said(<<>>) = <<>>
  <2> DEFINE e == <<>>
  <2>1. e \in Seq(A) OBVIOUS
  <2> HIDE DEF e
  <2> QED BY <2>1, SaidAppend
<1> HIDE DEF B
<1>1. <<>> \in T
  <2>1. p \o <<>> = p BY <1>0
  <2> DEFINE a == Said(p)
  <2>2. a \in Seq(B) BY <1>0
  <2> HIDE DEF a
  <2>3. a \o <<>> = a BY <2>2
  <2>4. <<>> \in Seq(B) OBVIOUS
  <2> QED BY <1>0, <2>1, <2>3, <2>4, Zenon DEF a
<1>2. ASSUME NEW v \in Seq(B), v \in T, NEW x \in B PROVE Append(v, x) \in T
  <2>1. p \o Append(v, x) = Append(p \o v, x) BY <1>0, ConcatAppend
  <2>2. p \o v \in Seq(B) /\ Append(v, x) \in Seq(B) BY <1>0, ConcatIs, AppendIs
  <2> DEFINE u == p \o v
             a == Said(p)
             b == Said(v)
             y == WordsOf(x)
  <2>3. u \in Seq(B) /\ Said(u) = a \o b BY <1>2, <2>2
  <2> HIDE DEF u
  <2>4. Said(Append(u, x)) = IF HasTaggableContent(x) THEN Append(Said(u), y) ELSE Said(u)
    BY <2>3, SaidAppend DEF B
  <2>a. b \in Seq(B) BY SaidAppend DEF B
  <2>5. Said(Append(v, x)) = IF HasTaggableContent(x) THEN Append(b, y) ELSE b
    BY SaidAppend DEF B
  <2>6. y \in B BY WordsType DEF B
  <2>7. a \in Seq(B) BY <1>0
  <2> HIDE DEF a, b, y
  <2>8. a \o Append(b, y) = Append(a \o b, y) BY <2>a, <2>6, <2>7, ConcatAppend
  <2>9. Said(Append(u, x)) = a \o Said(Append(v, x)) BY <2>3, <2>4, <2>5, <2>8
  <2> QED BY <2>1, <2>2, <2>9 DEF u, a
<1> HIDE DEF T
<1>3. Seq(B) \subseteq T BY <1>1, <1>2, SeqInduction
<1> QED BY <1>0, <1>3 DEF T

\* The words of a whole are those of its parts, in order.
LEMMA JoinWords ==
  ASSUME NEW A, NEW p \in Seq(Seq(A))
  PROVE  WordsOf(Join(p)) = Join(WordsOfEach(p)) /\ WordsOf(Join(p)) = Join(Said(p))
<1> DEFINE B == Seq(A)
           T == {v \in Seq(B) : WordsOf(Join(v)) = Join(WordsOfEach(v)) /\ WordsOf(Join(v)) = Join(Said(v))}
<1>1. <<>> \in T
  <2>1. WordsOf(<<>>) = <<>> BY AtEmpty DEF WordsOf
  <2>2. Join(<<>>) = <<>> BY DEF Join, FlattenSeq
  <2>3. WordsOfEach(<<>>) = <<>> BY DEF WordsOfEach
  <2>4. Said(<<>>) = <<>> BY AtEmpty DEF Said, Taggable, WordsOfEach
  <2>5. <<>> \in Seq(B) OBVIOUS
  <2> QED BY <2>1, <2>2, <2>3, <2>4, <2>5, Zenon
<1>2. ASSUME NEW v \in Seq(B), v \in T, NEW x \in B PROVE Append(v, x) \in T
  <2> DEFINE j == Join(v)
             y == WordsOf(x)
             e == WordsOfEach(v)
             n == Said(v)
             w == WordsOf(j)
  <2>1. j \in Seq(A) /\ Join(Append(v, x)) = j \o x BY JoinAppend
  <2>2. /\ e \in Seq(B) /\ WordsOfEach(Append(v, x)) = Append(e, y) BY EachAppend
  <2>3. /\ n \in Seq(B) /\ Said(Append(v, x)) = IF HasTaggableContent(x) THEN Append(n, y) ELSE n
    BY SaidAppend
  <2>4. Append(v, x) \in Seq(B)
    <3> HIDE DEF B
    <3> QED BY AppendIs
  <2>5. y \in Seq(A) /\ (y = <<>> <=> ~HasTaggableContent(x)) BY WordsType, NoWords
  <2>6. w = Join(e) /\ w = Join(n) BY <1>2
  <2> HIDE DEF j
  <2>7. WordsOf(j \o x) = w \o y /\ w \in Seq(A) BY <2>1, WordsConcat, WordsType
  <2> HIDE DEF y, e, n, w
  <2>8. Join(Append(e, y)) = Join(e) \o y BY <2>2, <2>5, JoinAppend
  <2>9. Join(Append(n, y)) = Join(n) \o y BY <2>3, <2>5, JoinAppend
  <2>10. w \o <<>> = w BY <2>7
  <2>11. WordsOf(Join(Append(v, x))) = Join(WordsOfEach(Append(v, x)))
    <3>1. Join(WordsOfEach(Append(v, x))) = w \o y BY <2>2, <2>6, <2>8
    <3> QED BY <2>1, <2>7, <3>1
  <2>12. WordsOf(Join(Append(v, x))) = Join(Said(Append(v, x)))
    <3>1. Join(Said(Append(v, x))) = w \o y
      <4>1. CASE HasTaggableContent(x) BY <2>3, <2>6, <2>9, <4>1
      <4>2. CASE ~HasTaggableContent(x)
        <5>1. Said(Append(v, x)) = n /\ y = <<>> BY <2>3, <2>5, <4>2
        <5>2. Join(n) = w \o y BY <2>6, <2>10, <5>1, Zenon
        <5> QED BY <5>1, <5>2
      <4> QED BY <4>1, <4>2
    <3> QED BY <2>1, <2>7, <3>1
  <2> QED BY <2>4, <2>11, <2>12
<1>3. p \in T
  <2> HIDE DEF T
  <2>0. p \in Seq(B) OBVIOUS
  <2> HIDE DEF B
  <2>1. Seq(B) \subseteq T BY <1>1, <1>2, SeqInduction
  <2> QED BY <2>0, <2>1
<1> QED BY <1>3

\* A text cut at every terminator.
Eager(s) == CutAfter(s, Places(s, Terminators))

\* With one more symbol the cut stays where it was.
LEMMA EagerAppend ==
  ASSUME NEW A, NEW s \in Seq(A), NEW x \in A
  PROVE  /\ Eager(s) \in CutTexts(A)
         /\ Eager(Append(s, x)) = IF x \in Terminators THEN Shut(Eager(s), x) ELSE Longer(Eager(s), x)
         /\ Eager(<<>>) = [complete |-> <<>>, remainder |-> <<>>]
<1> DEFINE P == Places(Append(s, x), Terminators)
           Q == Places(s, Terminators)
<1>1. /\ \A i \in 1 .. Len(s) : i \in P <=> i \in Q
      /\ Len(s) + 1 \in P <=> x \in Terminators
  BY PlacesAppend
<1> HIDE DEF P, Q
<1>2. Agree(P, Q, Len(s)) BY <1>1 DEF Agree
<1>3. /\ CutAfter(s, Q) \in CutTexts(A)
      /\ CutAfter(Append(s, x), P) = IF Len(s) + 1 \in P THEN Shut(CutAfter(s, Q), x)
                                    ELSE Longer(CutAfter(s, Q), x)
  BY <1>2, CutAppend
<1>5. Eager(<<>>) = [complete |-> <<>>, remainder |-> <<>>]
  <2> DEFINE R == Places(<<>>, Terminators)
  <2> HIDE DEF R
  <2>1. Agree(R, R, Len(s)) BY DEF Agree
  <2>2. CutAfter(<<>>, R) = [complete |-> <<>>, remainder |-> <<>>] BY <2>1, CutAppend
  <2> QED BY <2>2 DEF Eager, R
<1> QED BY <1>1, <1>3, <1>5 DEF Eager, P, Q

\* What was left of a text has no terminator.
LEMMA EagerRest ==
  ASSUME NEW A, NEW s \in Seq(A)
  PROVE  Eager(Eager(s).remainder) = [complete |-> <<>>, remainder |-> Eager(s).remainder]
<1> DEFINE T == {t \in Seq(A) : Eager(Eager(t).remainder) = [complete |-> <<>>, remainder |-> Eager(t).remainder]}
           none == [complete |-> <<>>, remainder |-> <<>>]
<1>0. ASSUME NEW t \in Seq(A), NEW x \in A
      PROVE  /\ Eager(t) \in CutTexts(A)
             /\ Eager(Append(t, x)) = IF x \in Terminators THEN Shut(Eager(t), x) ELSE Longer(Eager(t), x)
             /\ Eager(<<>>) = none
  <2> HIDE DEF none
  <2> QED BY EagerAppend DEF none
<1>1. Eager(<<>>) = none
  <2> DEFINE R == Places(<<>>, Terminators)
  <2>1. <<>> \in Seq({""}) OBVIOUS
  <2> DEFINE e == <<>>
  <2>2. e \in Seq({""}) /\ "" \in {""} BY <2>1
  <2> HIDE DEF e
  <2>3. Eager(<<>>) = [complete |-> <<>>, remainder |-> <<>>] BY <2>2, EagerAppend
  <2> QED BY <2>3
<1>2. <<>> \in T
  <2>1. Eager(<<>>).remainder = <<>> BY <1>1
  <2>2. <<>> \in Seq(A) OBVIOUS
  <2> QED BY <1>1, <2>1, <2>2, Zenon
<1>3. ASSUME NEW t \in Seq(A), t \in T, NEW x \in A PROVE Append(t, x) \in T
  <2> DEFINE b == Eager(t).remainder
             u == Append(t, x)
  <2>1. /\ Eager(t) \in CutTexts(A)
        /\ Eager(u) = (IF x \in Terminators THEN Shut(Eager(t), x) ELSE Longer(Eager(t), x))
    BY <1>0
  <2>2. b \in Seq(A) /\ Eager(b) = [complete |-> <<>>, remainder |-> b] BY <1>3, <2>1 DEF CutTexts
  <2>3. u \in Seq(A) BY AppendIs
  <2> HIDE DEF u
  <2>4. CASE x \in Terminators
    <3>1. Eager(u).remainder = <<>> BY <2>1, <2>4 DEF Shut, Longer
    <3> HIDE DEF b
    <3>2. Eager(Eager(u).remainder) = [complete |-> <<>>, remainder |-> Eager(u).remainder]
      BY <1>1, <3>1
    <3> QED BY <2>3, <3>2 DEF u
  <2>5. CASE x \notin Terminators
    <3>1. Eager(u).remainder = Append(b, x) BY <2>1, <2>5 DEF Shut, Longer
    <3> HIDE DEF b
    <3>2. Eager(Append(b, x)) = (IF x \in Terminators THEN Shut(Eager(b), x) ELSE Longer(Eager(b), x))
      BY <1>0, <2>2
    <3>3. Eager(Append(b, x)) = [complete |-> <<>>, remainder |-> Append(b, x)]
      BY <2>2, <2>5, <3>2 DEF Shut, Longer
    <3>4. Eager(Eager(u).remainder) = [complete |-> <<>>, remainder |-> Eager(u).remainder]
      BY <3>1, <3>3
    <3> QED BY <2>3, <3>4 DEF u
  <2> QED BY <2>4, <2>5
<1> HIDE DEF T
<1>4. Seq(A) \subseteq T BY <1>2, <1>3, SeqInduction
<1> QED BY <1>4 DEF T

\* However a text arrives, it is cut at the same places.
LEMMA EagerConcat ==
  ASSUME NEW A, NEW s \in Seq(A), NEW d \in Seq(A)
  PROVE  /\ Eager(s).complete \in Seq(Seq(A)) /\ Eager(s).remainder \in Seq(A)
         /\ Eager(s \o d) = [complete |-> Eager(s).complete \o Eager(Eager(s).remainder \o d).complete,
                             remainder |-> Eager(Eager(s).remainder \o d).remainder]
<1> DEFINE p == Eager(s).complete
           b == Eager(s).remainder
           T == {t \in Seq(A) : Eager(s \o t) = [complete |-> p \o Eager(b \o t).complete,
                                                 remainder |-> Eager(b \o t).remainder]}
<1>0. ASSUME NEW t \in Seq(A)
      PROVE Eager(t).complete \in Seq(Seq(A)) /\ Eager(t).remainder \in Seq(A)
  <2>1. CutAfter(t, Places(t, Terminators)).complete \in Seq(Seq(A))
        /\ CutAfter(t, Places(t, Terminators)).remainder \in Seq(A) BY CutWhole
  <2> QED BY <2>1 DEF Eager
<1>1. p \in Seq(Seq(A)) /\ b \in Seq(A) BY <1>0
<1>2. Eager(b) = [complete |-> <<>>, remainder |-> b] BY EagerRest
<1>3. Eager(s) = [complete |-> p, remainder |-> b]
  <2>1. Eager(s) \in CutTexts(A)
    <3>1. CutAfter(s, Places(s, Terminators)) \in CutTexts(A) BY CutWhole
    <3> QED BY <3>1 DEF Eager
  <2> QED BY <2>1 DEF CutTexts
<1> HIDE DEF p, b
<1>4. <<>> \in T
  <2>1. s \o <<>> = s OBVIOUS
  <2>2. b \o <<>> = b BY <1>1
  <2>3. p \o <<>> = p BY <1>1
  <2>4. Eager(b).complete = <<>> /\ Eager(b).remainder = b BY <1>2
  <2>5. <<>> \in Seq(A) OBVIOUS
  <2> QED BY <1>3, <2>1, <2>2, <2>3, <2>4, <2>5, Zenon
<1>5. ASSUME NEW t \in Seq(A), t \in T, NEW x \in A PROVE Append(t, x) \in T
  <2> DEFINE u == s \o t
             v == b \o t
             c == Eager(v)
             q == c.complete
             r == c.remainder
             y == Append(r, x)
             e == x \in Terminators
  <2>1. s \o Append(t, x) = Append(u, x) /\ u \in Seq(A) BY ConcatAppend, ConcatIs
  <2>2. b \o Append(t, x) = Append(v, x) /\ v \in Seq(A) BY <1>1, ConcatAppend, ConcatIs
  <2>3. Eager(u) = [complete |-> p \o q, remainder |-> r] BY <1>5
  <2> HIDE DEF u, v
  <2>4. Eager(Append(u, x)) = (IF e THEN Shut(Eager(u), x) ELSE Longer(Eager(u), x))
    BY <2>1, EagerAppend
  <2>5. Eager(Append(v, x)) = (IF e THEN Shut(c, x) ELSE Longer(c, x)) BY <2>2, EagerAppend
  <2>6. q \in Seq(Seq(A)) /\ r \in Seq(A) BY <1>0, <2>2
  <2> HIDE DEF c
  <2>7. y \in Seq(A)
    <3> HIDE DEF r
    <3> QED BY <2>6, AppendIs
  <2>8. p \o Append(q, y) = Append(p \o q, y)
    <3> DEFINE B == Seq(A)
    <3>1. p \in Seq(B) BY <1>1
    <3>2. q \in Seq(B) BY <2>6
    <3>3. y \in B BY <2>7
    <3> HIDE DEF B, q, y
    <3> QED BY <3>1, <3>2, <3>3, ConcatAppend
  <2>9. Append(t, x) \in Seq(A) BY AppendIs
  <2>10. Eager(Append(u, x)) = [complete |-> p \o Eager(Append(v, x)).complete,
                                remainder |-> Eager(Append(v, x)).remainder]
    <3>1. CASE e
      <4>1. Eager(Append(v, x)) = [complete |-> Append(q, y), remainder |-> <<>>]
        BY <2>5, <3>1 DEF Shut, Longer
      <4>2. Eager(Append(u, x)) = [complete |-> Append(p \o q, y), remainder |-> <<>>]
        BY <2>3, <2>4, <3>1 DEF Shut, Longer
      <4>3. Eager(Append(v, x)).complete = Append(q, y) /\ Eager(Append(v, x)).remainder = <<>>
        BY <4>1
      <4> HIDE DEF q, y
      <4> QED BY <2>8, <4>2, <4>3, Zenon
    <3>2. CASE ~e
      <4>1. Eager(Append(v, x)) = [complete |-> q, remainder |-> y] BY <2>5, <3>2 DEF Shut, Longer
      <4>2. Eager(Append(u, x)) = [complete |-> p \o q, remainder |-> y]
        BY <2>3, <2>4, <3>2 DEF Shut, Longer
      <4> HIDE DEF q, y
      <4> QED BY <4>1, <4>2
    <3> QED BY <3>1, <3>2
  <2> QED BY <2>1, <2>2, <2>9, <2>10
<1>6. d \in T
  <2> HIDE DEF T
  <2>1. Seq(A) \subseteq T BY <1>4, <1>5, SeqInduction
  <2> QED BY <2>1
<1> QED BY <1>1, <1>6 DEF p, b

\* A terminator adds no words.
LEMMA SaidLast ==
  ASSUME NEW A, NEW p \in Seq(Seq(A)), NEW q \in Seq(Seq(A)), NEW r \in Seq(A), NEW y \in Seq(A),
         WordsOf(r) = WordsOf(y), Said(p) = Said(q)
  PROVE  Said(Append(p, r)) = Said(Append(q, y))
<1>1. Said(Append(p, r)) = IF HasTaggableContent(r) THEN Append(Said(p), WordsOf(r)) ELSE Said(p)
  BY SaidAppend
<1>2. Said(Append(q, y)) = IF HasTaggableContent(y) THEN Append(Said(q), WordsOf(y)) ELSE Said(q)
  BY SaidAppend
<1>3. HasTaggableContent(r) <=> HasTaggableContent(y)
  <2>1. WordsOf(r) = <<>> <=> ~HasTaggableContent(r) BY NoWords
  <2>2. WordsOf(y) = <<>> <=> ~HasTaggableContent(y) BY NoWords
  <2> QED BY <2>1, <2>2
<1> QED BY <1>1, <1>2, <1>3

\* The last symbol of each sentence of s.
Ends(s) == {i \in Places(s, Terminators) : i = Len(s) \/ s[i + 1] \notin Terminators}

\* Where the sentences of a longer text end.
LEMMA EndsAppend ==
  ASSUME NEW A, NEW s \in Seq(A), NEW x \in A
  PROVE  /\ Len(s) + 1 \in Ends(Append(s, x)) <=> x \in Terminators
         /\ \A i \in 1 .. Len(s) : i \in Ends(Append(s, x)) <=>
              IF x \in Terminators THEN i \in Ends(s) \ {Len(s)} ELSE i \in Ends(s)
<1> DEFINE u == Append(s, x)
           N == Len(s)
<1>1. u \in Seq(A) /\ Len(u) = N + 1 /\ N \in Nat /\ (\A i \in 1 .. N : u[i] = s[i]) /\ u[N + 1] = x
  BY AppendIs
<1>2. /\ \A i \in 1 .. N : i \in Places(u, Terminators) <=> i \in Places(s, Terminators)
      /\ N + 1 \in Places(u, Terminators) <=> x \in Terminators
  BY PlacesAppend
<1> HIDE DEF u, N
<1>3. N + 1 \in Ends(u) <=> x \in Terminators BY <1>1, <1>2 DEF Ends
<1>4. ASSUME NEW i \in 1 .. N
      PROVE  i \in Ends(u) <=> IF x \in Terminators THEN i \in Ends(s) \ {N} ELSE i \in Ends(s)
  <2>1. i # N + 1 /\ Len(u) = N + 1 BY <1>1
  <2>2. i \in Ends(u) <=> i \in Places(s, Terminators) /\ u[i + 1] \notin Terminators
    BY <1>2, <2>1 DEF Ends
  <2>3. i \in Ends(s) <=> i \in Places(s, Terminators) /\ (i = N \/ s[i + 1] \notin Terminators)
    BY DEF Ends, N
  <2>4. CASE i = N
    <3>1. u[i + 1] = x BY <1>1, <2>4
    <3> QED BY <2>2, <2>3, <2>4, <3>1
  <2>5. CASE i # N
    <3>1. i + 1 \in 1 .. N BY <1>1, <2>5
    <3>2. u[i + 1] = s[i + 1] BY <1>1, <3>1
    <3> QED BY <2>2, <2>3, <2>5, <3>2
  <2> QED BY <2>4, <2>5
<1> QED BY <1>3, <1>4 DEF u, N

\* Cutting after a run of terminators or at each of them says the same.
SaysAlike(s) ==
  LET g == CutAfter(s, Ends(s))
      h == Eager(s)
      k == CutAfter(s, Ends(s) \ {Len(s)})
  IN /\ g.remainder = h.remainder /\ Said(g.complete) = Said(h.complete)
     /\ Said(Append(k.complete, k.remainder)) = Said(Append(h.complete, h.remainder))

\* The sentences _split_complete_sentences finds say what those do that end at each
\* terminator: a run of them only adds sentences without a word.
LEMMA EagerSays ==
  ASSUME NEW A, NEW s \in Seq(A)
  PROVE  /\ SplitCompleteSentences(s).remainder = Eager(s).remainder
         /\ Said(SplitCompleteSentences(s).complete) = Said(Eager(s).complete)
<1> DEFINE T == {t \in Seq(A) : SaysAlike(t)}
<1>1. <<>> \in T
  <2>1. \A P : CutAfter(<<>>, P) = [complete |-> <<>>, remainder |-> <<>>]
    <3> TAKE P
    <3> DEFINE e == <<>>
    <3>1. e \in Seq({}) /\ Len(e) = 0 OBVIOUS
    <3> HIDE DEF e
    <3>2. PICK h : CutUnfolds(h, e, P, {}) /\ CutAfter(e, P) = h[Len(e)] BY <3>1, CutSteps
    <3> QED BY <3>1, <3>2 DEF CutUnfolds, e
  <2>2. SaysAlike(<<>>)
    <3> DEFINE g == CutAfter(<<>>, Ends(<<>>))
               h == CutAfter(<<>>, Places(<<>>, Terminators))
               k == CutAfter(<<>>, Ends(<<>>) \ {Len(<<>>)})
    <3>1. g = h /\ k = h BY <2>1, Zenon
    <3>2. SaysAlike(<<>>) <=>
            /\ g.remainder = h.remainder /\ Said(g.complete) = Said(h.complete)
            /\ Said(Append(k.complete, k.remainder)) = Said(Append(h.complete, h.remainder))
      BY Zenon DEF SaysAlike, Eager
    <3> HIDE DEF g, h, k
    <3> QED BY <3>1, <3>2
  <2>3. <<>> \in Seq(A) OBVIOUS
  <2> QED BY <2>2, <2>3, Zenon
<1>2. ASSUME NEW t \in Seq(A), t \in T, NEW x \in A PROVE Append(t, x) \in T
  <2> DEFINE u == Append(t, x)
             N == Len(t)
             L == Ends(t)
             M == Ends(u)
             g == CutAfter(t, L)
             h == Eager(t)
             k == CutAfter(t, L \ {N})
             g2 == CutAfter(u, M)
             h2 == Eager(u)
             k2 == CutAfter(u, M \ {N + 1})
             e == x \in Terminators
  <2>1. u \in Seq(A) /\ Len(u) = N + 1 /\ N \in Nat BY AppendIs
  <2>2. /\ N + 1 \in M <=> e
        /\ \A i \in 1 .. N : i \in M <=> IF e THEN i \in L \ {N} ELSE i \in L
    BY EndsAppend
  <2>3. g \in CutTexts(A) /\ h \in CutTexts(A) /\ k \in CutTexts(A) BY CutWhole DEF Eager
  <2>4. h2 = (IF e THEN Shut(h, x) ELSE Longer(h, x)) BY EagerAppend
  <2>5. /\ g.remainder = h.remainder /\ Said(g.complete) = Said(h.complete)
        /\ Said(Append(k.complete, k.remainder)) = Said(Append(h.complete, h.remainder))
    BY <1>2 DEF SaysAlike
  <2>6. SaysAlike(u) <=>
            /\ g2.remainder = h2.remainder /\ Said(g2.complete) = Said(h2.complete)
            /\ Said(Append(k2.complete, k2.remainder)) = Said(Append(h2.complete, h2.remainder))
    <3> HIDE DEF u
    <3>1. M \ {Len(u)} = M \ {N + 1} BY <2>1
    <3> QED BY <3>1, Zenon DEF SaysAlike
  <2>7. /\ g.complete \in Seq(Seq(A)) /\ h.complete \in Seq(Seq(A)) /\ k.complete \in Seq(Seq(A))
        /\ g.remainder \in Seq(A) /\ h.remainder \in Seq(A) /\ k.remainder \in Seq(A)
    BY <2>3 DEF CutTexts
  <2> DEFINE y(c) == Append(c.remainder, x)
  <2>8. y(h) \in Seq(A) /\ y(k) \in Seq(A)
    <3> DEFINE a == h.remainder
               b == k.remainder
    <3>1. a \in Seq(A) /\ b \in Seq(A) BY <2>7
    <3> HIDE DEF a, b
    <3>2. Append(a, x) \in Seq(A) /\ Append(b, x) \in Seq(A) BY <3>1, AppendIs
    <3> QED BY <3>2 DEF a, b
  <2>9. CASE ~e
    <3>1. g2 = IF N + 1 \in M THEN Shut(g, x) ELSE Longer(g, x)
      <4> HIDE DEF L, M
      <4>1. Agree(M, L, Len(t)) BY <2>2, <2>9 DEF Agree
      <4> QED BY <4>1, CutAppend
    <3>2. k2 = IF N + 1 \in M \ {N + 1} THEN Shut(g, x) ELSE Longer(g, x)
      <4> DEFINE R == M \ {N + 1}
      <4>1. Agree(R, L, Len(t)) BY <2>1, <2>2, <2>9 DEF Agree
      <4> HIDE DEF L, R
      <4>2. CutAfter(Append(t, x), R) = IF Len(t) + 1 \in R THEN Shut(CutAfter(t, L), x) ELSE Longer(CutAfter(t, L), x)
        BY <4>1, CutAppend
      <4> QED BY <4>2 DEF L, R
    <3>3. N + 1 \notin M /\ N + 1 \notin M \ {N + 1} BY <2>2, <2>9
    <3> HIDE DEF g, h, k, g2, h2, k2, M, N, u
    <3>4. g2 = [complete |-> g.complete, remainder |-> y(g)] BY <3>1, <3>3 DEF Shut, Longer
    <3>5. h2 = [complete |-> h.complete, remainder |-> y(h)] BY <2>4, <2>9 DEF Shut, Longer
    <3>6. k2 = g2 BY <3>2, <3>3, <3>4 DEF Shut, Longer
    <3>7. y(g) = y(h) BY <2>5
    <3> DEFINE z == y(h)
               p == g.complete
               q == h.complete
    <3>8. z \in Seq(A) /\ p \in Seq(Seq(A)) /\ q \in Seq(Seq(A)) /\ Said(p) = Said(q)
      BY <2>5, <2>7, <2>8
    <3>9. /\ g2.complete = p /\ g2.remainder = z /\ h2.complete = q /\ h2.remainder = z
          /\ k2.complete = p /\ k2.remainder = z
      BY <3>4, <3>5, <3>6, <3>7
    <3> HIDE DEF z, p, q
    <3>10. Said(Append(p, z)) = Said(Append(q, z)) BY <3>8, SaidLast
    <3>11. SaysAlike(u) BY <2>6, <3>8, <3>9, <3>10
    <3> QED BY <2>1, <3>11 DEF u
  <2>10. CASE e
    <3>1. g2 = IF N + 1 \in M THEN Shut(k, x) ELSE Longer(k, x)
      <4> DEFINE R == L \ {N}
      <4>1. Agree(M, R, Len(t)) BY <2>2, <2>10 DEF Agree
      <4> HIDE DEF R, M
      <4>2. CutAfter(Append(t, x), M) = IF Len(t) + 1 \in M THEN Shut(CutAfter(t, R), x) ELSE Longer(CutAfter(t, R), x)
        BY <4>1, CutAppend
      <4> QED BY <4>2 DEF R
    <3>2. k2 = IF N + 1 \in M \ {N + 1} THEN Shut(k, x) ELSE Longer(k, x)
      <4> DEFINE R == L \ {N}
                 S == M \ {N + 1}
      <4>1. Agree(S, R, Len(t)) BY <2>1, <2>2, <2>10 DEF Agree
      <4> HIDE DEF R, S
      <4>2. CutAfter(Append(t, x), S) = IF Len(t) + 1 \in S THEN Shut(CutAfter(t, R), x) ELSE Longer(CutAfter(t, R), x)
        BY <4>1, CutAppend
      <4> QED BY <4>2 DEF R, S
    <3>3. N + 1 \in M /\ N + 1 \notin M \ {N + 1} BY <2>2, <2>10
    <3>4. x \notin WordSet
      <4>1. Terminators \subseteq Pauses BY DEF Terminators, Pauses
      <4> QED BY <2>10, <4>1, WordsApart
    <3> HIDE DEF g, h, k, g2, h2, k2, M, N, u
    <3> DEFINE yk == y(k)
               yh == y(h)
               rk == k.remainder
               rh == h.remainder
               p == k.complete
               q == h.complete
    <3>5. g2 = [complete |-> Append(p, yk), remainder |-> <<>>] BY <3>1, <3>3 DEF Shut, Longer
    <3>6. h2 = [complete |-> Append(q, yh), remainder |-> <<>>] BY <2>4, <2>10 DEF Shut, Longer
    <3>7. k2 = [complete |-> p, remainder |-> yk] BY <3>2, <3>3 DEF Shut, Longer
    <3>8. /\ rk \in Seq(A) /\ rh \in Seq(A) /\ yk \in Seq(A) /\ yh \in Seq(A)
          /\ p \in Seq(Seq(A)) /\ q \in Seq(Seq(A))
          /\ Said(Append(p, rk)) = Said(Append(q, rh))
      BY <2>5, <2>7, <2>8
    <3>9. yk = Append(rk, x) /\ yh = Append(rh, x) OBVIOUS
    <3>10. /\ g2.complete = Append(p, yk) /\ g2.remainder = <<>>
           /\ h2.complete = Append(q, yh) /\ h2.remainder = <<>>
           /\ k2.complete = p /\ k2.remainder = yk
      BY <3>5, <3>6, <3>7
    <3> HIDE DEF yk, yh, rk, rh, p, q
    <3>11. WordsOf(rk) = WordsOf(yk) /\ WordsOf(rh) = WordsOf(yh)
      <4>1. WordsOf(Append(rk, x)) = WordsOf(rk) BY <3>4, <3>8, WordsAppend
      <4>2. WordsOf(Append(rh, x)) = WordsOf(rh) BY <3>4, <3>8, WordsAppend
      <4> QED BY <3>9, <4>1, <4>2
    <3>12. Said(Append(p, rk)) = Said(Append(p, yk)) BY <3>8, <3>11, SaidLast
    <3>13. Said(Append(q, rh)) = Said(Append(q, yh)) BY <3>8, <3>11, SaidLast
    <3>14. Said(Append(p, yk)) = Said(Append(q, yh)) BY <3>8, <3>12, <3>13
    <3>15. Said(Append(Append(q, yh), <<>>)) = Said(Append(q, yh))
      <4> DEFINE l == Append(q, yh)
                 n == <<>>
                 B == Seq(A)
      <4>1. n \in Seq(A) /\ WordsOf(n) = n
        <5>1. n \in Seq(A) OBVIOUS
        <5>2. WordsOf(<<>>) = <<>> BY AtEmpty DEF WordsOf
        <5> QED BY <5>1, <5>2
      <4>2. l \in Seq(B)
        <5>1. q \in Seq(B) /\ yh \in B BY <3>8
        <5> HIDE DEF B
        <5> QED BY <5>1, AppendIs
      <4> HIDE DEF l, n
      <4>3. Said(Append(l, n)) = IF HasTaggableContent(n) THEN Append(Said(l), WordsOf(n)) ELSE Said(l)
        BY <4>1, <4>2, SaidAppend
      <4>4. ~HasTaggableContent(n)
        <5>1. WordsOf(n) = <<>> BY <4>1 DEF n
        <5> QED BY <4>1, <5>1, NoWords
      <4> QED BY <4>3, <4>4 DEF l, n
    <3>16. Said(Append(k2.complete, k2.remainder)) = Said(Append(h2.complete, h2.remainder))
      <4>1. Append(h2.complete, h2.remainder) = Append(Append(q, yh), <<>>) BY <3>10, Zenon
      <4>2. Append(k2.complete, k2.remainder) = Append(p, yk) BY <3>10, Zenon
      <4> QED BY <3>14, <3>15, <4>1, <4>2, Zenon
    <3>17. g2.remainder = h2.remainder /\ Said(g2.complete) = Said(h2.complete)
      BY <3>10, <3>14, Zenon
    <3>18. SaysAlike(u) BY <2>6, <3>16, <3>17, Zenon
    <3> QED BY <2>1, <3>18 DEF u
  <2> QED BY <2>9, <2>10
<1>3. s \in T
  <2> HIDE DEF T
  <2>1. Seq(A) \subseteq T BY <1>1, <1>2, SeqInduction
  <2> QED BY <2>1
<1>4. SplitCompleteSentences(s) = CutAfter(s, Ends(s)) BY DEF SplitCompleteSentences, Ends
<1> QED BY <1>3, <1>4 DEF SaysAlike

-----------------------------------------------------------------------------
(* The inductive invariant *)

\* The values the tagger keeps.
TagCalls == [sentence : Seq(Plain), prior : Seq(Plain), answer : Seq(Symbols), result : Seq(Symbols)]

TagTypes ==
  /\ text \in Seq(Plain) /\ path \in {"stream", "reply", "whole"}
  /\ taken \in 0 .. Len(text) /\ buffer \in Seq(Plain)
  /\ calls \in Seq(TagCalls) /\ ended \in {"no", "yes", "truncated"}

\* What is kept of an answer has the words of its sentence.
Kept(c) == c.result = <<>> \/ Legal(c.result, c.sentence)
CallsKept == \A i \in 1 .. Len(calls) : Kept(calls[i])

\* The sentences that were sent, and what has arrived of the reply.
SentOf(c) == [i \in DOMAIN c |-> c[i].sentence]
Arrived == SubSeq(text, 1, taken)

\* While a reply is streamed, the calls have the words of the sentences that have
\* arrived, cut at each terminator, and the buffer has the rest; in the end they have
\* those of the whole text.
SentInv ==
  /\ path = "stream" /\ ended = "no" =>
       /\ buffer = Eager(Arrived).remainder
       /\ WordsOfEach(SentOf(calls)) = Said(Eager(Arrived).complete)
  /\ path = "stream" /\ ended = "yes" => WordsOfEach(SentOf(calls)) = Said(SentencesOf(text))
  /\ path = "stream" /\ ended = "truncated" =>
       WordsOfEach(SentOf(calls)) = Said(SplitCompleteSentences(text).complete)
  /\ path = "reply" /\ ended # "no" => ended = "yes" /\ SentOf(calls) = SentencesOf(text)
  /\ path = "whole" /\ ended # "no" => ended = "yes" /\ SentOf(calls) = <<text>>
TagInv == TagTypes /\ CallsKept /\ SentInv

\* The sentences that were sent, and which they are.
LEMMA SentIs ==
  ASSUME NEW c \in Seq(TagCalls)
  PROVE  /\ SentOf(c) \in Seq(Seq(Plain)) /\ Len(SentOf(c)) = Len(c)
         /\ \A i \in 1 .. Len(c) : SentOf(c)[i] = c[i].sentence /\ c[i] \in TagCalls
<1>1. DOMAIN c = 1 .. Len(c) /\ Len(c) \in Nat /\ \A i \in 1 .. Len(c) : c[i] \in TagCalls OBVIOUS
<1> DEFINE B == Seq(Plain)
<1>2. \A i \in 1 .. Len(c) : c[i].sentence \in B BY <1>1 DEF TagCalls
<1> HIDE DEF B
<1>3. /\ SentOf(c) \in Seq(B) /\ Len(SentOf(c)) = Len(c)
      /\ \A i \in 1 .. Len(c) : SentOf(c)[i] = c[i].sentence
  BY <1>1, <1>2 DEF SentOf
<1> QED BY <1>1, <1>3 DEF B

\* One call goes on, with its sentence.
LEMMA CallGoesOn ==
  ASSUME NEW c \in Seq(TagCalls), NEW i \in 1 .. Len(c), NEW r \in TagCalls, r.sentence = c[i].sentence,
         Kept(r), \A j \in 1 .. Len(c) : Kept(c[j])
  PROVE  LET d == [c EXCEPT ![i] = r]
         IN d \in Seq(TagCalls) /\ Len(d) = Len(c) /\ SentOf(d) = SentOf(c) /\ \A j \in 1 .. Len(d) : Kept(d[j])
<1> DEFINE d == [c EXCEPT ![i] = r]
<1>1. DOMAIN c = 1 .. Len(c) /\ Len(c) \in Nat /\ \A j \in 1 .. Len(c) : c[j] \in TagCalls OBVIOUS
<1>2. \A j \in 1 .. Len(c) : d[j] = IF j = i THEN r ELSE c[j] BY <1>1
<1>3. d \in Seq(TagCalls) /\ Len(d) = Len(c) /\ DOMAIN d = 1 .. Len(c)
  <2> HIDE DEF TagCalls
  <2> QED BY <1>1
<1> HIDE DEF d
<1>4. \A j \in 1 .. Len(c) : d[j].sentence = c[j].sentence /\ Kept(d[j]) BY <1>2
<1>5. SentOf(d) = SentOf(c) BY <1>1, <1>3, <1>4 DEF SentOf
<1> QED BY <1>3, <1>4, <1>5 DEF d

\* The words of a longer list.
LEMMA EachConcat ==
  ASSUME NEW A, NEW p \in Seq(Seq(A)), NEW q \in Seq(Seq(A))
  PROVE  WordsOfEach(p \o q) = WordsOfEach(p) \o WordsOfEach(q)
<1> DEFINE B == Seq(A)
           T == {v \in Seq(B) : WordsOfEach(p \o v) = WordsOfEach(p) \o WordsOfEach(v)}
           a == WordsOfEach(p)
<1>0. a \in Seq(B) /\ p \in Seq(B) /\ q \in Seq(B)
  <2> DEFINE e == <<>>
  <2>1. e \in Seq(A) OBVIOUS
  <2> HIDE DEF e
  <2> QED BY <2>1, EachAppend
<1>1. <<>> \in T
  <2> HIDE DEF B, a
  <2>1. p \o <<>> = p BY <1>0
  <2>2. a \o <<>> = a BY <1>0
  <2>3. WordsOfEach(<<>>) = <<>> BY DEF WordsOfEach
  <2>4. <<>> \in Seq(B) OBVIOUS
  <2> QED BY <2>1, <2>2, <2>3, <2>4, Zenon DEF a
<1>2. ASSUME NEW v \in Seq(B), v \in T, NEW x \in B PROVE Append(v, x) \in T
  <2> DEFINE u == p \o v
             b == WordsOfEach(v)
             y == WordsOf(x)
  <2>1. p \o Append(v, x) = Append(u, x) /\ u \in Seq(B) /\ Append(v, x) \in Seq(B)
    <3> HIDE DEF B
    <3> QED BY <1>0, ConcatAppend, ConcatIs, AppendIs
  <2>2. WordsOfEach(u) = a \o b BY <1>2
  <2> HIDE DEF u
  <2>3. WordsOfEach(Append(u, x)) = Append(WordsOfEach(u), y) BY <2>1, EachAppend
  <2>4. b \in Seq(B) /\ WordsOfEach(Append(v, x)) = Append(b, y) BY EachAppend
  <2>5. y \in B BY WordsType
  <2> HIDE DEF a, b, y, B
  <2>6. a \o Append(b, y) = Append(a \o b, y) BY <1>0, <2>4, <2>5, ConcatAppend
  <2>7. WordsOfEach(p \o Append(v, x)) = a \o WordsOfEach(Append(v, x))
    BY <2>1, <2>2, <2>3, <2>4, <2>6, Zenon
  <2> QED BY <2>1, <2>7 DEF a
<1> HIDE DEF T, B
<1>3. Seq(B) \subseteq T BY <1>1, <1>2, SeqInduction
<1> QED BY <1>0, <1>3 DEF T

\* What is scheduled is what the sentences say.
LEMMA ScheduledIs ==
  ASSUME NEW q \in Seq(Seq(Plain)), calls \in Seq(TagCalls), CallsKept, Schedule(q)
  PROVE  /\ calls' \in Seq(TagCalls) /\ CallsKept'
         /\ WordsOfEach(SentOf(calls')) = WordsOfEach(SentOf(calls)) \o Said(q)
<1> DEFINE spoken == [i \in DOMAIN calls |-> calls[i].sentence]
           new    == Taggable(q)
           prior(k) == BuildPriorContext(spoken \o SubSeq(new, 1, k - 1))
           one(k) == Call(new[k], prior(k))
           more == [k \in DOMAIN new |-> one(k)]
           B == Seq(Plain)
           N == Len(calls)
           M == Len(new)
<1>1. calls' = calls \o more BY DEF Schedule
<1>2. spoken = SentOf(calls) BY DEF SentOf
<1>3. SentOf(calls) \in Seq(B) /\ Len(SentOf(calls)) = N
      /\ \A i \in 1 .. N : SentOf(calls)[i] = calls[i].sentence /\ calls[i] \in TagCalls BY SentIs
<1>4. new \in Seq(B)
  <2> DEFINE e == <<>>
  <2>1. e \in Seq(Plain) OBVIOUS
  <2> HIDE DEF e
  <2> QED BY <2>1, TaggableAppend
<1>5. DOMAIN new = 1 .. M /\ M \in Nat /\ N \in Nat /\ \A k \in 1 .. M : new[k] \in B
  <2> HIDE DEF new, B
  <2> QED BY <1>4
<1> HIDE DEF spoken, new
<1>6. ASSUME NEW k \in 1 .. M PROVE prior(k) \in B
  <2> DEFINE n == k - 1
             a == SubSeq(new, 1, n)
             b == spoken \o a
  <2>1. n \in 0 .. Len(new) BY <1>5
  <2> HIDE DEF n
  <2>2. a \in Seq(B)
    <3> HIDE DEF B
    <3> QED BY <1>4, <2>1, PrefixIs
  <2>3. spoken \in Seq(B) BY <1>2, <1>3
  <2> HIDE DEF a
  <2>4. b \in Seq(B)
    <3> HIDE DEF B
    <3> QED BY <2>2, <2>3, ConcatIs
  <2> HIDE DEF b
  <2>5. BuildPriorContext(b) \in Seq(Plain) BY <2>4, PriorIs
  <2> QED BY <2>5 DEF b, a, n
<1> HIDE DEF prior
<1>7. ASSUME NEW k \in 1 .. M
      PROVE  Call(new[k], prior(k)) \in TagCalls /\ Call(new[k], prior(k)).sentence = new[k]
             /\ Kept(Call(new[k], prior(k)))
  <2> DEFINE y == new[k]
  <2>1. y \in Seq(Plain) /\ prior(k) \in Seq(Plain) BY <1>5, <1>6
  <2> HIDE DEF y
  <2>2. Strip(y) \in Seq(Plain) BY <2>1, StripIs
  <2> DEFINE z == Strip(y)
  <2>3. z \in Seq(Plain) BY <2>2
  <2> HIDE DEF z
  <2>4. z \in Seq(Symbols) BY <2>3, PlainIs
  <2>5. <<>> \in Seq(Symbols) OBVIOUS
  <2>6. Call(y, prior(k)) = [sentence |-> y, prior |-> prior(k), answer |-> z, result |-> <<>>]
    BY DEF Call, z
  <2> QED BY <2>1, <2>4, <2>5, <2>6 DEF TagCalls, Kept, y
<1>8. more \in Seq(TagCalls) /\ Len(more) = M /\ \A k \in 1 .. M : more[k] = Call(new[k], prior(k))
  <2>1. \A k \in 1 .. M : one(k) \in TagCalls BY <1>7
  <2>2. more = [k \in 1 .. M |-> one(k)] BY <1>5
  <2> HIDE DEF TagCalls, M, one, more
  <2>3. more \in Seq(TagCalls) /\ Len(more) = M /\ \A k \in 1 .. M : more[k] = one(k)
    BY <1>5, <2>1, <2>2
  <2> QED BY <2>3 DEF one
<1> HIDE DEF more, TagCalls, Call
<1>9. /\ calls' \in Seq(TagCalls) /\ Len(calls') = N + M
      /\ \A i \in 1 .. N : calls'[i] = calls[i]
      /\ \A i \in 1 .. M : calls'[N + i] = more[i]
  <2>1. calls \in Seq(TagCalls) /\ more \in Seq(TagCalls) BY <1>8
  <2>2. /\ calls \o more \in Seq(TagCalls) /\ Len(calls \o more) = Len(calls) + Len(more)
        /\ \A i \in 1 .. Len(calls) : (calls \o more)[i] = calls[i]
        /\ \A i \in 1 .. Len(more) : (calls \o more)[Len(calls) + i] = more[i]
    BY <2>1, ConcatIs
  <2> HIDE DEF M
  <2> QED BY <1>1, <1>8, <2>2
<1>10. CallsKept'
  <2>1. ASSUME NEW i \in 1 .. N + M PROVE Kept(calls'[i])
    <3>1. CASE i \in 1 .. N BY <1>9, <3>1 DEF CallsKept
    <3>2. CASE i \notin 1 .. N
      <4>1. i - N \in 1 .. M /\ N + (i - N) = i BY <1>5, <3>2
      <4>2. calls'[i] = more[i - N] BY <1>9, <4>1
      <4> QED BY <1>7, <1>8, <4>1, <4>2
    <3> QED BY <3>1, <3>2
  <2> QED BY <1>9, <2>1 DEF CallsKept
<1>11. SentOf(calls') = SentOf(calls) \o new
  <2> DEFINE s == SentOf(calls)
             t == SentOf(calls')
             u == s \o new
             d == calls'
  <2>1. d \in Seq(TagCalls) BY <1>9
  <2>2. t \in Seq(B) /\ Len(t) = Len(d) /\ \A i \in 1 .. Len(d) : t[i] = d[i].sentence
    <3> HIDE DEF d
    <3>1. /\ SentOf(d) \in Seq(B) /\ Len(SentOf(d)) = Len(d)
          /\ \A i \in 1 .. Len(d) : SentOf(d)[i] = d[i].sentence
      BY <2>1, SentIs
    <3> QED BY <3>1 DEF d
  <2> HIDE DEF s, t
  <2>3. /\ u \in Seq(B) /\ Len(u) = N + M
        /\ \A i \in 1 .. N : u[i] = s[i]
        /\ \A i \in 1 .. M : u[N + i] = new[i]
    <3>1. s \in Seq(B) /\ Len(s) = N BY <1>3 DEF s
    <3>a. s \in Seq(B) /\ new \in Seq(B) BY <1>4, <3>1
    <3> HIDE DEF B, N, M, d
    <3>2. /\ u \in Seq(B) /\ Len(u) = Len(s) + Len(new)
          /\ \A i \in 1 .. Len(s) : u[i] = s[i]
          /\ \A i \in 1 .. Len(new) : u[Len(s) + i] = new[i]
      BY <3>a, ConcatIs
    <3> QED BY <3>1, <3>2 DEF M
  <2> HIDE DEF u
  <2>4. ASSUME NEW i \in 1 .. N + M PROVE t[i] = u[i]
    <3>0. t[i] = calls'[i].sentence BY <1>9, <2>2
    <3>1. CASE i \in 1 .. N
      <4>1. u[i] = calls[i].sentence BY <1>3, <2>3, <3>1 DEF s
      <4> QED BY <1>9, <3>0, <3>1, <4>1
    <3>2. CASE i \notin 1 .. N
      <4>1. i - N \in 1 .. M /\ N + (i - N) = i BY <1>5, <3>2
      <4>2. calls'[i] = more[i - N] /\ u[i] = new[i - N] BY <1>9, <2>3, <4>1
      <4> QED BY <1>7, <1>8, <3>0, <4>1, <4>2
    <3> QED BY <3>1, <3>2
  <2>5. Len(t) = Len(u) BY <1>9, <2>2, <2>3
  <2>6. \A i \in 1 .. Len(t) : t[i] = u[i] BY <1>9, <2>2, <2>4
  <2> HIDE DEF d
  <2>7. t = u BY <2>2, <2>3, <2>5, <2>6, SameSeq
  <2> QED BY <2>7 DEF t, u, s
<1>12. WordsOfEach(SentOf(calls) \o new) = WordsOfEach(SentOf(calls)) \o WordsOfEach(new)
  BY <1>3, <1>4, EachConcat
<1>13. WordsOfEach(new) = Said(q) BY DEF Said, new
<1> QED BY <1>9, <1>10, <1>11, <1>12, <1>13

\* As long as nothing has arrived, nothing needs to have been sent.
LEMMA NothingSent ==
  ASSUME text \in Seq(Plain), path \in {"stream", "reply", "whole"},
         taken = 0, buffer = <<>>, calls = <<>>, ended = "no"
  PROVE  TagInv
<1>1. TagTypes
  <2>1. Len(text) \in Nat OBVIOUS
  <2>2. <<>> \in Seq(Plain) OBVIOUS
  <2>3. <<>> \in Seq(TagCalls) OBVIOUS
  <2>4. buffer \in Seq(Plain) /\ calls \in Seq(TagCalls) BY <2>2, <2>3, Zenon
  <2>5. taken \in 0 .. Len(text) BY <2>1
  <2> QED BY <2>4, <2>5 DEF TagTypes
<1>2. CallsKept BY DEF CallsKept
<1>3. Arrived = <<>> BY DEF Arrived
<1>4. Eager(<<>>) = [complete |-> <<>>, remainder |-> <<>>]
  <2> DEFINE e == <<>>
  <2>1. e \in Seq({""}) /\ "" \in {""} OBVIOUS
  <2> HIDE DEF e
  <2> QED BY <2>1, EagerAppend
<1>5. WordsOfEach(SentOf(calls)) = Said(<<>>)
  <2>1. SentOf(<<>>) = <<>> BY DEF SentOf
  <2>2. WordsOfEach(<<>>) = <<>> BY DEF WordsOfEach
  <2>3. Taggable(<<>>) = <<>> BY AtEmpty DEF Taggable
  <2> QED BY <2>1, <2>2, <2>3 DEF Said
<1>6. Eager(Arrived).complete = <<>> /\ Eager(Arrived).remainder = <<>> BY <1>3, <1>4
<1>7. SentInv BY <1>5, <1>6 DEF SentInv
<1> QED BY <1>1, <1>2, <1>7 DEF TagInv

\* A reply consists of words and pauses, and at first nothing of it has been sent.
LEMMA TagStarts == TagInit => TagInv
<1> SUFFICES ASSUME TagInit PROVE TagInv OBVIOUS
<1>1. text \in Seq(Plain)
  <2> DEFINE symbol(k, i) == IF k[i] = "word" THEN Word[i] ELSE k[i]
  <2>1. PICK n \in 1 .. MaxText :
          text \in {[i \in 1 .. n |-> symbol(k, i)] : k \in [1 .. n -> {"word"} \cup Pauses]}
    BY DEF TagInit, Texts
  <2>2. PICK k \in [1 .. n -> {"word"} \cup Pauses] : text = [i \in 1 .. n |-> symbol(k, i)]
    BY <2>1
  <2>3. ASSUME NEW i \in 1 .. n PROVE symbol(k, i) \in Plain
    <3>1. i \in 1 .. Len(Word) /\ Word \in Seq(STRING) BY TextAssumption
    <3>2. Word[i] \in ToSet(Word) BY <3>1 DEF ToSet
    <3>3. k[i] \in {"word"} \cup Pauses BY <2>2
    <3> QED BY <3>2, <3>3 DEF Plain, WordSet
  <2> HIDE DEF Plain, symbol
  <2>4. n \in Nat BY TextAssumption
  <2> QED BY <2>2, <2>3, <2>4
<1> QED BY <1>1, NothingSent DEF TagInit

\* A call that goes on changes nothing else.
LEMMA CallStep ==
  ASSUME TagInv, NEW i \in 1 .. Len(calls), NEW r \in TagCalls, r.sentence = calls[i].sentence, Kept(r),
         calls' = [calls EXCEPT ![i] = r], UNCHANGED <<text, path, taken, buffer, ended>>
  PROVE  TagInv'
<1>1. calls \in Seq(TagCalls) /\ \A j \in 1 .. Len(calls) : Kept(calls[j])
  BY DEF TagInv, TagTypes, CallsKept
<1>2. /\ calls' \in Seq(TagCalls) /\ Len(calls') = Len(calls)
      /\ SentOf(calls') = SentOf(calls) /\ \A j \in 1 .. Len(calls') : Kept(calls'[j])
  BY <1>1, CallGoesOn
<1>3. TagTypes' BY <1>2 DEF TagInv, TagTypes
<1>4. CallsKept' BY <1>2 DEF CallsKept
<1>5. Arrived' = Arrived BY DEF Arrived
<1>6. SentInv' BY <1>2, <1>5 DEF TagInv, SentInv
<1> QED BY <1>3, <1>4, <1>6 DEF TagInv

\* Whatever the model writes back, its call keeps its sentence; what the guards keep of
\* it is legal.
LEMMA InsertTagKeeps ==
  ASSUME TagInv, NEW i, InsertTag(i)
  PROVE  TagInv'
<1> DEFINE c == calls[i]
           a == c.answer
<1>1. calls \in Seq(TagCalls) BY DEF TagInv, TagTypes
<1>2. i \in 1 .. Len(calls) /\ c.result = <<>> BY <1>1 DEF InsertTag, Open
<1>3. c \in TagCalls BY <1>1, <1>2
<1>4. PICK t \in Tags, at \in 1 .. Len(a) + 1 : calls' = [calls EXCEPT ![i].answer = InsertAt(@, at, t)]
  BY DEF InsertTag
<1> DEFINE b == InsertAt(a, at, t)
           r == [c EXCEPT !.answer = b]
<1>5. a \in Seq(Symbols) BY <1>3 DEF TagCalls
<1>6. b \in Seq(Symbols)
  <2> DEFINE n == at - 1
             y == <<t>>
             p == SubSeq(a, 1, n)
             q == SubSeq(a, n + 1, Len(a))
  <2>1. n \in 0 .. Len(a) /\ n + 1 = at BY <1>5
  <2>2. t \in Symbols BY DEF Symbols
  <2>3. y \in Seq(Symbols)
    <3> HIDE DEF Symbols
    <3> QED BY <2>2
  <2>4. b = p \o y \o q BY <2>1 DEF InsertAt
  <2> HIDE DEF n, a
  <2>5. p \in Seq(Symbols) /\ q \in Seq(Symbols) BY <1>5, <2>1, CutInTwo
  <2> HIDE DEF p, q, y
  <2> DEFINE u == p \o y
  <2>6. u \in Seq(Symbols) BY <2>3, <2>5, ConcatIs
  <2> HIDE DEF u
  <2>7. u \o q \in Seq(Symbols) BY <2>5, <2>6, ConcatIs
  <2> QED BY <2>4, <2>7 DEF u
<1> HIDE DEF b
<1>7. r \in TagCalls /\ r.sentence = c.sentence /\ r.result = <<>>
  BY <1>2, <1>3, <1>6 DEF TagCalls
<1>8. Kept(r) BY <1>7 DEF Kept
<1>9. calls' = [calls EXCEPT ![i] = r] BY <1>1, <1>2, <1>4 DEF b
<1>10. UNCHANGED <<text, path, taken, buffer, ended>> BY DEF InsertTag
<1>11. r.sentence = calls[i].sentence BY <1>7
<1> HIDE DEF r
<1> QED BY <1>2, <1>7, <1>8, <1>9, <1>10, <1>11, CallStep

LEMMA LoseWordKeeps ==
  ASSUME TagInv, NEW i, LoseWord(i)
  PROVE  TagInv'
<1> DEFINE c == calls[i]
           a == c.answer
           b == Strip(Front(a))
           r == [c EXCEPT !.answer = b]
<1>1. calls \in Seq(TagCalls) BY DEF TagInv, TagTypes
<1>2. i \in 1 .. Len(calls) /\ c.result = <<>> /\ a # <<>> BY <1>1 DEF LoseWord, Open
<1>3. c \in TagCalls BY <1>1, <1>2
<1>4. calls' = [calls EXCEPT ![i].answer = Strip(Front(@))] BY DEF LoseWord
<1>5. a \in Seq(Symbols) BY <1>3 DEF TagCalls
<1>6. b \in Seq(Symbols)
  <2> DEFINE n == Len(a) - 1
             p == SubSeq(a, 1, n)
  <2>1. n \in 0 .. Len(a) BY <1>2, <1>5
  <2>2. Front(a) = p BY DEF Front
  <2> HIDE DEF n, a
  <2>3. p \in Seq(Symbols) BY <1>5, <2>1, PrefixIs
  <2> HIDE DEF p
  <2>4. Strip(p) \in Seq(Symbols) BY <2>3, StripIs
  <2> QED BY <2>2, <2>4
<1> HIDE DEF b
<1>7. r \in TagCalls /\ r.sentence = c.sentence /\ r.result = <<>>
  BY <1>2, <1>3, <1>6 DEF TagCalls
<1>8. Kept(r) BY <1>7 DEF Kept
<1>9. calls' = [calls EXCEPT ![i] = r] BY <1>1, <1>2, <1>4 DEF b
<1>10. UNCHANGED <<text, path, taken, buffer, ended>> BY DEF LoseWord
<1>11. r.sentence = calls[i].sentence BY <1>7
<1> HIDE DEF r
<1> QED BY <1>2, <1>7, <1>8, <1>9, <1>10, <1>11, CallStep

LEMMA AnsweredKeeps ==
  ASSUME TagInv, NEW i, Answered(i)
  PROVE  TagInv'
<1> DEFINE c == calls[i]
           b == ApplyExpressionTags(c)
           r == [c EXCEPT !.result = b]
<1>1. calls \in Seq(TagCalls) BY DEF TagInv, TagTypes
<1>2. i \in 1 .. Len(calls) /\ c.result = <<>> BY <1>1 DEF Answered, Open
<1>3. c \in TagCalls BY <1>1, <1>2
<1>4. calls' = [calls EXCEPT ![i].result = ApplyExpressionTags(calls[i])] BY DEF Answered
<1>5. c.sentence \in Seq(Plain) /\ c.answer \in Seq(Symbols) BY <1>3 DEF TagCalls
<1>6. b \in Seq(Symbols) /\ Legal(b, c.sentence)
  <2> HIDE DEF c
  <2> QED BY <1>5, ApplyIs
<1> HIDE DEF b
<1>7. r \in TagCalls /\ r.sentence = c.sentence /\ r.result = b BY <1>3, <1>6 DEF TagCalls
<1>8. Kept(r) BY <1>6, <1>7 DEF Kept
<1>9. calls' = [calls EXCEPT ![i] = r] BY <1>1, <1>2, <1>4 DEF b
<1>10. UNCHANGED <<text, path, taken, buffer, ended>> BY DEF Answered
<1>11. r.sentence = calls[i].sentence BY <1>7
<1> HIDE DEF r
<1> QED BY <1>2, <1>7, <1>8, <1>9, <1>10, <1>11, CallStep

LEMMA NotTaggedKeeps ==
  ASSUME TagInv, NEW i, NotTagged(i)
  PROVE  TagInv'
<1> DEFINE c == calls[i]
           b == c.sentence
           r == [c EXCEPT !.result = b]
<1>1. calls \in Seq(TagCalls) BY DEF TagInv, TagTypes
<1>2. i \in 1 .. Len(calls) BY <1>1 DEF NotTagged
<1>3. c \in TagCalls BY <1>1, <1>2
<1>4. calls' = [calls EXCEPT ![i].result = calls[i].sentence] BY DEF NotTagged
<1>5. b \in Seq(Plain) BY <1>3 DEF TagCalls
<1> HIDE DEF b
<1>6. b \in Seq(Symbols) /\ Legal(b, b) BY <1>5, PlainIs
<1>7. r \in TagCalls /\ r.sentence = b /\ r.result = b BY <1>3, <1>6 DEF TagCalls, b
<1>8. Kept(r) BY <1>6, <1>7 DEF Kept
<1>9. calls' = [calls EXCEPT ![i] = r] BY <1>1, <1>2, <1>4 DEF b
<1>10. UNCHANGED <<text, path, taken, buffer, ended>> BY DEF NotTagged
<1>11. r.sentence = calls[i].sentence BY <1>7 DEF b
<1> HIDE DEF r
<1> QED BY <1>2, <1>7, <1>8, <1>9, <1>10, <1>11, CallStep

\* A delta: the sentences it completes are scheduled, and the rest waits.
LEMMA DeltaKeeps ==
  ASSUME TagInv, NEW n \in 1 .. MaxText, Delta(n)
  PROVE  TagInv'
<1> DEFINE d == SubSeq(text, taken + 1, taken + n)
           u == buffer \o d
           cut == SplitCompleteSentences(u)
           q == cut.complete
           p == Arrived
           e == Eager(p)
<1>1. /\ text \in Seq(Plain) /\ taken \in 0 .. Len(text) /\ n \in Nat /\ taken + n <= Len(text)
      /\ path = "stream" /\ ended = "no" /\ taken' = taken + n /\ buffer' = cut.remainder
      /\ text' = text /\ path' = path /\ ended' = ended /\ Schedule(q)
      /\ buffer \in Seq(Plain)
  BY TextAssumption DEF TagInv, TagTypes, Delta
<1>2. p \in Seq(Plain) /\ d \in Seq(Plain) /\ Arrived' = p \o d
  <2>1. /\ SubSeq(text, 1, taken) \in Seq(Plain) /\ d \in Seq(Plain)
        /\ SubSeq(text, 1, taken + n) = SubSeq(text, 1, taken) \o d
    BY <1>1, ArrivedIs
  <2> QED BY <1>1, <2>1 DEF Arrived
<1>3. buffer = e.remainder /\ WordsOfEach(SentOf(calls)) = Said(e.complete)
  BY <1>1 DEF TagInv, SentInv
<1> HIDE DEF d, p
<1>4. u \in Seq(Plain) BY <1>1, <1>2, ConcatIs
<1> HIDE DEF u
<1>5. q \in Seq(Seq(Plain)) /\ cut.remainder \in Seq(Plain) BY <1>4, SentencesIs
<1>6. cut.remainder = Eager(u).remainder /\ Said(q) = Said(Eager(u).complete) BY <1>4, EagerSays
<1>7. /\ e.complete \in Seq(Seq(Plain))
      /\ Eager(p \o d) = [complete |-> e.complete \o Eager(e.remainder \o d).complete,
                          remainder |-> Eager(e.remainder \o d).remainder]
  BY <1>2, EagerConcat
<1>8. e.remainder \o d = u BY <1>3 DEF u
<1>9. Eager(u).complete \in Seq(Seq(Plain))
  <2>1. CutAfter(u, Places(u, Terminators)).complete \in Seq(Seq(Plain)) BY <1>4, CutWhole
  <2> QED BY <2>1 DEF Eager
<1>10. /\ calls' \in Seq(TagCalls) /\ CallsKept'
       /\ WordsOfEach(SentOf(calls')) = WordsOfEach(SentOf(calls)) \o Said(q)
  <2>1. calls \in Seq(TagCalls) /\ CallsKept BY DEF TagInv, TagTypes
  <2>2. Schedule(q) BY <1>1
  <2> HIDE DEF q
  <2> QED BY <1>5, <2>1, <2>2, ScheduledIs
<1> HIDE DEF q, cut
<1> DEFINE a == e.complete
           b == Eager(u).complete
<1>11. a \in Seq(Seq(Plain)) /\ b \in Seq(Seq(Plain)) BY <1>7, <1>9
<1>12. Eager(p \o d) = [complete |-> a \o b, remainder |-> Eager(u).remainder] BY <1>7, <1>8
<1>13. Said(a) = WordsOfEach(SentOf(calls)) /\ Said(q) = Said(b) BY <1>3, <1>6
<1> HIDE DEF a, b
<1>14. Said(a \o b) = Said(a) \o Said(b) BY <1>11, SaidConcat
<1>15. WordsOfEach(SentOf(calls')) = Said(a \o b) BY <1>10, <1>13, <1>14
<1>16. /\ buffer' = Eager(Arrived').remainder
       /\ WordsOfEach(SentOf(calls')) = Said(Eager(Arrived').complete)
  <2>1. Eager(Arrived').complete = a \o b /\ Eager(Arrived').remainder = Eager(u).remainder
    BY <1>2, <1>12
  <2> QED BY <1>1, <1>6, <1>15, <2>1
<1>17. TagTypes'
  <2>1. Len(text) \in Nat /\ taken \in Nat BY <1>1
  <2>2. taken' \in 0 .. Len(text') BY <1>1, <2>1
  <2> QED BY <1>1, <1>5, <1>10, <2>2 DEF TagTypes
<1>18. SentInv'
  <2> DEFINE ar == Arrived'
  <2>1. buffer' = Eager(ar).remainder /\ WordsOfEach(SentOf(calls')) = Said(Eager(ar).complete)
    BY <1>16
  <2> HIDE DEF ar
  <2>2. path' = "stream" /\ ended' = "no" BY <1>1
  <2> QED BY <2>1, <2>2 DEF SentInv, ar
<1> QED BY <1>10, <1>17, <1>18 DEF TagInv

\* The end of the stream: the rest is the last sentence, unless it was cut.
LEMMA EndReplyKeeps ==
  ASSUME TagInv, NEW truncated \in BOOLEAN, EndReply(truncated)
  PROVE  TagInv'
<1> DEFINE cut == SplitCompleteSentences(text)
           q == cut.complete
           b == cut.remainder
           said == WordsOfEach(SentOf(calls))
<1>1. /\ text \in Seq(Plain) /\ taken = Len(text) /\ path = "stream" /\ ended = "no"
      /\ ended' = (IF truncated THEN "truncated" ELSE "yes") /\ buffer' = <<>>
      /\ text' = text /\ path' = path /\ taken' = taken /\ calls \in Seq(TagCalls) /\ CallsKept
      /\ buffer \in Seq(Plain)
  BY DEF TagInv, TagTypes, EndReply
<1>2. Arrived = text
  <2>1. SubSeq(text, 1, Len(text)) = text BY <1>1
  <2> QED BY <1>1, <2>1 DEF Arrived
<1>3. buffer = Eager(text).remainder /\ said = Said(Eager(text).complete)
  BY <1>1, <1>2 DEF TagInv, SentInv
<1>4. b = Eager(text).remainder /\ Said(q) = Said(Eager(text).complete) BY <1>1, EagerSays
<1>5. buffer = b /\ said = Said(q) BY <1>3, <1>4
<1>6. q \in Seq(Seq(Plain)) /\ b \in Seq(Plain) BY <1>1, SentencesIs
<1>7. SentencesOf(text) = IF Strip(b) = <<>> THEN q ELSE Append(q, b) BY DEF SentencesOf
<1> HIDE DEF cut, said, q, b
<1>8. /\ TagTypes' /\ CallsKept'
      /\ WordsOfEach(SentOf(calls')) = IF truncated THEN Said(q) ELSE Said(SentencesOf(text))
  <2>0. buffer' \in Seq(Plain)
    <3>1. <<>> \in Seq(Plain) OBVIOUS
    <3> QED BY <1>1, <3>1, Zenon
  <2>1. CASE Strip(buffer) # <<>> /\ ~truncated
    <3> DEFINE l == <<buffer>>
               B == Seq(Plain)
    <3>1. Schedule(l) BY <2>1 DEF EndReply
    <3>2. l \in Seq(B) /\ q \in Seq(B) /\ b \in B /\ buffer \in B /\ l = Append(<<>>, b)
      <4>1. l \in Seq(B) /\ l = Append(<<>>, buffer)
        <5>1. buffer \in B BY <1>1
        <5> HIDE DEF B
        <5> QED BY <5>1
      <4> QED BY <1>1, <1>5, <1>6, <4>1
    <3> HIDE DEF l
    <3>3. /\ calls' \in Seq(TagCalls) /\ CallsKept'
          /\ WordsOfEach(SentOf(calls')) = WordsOfEach(SentOf(calls)) \o Said(l)
      BY <1>1, <3>1, <3>2, ScheduledIs
    <3>4. q \o l = Append(q, b)
      <4>1. l = <<b>> BY <1>5 DEF l
      <4> HIDE DEF B
      <4>2. q \o <<b>> = Append(q, b) BY <3>2
      <4> QED BY <4>1, <4>2
    <3>5. Said(q \o l) = Said(q) \o Said(l) BY <3>2, SaidConcat
    <3>6. SentencesOf(text) = Append(q, b) BY <1>5, <1>7, <2>1
    <3>7. TagTypes'
      <4>1. taken' \in 0 .. Len(text') BY <1>1
      <4> QED BY <1>1, <2>0, <3>3, <4>1 DEF TagTypes
    <3>8. WordsOfEach(SentOf(calls')) = Said(SentencesOf(text))
      <4>1. WordsOfEach(SentOf(calls)) = Said(q) BY <1>5 DEF said
      <4> QED BY <3>3, <3>4, <3>5, <3>6, <4>1
    <3> QED BY <2>1, <3>3, <3>7, <3>8
  <2>2. CASE ~(Strip(buffer) # <<>> /\ ~truncated)
    <3>1. calls' = calls BY <2>2 DEF EndReply
    <3>2. TagTypes'
      <4>1. taken' \in 0 .. Len(text') BY <1>1
      <4> QED BY <1>1, <2>0, <3>1, <4>1 DEF TagTypes
    <3>3. CallsKept' BY <1>1, <3>1 DEF CallsKept
    <3>4. WordsOfEach(SentOf(calls')) = Said(q) BY <1>5, <3>1 DEF said
    <3>5. ~truncated => SentencesOf(text) = q BY <1>5, <1>7, <2>2
    <3> QED BY <3>2, <3>3, <3>4, <3>5
  <2> QED BY <2>1, <2>2
<1>9. SentInv' BY <1>1, <1>8 DEF SentInv, q, cut
<1> QED BY <1>8, <1>9 DEF TagInv

\* A whole reply is sent sentence by sentence.
LEMMA TagReplyKeeps ==
  ASSUME TagInv, TagReplyBySentence
  PROVE  TagInv'
<1> DEFINE q == SentencesOf(text)
           prior(k) == BuildPriorContext(SubSeq(q, 1, k - 1))
           one(k) == Call(q[k], prior(k))
           B == Seq(Plain)
           M == Len(q)
<1>1. /\ text \in Seq(Plain) /\ path = "reply" /\ ended' = "yes" /\ taken' = Len(text) /\ buffer \in Seq(Plain)
      /\ text' = text /\ path' = path /\ buffer' = buffer
      /\ calls' = [k \in DOMAIN q |-> one(k)]
  BY DEF TagInv, TagTypes, TagReplyBySentence
<1>2. q \in Seq(B) BY <1>1, SentencesIs
<1> HIDE DEF q
<1>3. DOMAIN q = 1 .. M /\ M \in Nat /\ \A k \in 1 .. M : q[k] \in B
  <2> HIDE DEF B
  <2> QED BY <1>2
<1>4. ASSUME NEW k \in 1 .. M PROVE prior(k) \in B
  <2> DEFINE n == k - 1
             a == SubSeq(q, 1, n)
  <2>1. n \in 0 .. Len(q) BY <1>3
  <2> HIDE DEF n
  <2>2. a \in Seq(B)
    <3> HIDE DEF B
    <3> QED BY <1>2, <2>1, PrefixIs
  <2> HIDE DEF a
  <2>3. BuildPriorContext(a) \in Seq(Plain) BY <2>2, PriorIs
  <2> QED BY <2>3 DEF a, n
<1> HIDE DEF prior
<1>5. ASSUME NEW k \in 1 .. M
      PROVE  one(k) \in TagCalls /\ one(k).sentence = q[k] /\ Kept(one(k))
  <2> DEFINE y == q[k]
  <2>1. y \in Seq(Plain) /\ prior(k) \in Seq(Plain) BY <1>3, <1>4
  <2> HIDE DEF y
  <2>2. Strip(y) \in Seq(Plain) BY <2>1, StripIs
  <2> DEFINE z == Strip(y)
  <2>3. z \in Seq(Plain) BY <2>2
  <2> HIDE DEF z
  <2>4. z \in Seq(Symbols) BY <2>3, PlainIs
  <2>5. <<>> \in Seq(Symbols) OBVIOUS
  <2>6. one(k) = [sentence |-> y, prior |-> prior(k), answer |-> z, result |-> <<>>]
    BY DEF Call, z, y
  <2> HIDE DEF one
  <2> QED BY <2>1, <2>4, <2>5, <2>6 DEF TagCalls, Kept, y
<1> HIDE DEF one, TagCalls
<1>6. calls' \in Seq(TagCalls) /\ Len(calls') = M /\ \A k \in 1 .. M : calls'[k] = one(k)
  <2> DEFINE c == calls'
  <2>1. c = [k \in 1 .. M |-> one(k)] BY <1>1, <1>3
  <2>2. \A k \in 1 .. M : one(k) \in TagCalls BY <1>5
  <2> HIDE DEF M, c
  <2>3. c \in Seq(TagCalls) /\ Len(c) = M /\ \A k \in 1 .. M : c[k] = one(k) BY <1>3, <2>1, <2>2
  <2> QED BY <2>3 DEF c
<1>7. CallsKept' BY <1>5, <1>6 DEF CallsKept
<1>8. SentOf(calls') = q
  <2> DEFINE c == calls'
             t == SentOf(c)
  <2>1. c \in Seq(TagCalls) BY <1>6
  <2> HIDE DEF c
  <2>2. t \in Seq(B) /\ Len(t) = Len(c) /\ \A i \in 1 .. Len(c) : t[i] = c[i].sentence
    BY <2>1, SentIs
  <2> HIDE DEF t
  <2>3. Len(t) = M /\ \A i \in 1 .. M : t[i] = q[i] BY <1>5, <1>6, <2>2 DEF c
  <2>4. t = q
    <3>1. t \in Seq(B) BY <2>2
    <3> HIDE DEF B
    <3> QED BY <1>2, <2>3, <3>1, SameSeq
  <2> QED BY <2>4 DEF t, c
<1>9. TagTypes'
  <2>1. taken' \in 0 .. Len(text') BY <1>1
  <2> QED BY <1>1, <1>6, <2>1 DEF TagTypes
<1>10. SentInv' BY <1>1, <1>8 DEF SentInv, q
<1> QED BY <1>7, <1>9, <1>10 DEF TagInv

\* A whole text is sent as it is.
LEMMA TagWholeKeeps ==
  ASSUME TagInv, TagWholeText
  PROVE  TagInv'
<1> DEFINE c == Call(text, <<>>)
<1>1. /\ text \in Seq(Plain) /\ path = "whole" /\ ended' = "yes" /\ taken' = Len(text) /\ buffer \in Seq(Plain)
      /\ text' = text /\ path' = path /\ buffer' = buffer /\ calls' = <<c>>
  BY DEF TagInv, TagTypes, TagWholeText
<1>2. c \in TagCalls /\ c.sentence = text /\ Kept(c)
  <2>1. Strip(text) \in Seq(Plain) BY <1>1, StripIs
  <2> DEFINE z == Strip(text)
  <2>2. z \in Seq(Plain) BY <2>1
  <2> HIDE DEF z
  <2>3. z \in Seq(Symbols) BY <2>2, PlainIs
  <2>4. <<>> \in Seq(Symbols) /\ <<>> \in Seq(Plain) OBVIOUS
  <2>5. c = [sentence |-> text, prior |-> <<>>, answer |-> z, result |-> <<>>] BY DEF Call, z
  <2> HIDE DEF c
  <2> QED BY <1>1, <2>3, <2>4, <2>5 DEF TagCalls, Kept
<1> HIDE DEF c
<1>3. calls' \in Seq(TagCalls) /\ CallsKept' /\ SentOf(calls') = <<text>>
  <2> HIDE DEF TagCalls
  <2>1. calls' \in Seq(TagCalls) /\ Len(calls') = 1 /\ calls'[1] = c BY <1>1, <1>2
  <2>2. CallsKept' BY <1>2, <2>1 DEF CallsKept
  <2>3. SentOf(<<c>>) = <<text>> BY <1>2 DEF SentOf
  <2> QED BY <1>1, <2>1, <2>2, <2>3
<1>4. TagTypes'
  <2>1. taken' \in 0 .. Len(text') BY <1>1
  <2> QED BY <1>1, <1>3, <2>1 DEF TagTypes
<1>5. SentInv' BY <1>1, <1>3 DEF SentInv
<1> QED BY <1>3, <1>4, <1>5 DEF TagInv

\* Every step of the tagger and its callers keeps the invariant.
LEMMA TagStep == TagInv /\ [TagNext]_tagVars => TagInv'
<1> SUFFICES ASSUME TagInv, [TagNext]_tagVars PROVE TagInv' OBVIOUS
<1>1. CASE UNCHANGED tagVars
  BY <1>1 DEF tagVars, TagInv, TagTypes, CallsKept, SentInv, Arrived
<1>2. ASSUME NEW n \in 1 .. MaxText, Delta(n) PROVE TagInv' BY <1>2, DeltaKeeps
<1>3. ASSUME NEW truncated \in BOOLEAN, EndReply(truncated) PROVE TagInv' BY <1>3, EndReplyKeeps
<1>4. CASE TagReplyBySentence BY <1>4, TagReplyKeeps
<1>5. CASE TagWholeText BY <1>5, TagWholeKeeps
<1>6. ASSUME NEW i \in 1 .. MaxText, InsertTag(i) PROVE TagInv' BY <1>6, InsertTagKeeps
<1>7. ASSUME NEW i \in 1 .. MaxText, LoseWord(i) PROVE TagInv' BY <1>7, LoseWordKeeps
<1>8. ASSUME NEW i \in 1 .. MaxText, Answered(i) PROVE TagInv' BY <1>8, AnsweredKeeps
<1>9. ASSUME NEW i \in 1 .. MaxText, NotTagged(i) PROVE TagInv' BY <1>9, NotTaggedKeeps
<1> QED BY <1>1, <1>2, <1>3, <1>4, <1>5, <1>6, <1>7, <1>8, <1>9 DEF TagNext

\* The invariant says what TagsOnlyAdd asks for.
LEMMA TagsEnough == TagInv => TagsOnlyAdd
<1> SUFFICES ASSUME TagInv PROVE TagsOnlyAdd OBVIOUS
<1> DEFINE N == Len(calls)
           sent == SentOf(calls)
           res == [i \in DOMAIN calls |-> calls[i].result]
<1>1. /\ text \in Seq(Plain) /\ path \in {"stream", "reply", "whole"} /\ ended \in {"no", "yes", "truncated"}
      /\ calls \in Seq(TagCalls) /\ \A i \in 1 .. N : Kept(calls[i])
  BY DEF TagInv, TagTypes, CallsKept
<1>2. /\ sent \in Seq(Seq(Plain)) /\ Len(sent) = N
      /\ \A i \in 1 .. N : sent[i] = calls[i].sentence /\ calls[i] \in TagCalls
  BY <1>1, SentIs
<1>3. DOMAIN calls = 1 .. N /\ N \in Nat BY <1>1
<1>4. /\ res \in Seq(Seq(Symbols)) /\ Len(res) = N
      /\ \A i \in 1 .. N : res[i] = calls[i].result /\ res[i] \in Seq(Symbols)
  <2> DEFINE B == Seq(Symbols)
  <2>1. \A i \in 1 .. N : calls[i].result \in B BY <1>2 DEF TagCalls
  <2> HIDE DEF B, N
  <2>2. res \in Seq(B) /\ Len(res) = N /\ \A i \in 1 .. N : res[i] = calls[i].result /\ res[i] \in B
    BY <1>3, <2>1
  <2> QED BY <2>2 DEF B
<1>5. ASSUME NEW t, text \in Seq(Plain), t = SentencesOf(text) \/ t = SplitCompleteSentences(text).complete
      PROVE  t \in Seq(Seq(Plain)) BY <1>5, SentencesIs
<1>6. TagsLegal
  <2>1. ASSUME NEW i \in 1 .. N
        PROVE  LET r == calls[i].result IN
                 /\ Cardinality(Places(r, Breaks)) <= 1
                 /\ \A j \in DOMAIN r : r[j] \in Tags =>
                      r[j] \notin DOMAIN Malformed \cup {"[ ]"} /\ HasTaggableContent(SubSeq(r, j, Len(r)))
    <3> DEFINE r == calls[i].result
    <3>1. r \in Seq(Symbols) /\ (r = <<>> \/ (Backed(r) /\ OneBreak(r) /\ WellFormed(r)))
      BY <1>1, <1>4 DEF Kept, Legal
    <3> HIDE DEF r
    <3>2. Backed(r) /\ OneBreak(r) /\ WellFormed(r)
      <4>1. r = <<>> => Len(r) = 0 OBVIOUS
      <4> QED BY <3>1, <4>1 DEF Backed, OneBreak, WellFormed
    <3>3. /\ Cardinality(Places(r, Breaks)) <= 1
          /\ \A j \in DOMAIN r : r[j] \in Tags =>
               r[j] \notin DOMAIN Malformed \cup {"[ ]"} /\ HasTaggableContent(SubSeq(r, j, Len(r)))
      BY <3>1, <3>2, LegalIs
    <3> QED BY <3>3 DEF r
  <2> QED BY <1>3, <2>1 DEF TagsLegal
<1>7. SameSentences
  <2> SUFFICES ASSUME path = "stream", ended = "yes"
               PROVE  [i \in DOMAIN calls |-> WordsOf(calls[i].sentence)] = WordsOfEach(Taggable(SentencesOf(text)))
    BY DEF SameSentences, WordsOfEach
  <2>1. WordsOfEach(sent) = Said(SentencesOf(text)) BY DEF TagInv, SentInv
  <2>2. DOMAIN sent = 1 .. N
    <3>1. sent \in Seq(Seq(Plain)) /\ Len(sent) = N BY <1>2
    <3> HIDE DEF sent
    <3> QED BY <3>1
  <2>3. WordsOfEach(sent) = [i \in DOMAIN calls |-> WordsOf(calls[i].sentence)]
    <3>1. \A i \in 1 .. N : sent[i] = calls[i].sentence BY <1>2
    <3> HIDE DEF sent
    <3> QED BY <1>3, <2>2, <3>1 DEF WordsOfEach
  <2> QED BY <2>1, <2>3 DEF Said
<1>8. WordsKept
  <2> SUFFICES ASSUME Done
               PROVE  WordsOf(Result) = WordsOf(Join(IF ended = "truncated"
                                                     THEN SplitCompleteSentences(text).complete ELSE SentencesOf(text)))
    BY DEF WordsKept
  <2> DEFINE said == IF ended = "truncated" THEN SplitCompleteSentences(text).complete ELSE SentencesOf(text)
             j == Join(res)
  <2>1. said \in Seq(Seq(Plain)) BY <1>1, <1>5
  <2>2. ended # "no" /\ \A i \in 1 .. N : calls[i].result # <<>> BY <1>3 DEF Done
  <2>3. \A i \in 1 .. N : WordsOf(res[i]) = WordsOf(sent[i])
    BY <1>1, <1>2, <1>4, <2>2 DEF Kept, Legal
  <2>4. WordsOfEach(res) = WordsOfEach(sent)
    <3>1. DOMAIN sent = 1 .. N /\ DOMAIN res = 1 .. N
      <4>1. sent \in Seq(Seq(Plain)) /\ Len(sent) = N BY <1>2
      <4>2. res \in Seq(Seq(Symbols)) /\ Len(res) = N BY <1>4
      <4> HIDE DEF sent, res
      <4> QED BY <4>1, <4>2
    <3> HIDE DEF sent, res
    <3> QED BY <2>3, <3>1 DEF WordsOfEach
  <2>5. WordsOf(j) = Join(WordsOfEach(sent)) /\ j \in Seq(Symbols)
    <3> DEFINE e == <<>>
    <3>1. e \in Seq(Symbols) OBVIOUS
    <3>2. res \in Seq(Seq(Symbols)) BY <1>4
    <3> HIDE DEF e, res
    <3>3. Join(res) \in Seq(Symbols) BY <3>1, <3>2, JoinAppend
    <3>4. WordsOf(Join(res)) = Join(WordsOfEach(res)) BY <3>2, JoinWords
    <3> QED BY <2>4, <3>3, <3>4
  <2>6. WordsOf(Result) = WordsOf(j)
    <3>1. Result = IF path = "reply" /\ Len(calls) > 1 THEN SuppressRepeatedLeadingTags(j) ELSE j
      BY DEF Result
    <3> HIDE DEF j
    <3>2. Thins(SuppressRepeatedLeadingTags(j), j) BY <2>5, SuppressIs
    <3> QED BY <3>1, <3>2 DEF Thins
  <2>7. Join(WordsOfEach(sent)) = WordsOf(Join(said))
    <3>1. CASE path = "stream"
      <4>1. WordsOfEach(sent) = Said(said) BY <1>1, <2>2, <3>1 DEF TagInv, SentInv
      <4> HIDE DEF said, sent
      <4>2. WordsOf(Join(said)) = Join(Said(said)) BY <2>1, JoinWords
      <4> QED BY <4>1, <4>2
    <3>2. CASE path = "reply"
      <4>1. sent = said BY <2>2, <3>2 DEF TagInv, SentInv
      <4> HIDE DEF said, sent
      <4>2. WordsOf(Join(said)) = Join(WordsOfEach(said)) BY <2>1, JoinWords
      <4> QED BY <4>1, <4>2
    <3>3. CASE path = "whole"
      <4>1. sent = <<text>> /\ said = SentencesOf(text) BY <2>2, <3>3 DEF TagInv, SentInv
      <4>2. WordsOf(Join(said)) = WordsOf(text)
        <5>1. Thins(Join(SentencesOf(text)), text) BY <1>1, SentencesIs
        <5> QED BY <4>1, <5>1 DEF Thins
      <4>3. WordsOf(Join(sent)) = Join(WordsOfEach(sent))
        <5>1. sent \in Seq(Seq(Plain)) BY <1>2
        <5> HIDE DEF sent
        <5> QED BY <5>1, JoinWords
      <4>4. Join(<<text>>) = text
        <5> DEFINE e == <<>>
                   B == Seq(Plain)
        <5>1. e \in Seq(B) /\ Join(e) = e /\ text \in B
          <6>1. e \in Seq(B) OBVIOUS
          <6>2. Join(<<>>) = <<>> BY DEF Join, FlattenSeq
          <6> QED BY <1>1, <6>1, <6>2
        <5>2. Append(e, text) = <<text>> BY <1>1
        <5> HIDE DEF e, B
        <5>3. Join(Append(e, text)) = Join(e) \o text BY <5>1, JoinAppend DEF B
        <5>4. <<>> \o text = text BY <1>1
        <5> QED BY <5>1, <5>2, <5>3, <5>4 DEF e
      <4> QED BY <4>1, <4>2, <4>3, <4>4
    <3> QED BY <1>1, <3>1, <3>2, <3>3
  <2> QED BY <2>5, <2>6, <2>7
<1> QED BY <1>6, <1>7, <1>8 DEF TagsOnlyAdd, WordsInTheirSentences

\* Whatever the model answers, the tagger only adds: the words stay, in their
\* sentences, and the tags between them are legal.
THEOREM TagsAreAdded == TagSpec => []TagsOnlyAdd
<1>1. TagInit => TagInv BY TagStarts
<1>2. TagInv /\ [TagNext]_tagVars => TagInv' BY TagStep
<1>3. TagInv => TagsOnlyAdd BY TagsEnough
<1> QED BY <1>1, <1>2, <1>3, PTL DEF TagSpec
=============================================================================
