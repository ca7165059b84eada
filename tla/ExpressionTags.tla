--------------------------- MODULE ExpressionTags ---------------------------
(* The expression tagger: a reply is split into sentences, a model is asked to *)
(* insert speech tags into each, and guards decide what of its answer is kept  *)
(* (app/tts/expression_tagger.py). The callers are the voice pipeline, which   *)
(* sees the reply piece by piece (expression_tagger_processor.py), the text    *)
(* chat, which joins the tagged sentences again (soul/runtime.py), and the     *)
(* offline scripts, which send the whole reply. A text is a sequence of        *)
(* symbols: words, a terminator, a pause, a line break, and tags.              *)
EXTENDS Integers, Sequences, SequencesExt, FiniteSetsExt

CONSTANTS
  Word,      \* the words, one for each place of a reply
  MaxText,   \* bound: symbols of a reply
  MaxTagged, \* bound: symbols of a reply the model inserts tags into
  MaxTags,   \* bound: tags it inserts
  CharCap    \* prior_context_char_cap, in symbols

VARIABLES
  text,   \* the reply
  path,   \* who asks for the tags
  taken,  \* symbols of it that have arrived
  buffer, \* _buffer
  calls,  \* the sentences that were sent to the model, in order
  ended   \* the reply has ended, and whether at the token cap

tagVars == <<text, path, taken, buffer, calls, ended>>

Terminators == {".", "\n"}       \* SENTENCE_TERMINATORS, without the ellipsis
Pauses      == {".", ",", "\n"}  \* _PAUSE_PUNCTUATION; "," stands for the ellipsis too
Blank       == {"\n"}            \* whitespace
Breaks      == {"[break]"}
Exempt      == Breaks \cup {"[sighing]"} \* _DEDUP_EXEMPT_TAG_INNERS
Malformed   == [t \in {"[ sad ]", "[ break]"} |-> IF t = "[ sad ]" THEN "[sad]" ELSE "[break]"]
Tags        == Exempt \cup {"[sad]", "[ ]"} \cup DOMAIN Malformed

ASSUME TextAssumption ==
  /\ {MaxText, MaxTagged, MaxTags, CharCap} \subseteq Nat
  /\ Word \in Seq(STRING) /\ MaxText <= Len(Word)
  /\ ToSet(Word) \cap (Pauses \cup Tags) = {}

Texts == UNION {{[i \in 1 .. n |-> IF k[i] = "word" THEN Word[i] ELSE k[i]] :
                   k \in [1 .. n -> {"word"} \cup Pauses]} : n \in 1 .. MaxText}

Places(s, symbols) == {i \in DOMAIN s : s[i] \in symbols}

\* What is left of s at these places.
At(s, places) ==
  LET at[n \in 0 .. Len(s)] ==
        IF n = 0 THEN <<>> ELSE IF n \in places THEN Append(at[n - 1], s[n]) ELSE at[n - 1]
  IN at[Len(s)]

WordsOf(s) == At(s, Places(s, ToSet(Word)))
Join(parts) == FlattenSeq(parts)
Strip(s) ==
  LET solid == DOMAIN s \ Places(s, Blank)
  IN IF solid = {} THEN <<>> ELSE SubSeq(s, Min(solid), Max(solid))
RStrip(s) == SubSeq(s, 1, Max((DOMAIN s \ Places(s, Blank)) \cup {0}))

-----------------------------------------------------------------------------
(* The guards *)
HasTaggableContent(s) == Places(s, ToSet(Word)) # {}
Taggable(sentences) ==
  At(sentences, {k \in DOMAIN sentences : HasTaggableContent(sentences[k])})

Wording(s) == At(s, DOMAIN s \ Places(s, Tags \cup Blank))

PreservesWording(s, t) == Wording(s) = Wording(t)

StripDanglingTags(s) ==
  LET kept == {i \in DOMAIN s : s[i] \in Tags => HasTaggableContent(SubSeq(s, i, Len(s)))}
  IN IF kept = DOMAIN s THEN s ELSE RStrip(At(s, kept))

NormalizeMalformedTags(s) ==
  LET kept == At(s, DOMAIN s \ Places(s, {"[ ]"}))
  IN [i \in DOMAIN kept |-> IF kept[i] \in DOMAIN Malformed THEN Malformed[kept[i]] ELSE kept[i]]

\* What a tag is glued to when the white space around it is left out.
Glued(s, i) ==
  LET before == {j \in 1 .. i - 1 : s[j] \notin Blank}
      after  == {j \in i + 1 .. Len(s) : s[j] \notin Blank}
  IN (IF before = {} THEN {} ELSE {s[Max(before)]}) \cup (IF after = {} THEN {} ELSE {s[Min(after)]})

NormalizeBreakTags(s) ==
  LET breaks == Places(s, Breaks)
      useful == {i \in breaks : Glued(s, i) \cap Pauses = {}}
      kept   == IF useful = {} THEN {} ELSE {Min(useful)}
  IN At(s, (DOMAIN s \ breaks) \cup kept)

NormalizeTagPlacement(s) == NormalizeBreakTags(NormalizeMalformedTags(s))

-----------------------------------------------------------------------------
(* Sentences *)

\* The sentences of s when one ends at each of these places, and what is left.
CutAfter(s, ends) ==
  LET cut[n \in 0 .. Len(s)] ==
        IF n = 0 THEN [complete |-> <<>>, remainder |-> <<>>]
        ELSE LET sentence == Append(cut[n - 1].remainder, s[n])
             IN IF n \in ends
                THEN [complete |-> Append(cut[n - 1].complete, sentence), remainder |-> <<>>]
                ELSE [complete |-> cut[n - 1].complete, remainder |-> sentence]
  IN cut[Len(s)]

\* Mutant: every terminator ends a sentence of its own, and the last one the text.
CutAtEach(s) ==
  [CutAfter(s, Places(s, Terminators)) EXCEPT !.remainder = <<>>]

\* A sentence ends with a run of terminators.
SplitCompleteSentences(s) ==
  CutAfter(s, {i \in Places(s, Terminators) : i = Len(s) \/ s[i + 1] \notin Terminators})

SentencesOf(s) ==
  LET cut == SplitCompleteSentences(s)
  IN IF Strip(cut.remainder) = <<>> THEN cut.complete ELSE Append(cut.complete, cut.remainder)

\* The tag a sentence leads with is removed when the sentence before it led with
\* the same one.
SuppressRepeatedLeadingTags(s) ==
  LET sentences == SentencesOf(s)
      moods(k) == Places(sentences[k], Tags \ Exempt)
      lead(k)  == IF k = 0 THEN "none"
                  ELSE IF moods(k) = {} THEN "none" ELSE sentences[k][Min(moods(k))]
  IN IF Len(sentences) <= 1 THEN s
     ELSE Join([k \in DOMAIN sentences |->
                  IF lead(k) # "none" /\ lead(k) = lead(k - 1)
                  THEN At(sentences[k], DOMAIN sentences[k] \ {Min(moods(k))})
                  ELSE sentences[k]])

\* The latest sentences, up to the one that reaches the cap.
BuildPriorContext(spoken) ==
  LET n == Len(spoken)
      tail(k) == Join(SubSeq(spoken, k, n))
      long == {k \in 1 .. n : Len(tail(k)) >= CharCap}
  IN IF Len(Join(spoken)) <= CharCap THEN Join(spoken)
     ELSE tail(IF long = {} THEN 1 ELSE Max(long))

-----------------------------------------------------------------------------
(* One call of the model. A failed, empty or rewritten answer leaves the       *)
(* sentence as it was.                                                         *)
Call(sentence, prior) ==
  [sentence |-> sentence, prior |-> prior, answer |-> Strip(sentence), result |-> <<>>]

ApplyExpressionTags(c) ==
  IF c.answer = <<>> \/ ~PreservesWording(Strip(c.sentence), c.answer) THEN c.sentence
  ELSE LET guarded == NormalizeTagPlacement(StripDanglingTags(c.answer))
       IN IF path = "whole" THEN SuppressRepeatedLeadingTags(guarded) ELSE guarded

Open(i) == /\ i \in DOMAIN calls /\ calls[i].result = <<>>
           /\ HasTaggableContent(calls[i].sentence) \/ path = "whole"
Inserted == Cardinality(Places(Join([i \in DOMAIN calls |-> calls[i].answer]), Tags))

\* The model writes the text back with tags in it, ...
InsertTag(i) ==
  /\ Open(i) /\ Inserted < MaxTags /\ Len(text) <= MaxTagged
  /\ \E t \in Tags, at \in 1 .. Len(calls[i].answer) + 1 :
       calls' = [calls EXCEPT ![i].answer = InsertAt(@, at, t)]
  /\ UNCHANGED <<text, path, taken, buffer, ended>>

\* ... or does not keep to it, or stops early.
LoseWord(i) ==
  /\ Open(i) /\ calls[i].answer # <<>>
  /\ Wording(calls[i].answer) = Wording(calls[i].sentence)
  /\ calls' = [calls EXCEPT ![i].answer = Strip(Front(@))]
  /\ UNCHANGED <<text, path, taken, buffer, ended>>

Answered(i) ==
  /\ Open(i)
  /\ calls' = [calls EXCEPT ![i].result = ApplyExpressionTags(calls[i])]
  /\ UNCHANGED <<text, path, taken, buffer, ended>>

\* The first sentence, a missing mood, and a fragment without a word pass as they
\* are, like a call that fails.
NotTagged(i) ==
  /\ i \in DOMAIN calls /\ calls[i].result = <<>>
  /\ calls[i].answer = Strip(calls[i].sentence)
  /\ calls' = [calls EXCEPT ![i].result = calls[i].sentence]
  /\ UNCHANGED <<text, path, taken, buffer, ended>>

-----------------------------------------------------------------------------
(* The callers *)
TagInit ==
  /\ text \in Texts /\ path \in {"stream", "reply", "whole"}
  /\ taken = 0 /\ buffer = <<>> /\ calls = <<>> /\ ended = "no"

\* _schedule, for each of the sentences: without a word in it, it is dropped.
Schedule(sentences) ==
  LET spoken == [i \in DOMAIN calls |-> calls[i].sentence]
      new    == Taggable(sentences)
  IN calls' = calls \o [k \in DOMAIN new |->
                          Call(new[k], BuildPriorContext(spoken \o SubSeq(new, 1, k - 1)))]

Delta(n) ==
  /\ path = "stream" /\ ended = "no" /\ taken + n <= Len(text)
  /\ taken' = taken + n
  /\ LET cut == SplitCompleteSentences(buffer \o SubSeq(text, taken + 1, taken + n))
     IN Schedule(cut.complete) /\ buffer' = cut.remainder
  /\ UNCHANGED <<text, path, ended>>

\* The unfinished sentence of a reply that was cut at the cap is dropped.
EndReply(truncated) ==
  /\ path = "stream" /\ ended = "no" /\ taken = Len(text)
  /\ ended' = IF truncated THEN "truncated" ELSE "yes"
  /\ buffer' = <<>>
  /\ IF Strip(buffer) # <<>> /\ ~truncated THEN Schedule(<<buffer>>) ELSE UNCHANGED calls
  /\ UNCHANGED <<text, path, taken>>

TagReplyBySentence ==
  /\ path = "reply" /\ ended = "no"
  /\ LET sentences == SentencesOf(text)
     IN calls' = [k \in DOMAIN sentences |->
                    Call(sentences[k], BuildPriorContext(SubSeq(sentences, 1, k - 1)))]
  /\ ended' = "yes" /\ taken' = Len(text)
  /\ UNCHANGED <<text, path, buffer>>

TagWholeText ==
  /\ path = "whole" /\ ended = "no" /\ Strip(text) # <<>>
  /\ calls' = <<Call(text, <<>>)>>
  /\ ended' = "yes" /\ taken' = Len(text)
  /\ UNCHANGED <<text, path, buffer>>

TagNext ==
  \/ \E n \in 1 .. MaxText : Delta(n)
  \/ \E truncated \in BOOLEAN : EndReply(truncated)
  \/ TagReplyBySentence \/ TagWholeText
  \/ \E i \in 1 .. MaxText : InsertTag(i) \/ LoseWord(i) \/ Answered(i) \/ NotTagged(i)

TagSpec == TagInit /\ [][TagNext]_tagVars

Done == ended # "no" /\ \A i \in DOMAIN calls : calls[i].result # <<>>

\* What is spoken or stored in the end.
Result ==
  LET joined == Join([i \in DOMAIN calls |-> calls[i].result])
  IN IF path = "reply" /\ Len(calls) > 1 THEN SuppressRepeatedLeadingTags(joined) ELSE joined

-----------------------------------------------------------------------------
\* Whatever the model answers, the words of the reply are spoken in their order:
\* all of them, or all complete sentences of a reply that was cut at the cap.
\* Only runs of punctuation without a word may be missing.
WordsKept ==
  Done => LET whole == SentencesOf(text)
              said  == IF ended = "truncated" THEN SplitCompleteSentences(text).complete ELSE whole
          IN WordsOf(Result) = WordsOf(Join(said))

\* However the deltas cut the reply, the streamed sentences have the words of
\* those the whole text has, one by one.
SameSentences ==
  (path = "stream" /\ ended = "yes") =>
     LET whole == Taggable(SentencesOf(text))
     IN [i \in DOMAIN calls |-> WordsOf(calls[i].sentence)] = [i \in DOMAIN whole |-> WordsOf(whole[i])]

\* Both: the words are kept, and each stays in its sentence.
WordsInTheirSentences == WordsKept /\ SameSentences

\* No tag without a word behind it, no malformed tag and no second break of a
\* call reaches the synthesizer.
TagsLegal ==
  \A i \in DOMAIN calls :
    LET r == calls[i].result IN
      /\ Cardinality(Places(r, Breaks)) <= 1
      /\ \A j \in DOMAIN r : r[j] \in Tags =>
           r[j] \notin DOMAIN Malformed \cup {"[ ]"} /\ HasTaggableContent(SubSeq(r, j, Len(r)))

\* The tagger only adds, whatever its model answers: every word is spoken in its
\* sentence and in its order, and what stands between them is legal.
TagsOnlyAdd == WordsInTheirSentences /\ TagsLegal
=============================================================================
