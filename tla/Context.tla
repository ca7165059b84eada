------------------------------- MODULE Context -------------------------------
(* The context of one model call (memory/context_builder.py): the memories that *)
(* are chosen and the ones their links drag in, and the sections of the system  *)
(* message packed into what the token budget leaves for them. Texts are their   *)
(* lengths in characters.                                                       *)
EXTENDS Integers, Sequences, SequencesExt, FiniteSets, FiniteSetsExt

CONSTANTS
  Stored,          \* bound: memories, named by their rank for the question asked
  MaxMemories,     \* budget.max_memories_per_turn
  MaxInputTokens,  \* budget.max_input_tokens_per_turn
  MaxUserTokens,   \* budget.max_user_input_tokens
  MinMemoryBudget, \* 256 in the code
  Lengths,         \* bound: lengths of a section
  MaxSections,     \* bound: sections of the system message
  Inputs           \* bound: lengths of the user's message and of a replayed row

ASSUME ContextAssumption ==
  /\ {Stored, MaxMemories, MaxInputTokens, MaxUserTokens, MinMemoryBudget, MaxSections} \subseteq Nat
  /\ Lengths \subseteq Nat /\ Inputs \subseteq Nat

VARIABLES
  ask,  \* what the store and the caller hold
  built \* the BuiltContext

contextVars == <<ask, built>>

Suffix   == 13 \* _TRUNCATION_SUFFIX
Protocol == 4  \* OUTPUT_PROTOCOL, far longer in the code
Trailer  == 3  \* _TRAILER_REMINDER
Language == {0, 12} \* the instruction to answer in another language, if any
Separator == 2

\* estimate_token_count.
Tokens(length) == IF length = 0 THEN 0 ELSE Max({1, length \div 3})

\* The sums of the first n numbers.
Sums(numbers) ==
  LET sum[n \in 0 .. Len(numbers)] == IF n = 0 THEN 0 ELSE sum[n - 1] + numbers[n]
  IN sum
SumOf(numbers) == Sums(numbers)[Len(numbers)]

TokensOf(lengths) == SumOf([i \in DOMAIN lengths |-> Tokens(lengths[i])])

-----------------------------------------------------------------------------
(* Memories *)
NotBuilt == [chosen |-> <<>>, sections |-> <<>>, tokens |-> 0]

\* The memories that are not expired, best first.
BestOf(memories) ==
  LET best[n \in 0 .. Stored] ==
        IF n = 0 THEN <<>> ELSE IF n \in memories THEN Append(best[n - 1], n) ELSE best[n - 1]
  IN best
Ranked(memories) == BestOf(memories)[Stored]
RankMemories == Ranked(1 .. Stored \ ask.expired)

Selected == SubSeq(RankMemories, 1, Min({MaxMemories, Len(RankMemories)}))

LinkExtraCap == Max({2, MaxMemories \div 2})

\* One hop from memory m: what it is linked to and has not been chosen, up to the cap.
Hop(m, extra) ==
  LET new == Ranked((ask.links[m] \ ToSet(Selected \o extra)) \ ask.expired)
  IN extra \o SubSeq(new, 1, Min({Len(new), LinkExtraCap - Len(extra)}))

\* From each selected memory, in order.
Hops ==
  LET extra[n \in 0 .. Len(Selected)] ==
        IF n = 0 THEN <<>> ELSE Hop(Selected[n], extra[n - 1])
  IN extra
LinkedExtra == Hops[Len(Selected)]

-----------------------------------------------------------------------------
(* Sections *)

\* The blocks of the system message, of which only the lengths matter: the persona
\* first, the note against fabrication last.
Blocks == UNION {[1 .. n -> Lengths] : n \in 2 .. MaxSections}

TruncateUserInput(length) ==
  IF MaxUserTokens = 0 \/ Tokens(length) <= MaxUserTokens THEN length
  ELSE MaxUserTokens * 3 + Suffix

\* The sections up to the first one that does not fit.
PackSections(lengths, budget) ==
  LET fits == {n \in 0 .. Len(lengths) : TokensOf(SubSeq(lengths, 1, n)) <= budget}
  IN SubSeq(lengths, 1, Max(fits))

\* A replayed row is counted with its role, "user: ".
Reserved == Tokens(TruncateUserInput(ask.user)) + TokensOf([i \in DOMAIN ask.raw |-> ask.raw[i] + 6])

\* Mutant: the answer's language is not paid for.
MemoryBudgetWithoutLanguage ==
  Max({MinMemoryBudget, MaxInputTokens - Reserved - Tokens(Protocol) - Tokens(Trailer)})

MemoryBudget ==
  Max({MinMemoryBudget,
       MaxInputTokens - Reserved - Tokens(Protocol) - Tokens(Trailer) - Tokens(ask.language)})

BuildProviderContext ==
  /\ built = NotBuilt
  /\ LET packed  == PackSections(ask.sections, MemoryBudget)
         system  == packed \o <<Protocol>>
                      \o (IF ask.language = 0 THEN <<>> ELSE <<ask.language>>) \o <<Trailer>>
         message == SumOf(system) + Separator * (Len(system) - 1)
     IN built' = [chosen |-> Selected \o LinkedExtra, sections |-> packed,
                  tokens |-> TokensOf(<<message>> \o ask.raw \o <<TruncateUserInput(ask.user)>>)]
  /\ UNCHANGED ask

Nothing == [expired |-> {}, links |-> [m \in 1 .. Stored |-> {}], sections |-> <<>>,
            raw |-> <<>>, user |-> 1, language |-> 0]

\* Links go both ways (memory_links).
ContextInit ==
  /\ built = NotBuilt
  /\ \/ \E expired \in SUBSET (1 .. Stored), pairs \in SUBSET kSubset(2, 1 .. Stored) :
          ask = [Nothing EXCEPT !.expired = expired,
                   !.links = [m \in 1 .. Stored |-> {k \in 1 .. Stored \ {m} : {k, m} \in pairs}]]
     \/ \E sections \in Blocks, raw \in BoundedSeq(Inputs, 2), user \in Inputs, language \in Language :
          ask = [Nothing EXCEPT !.sections = sections, !.raw = raw, !.user = user,
                                !.language = language]

ContextNext == BuildProviderContext
ContextSpec == ContextInit /\ [][ContextNext]_contextVars

-----------------------------------------------------------------------------
\* Links add to the chosen memories and replace none: the best ones come first,
\* what follows is live and linked to one of them, at most LinkExtraCap memories,
\* each once; one that is linked and missing was kept out by the cap alone.
LinksOnlyAdd ==
  built # NotBuilt =>
    LET extra == {built.chosen[i] : i \in Len(Selected) + 1 .. Len(built.chosen)}
        near  == (UNION {ask.links[m] : m \in ToSet(Selected)}) \ (ToSet(Selected) \cup ask.expired)
    IN /\ IsPrefix(Selected, built.chosen)
       /\ Cardinality(ToSet(built.chosen)) = Len(built.chosen)
       /\ extra \subseteq near /\ Cardinality(extra) <= LinkExtraCap
       /\ near # extra => Cardinality(extra) = LinkExtraCap

\* The note that what is above is all the companion remembers is sent only below
\* all of it: it never disowns a memory or a summary that the budget cut off.
NoteCoversAll ==
  (built # NotBuilt /\ built.sections # <<>>) =>
     /\ IsPrefix(built.sections, ask.sections)
     /\ Len(built.sections) < Len(ask.sections) =>
          TokensOf(built.sections) + Tokens(ask.sections[Len(built.sections) + 1]) > MemoryBudget

\* What is sent stays within the input budget, but for the rounding of every part
\* of the system message, unless the floor for the memories was taken.
WithinBudgetButRounding ==
  built # NotBuilt =>
     \/ MemoryBudget = MinMemoryBudget
     \/ 3 * built.tokens < 3 * MaxInputTokens + 4 * (Len(built.sections) + 3)

\* What build_provider_context packs: linked memories cost no chosen one its place, the
\* system message stays within its budget but for the rounding of each section and
\* the floor of the memories, and it disowns nothing that the budget cut off.
PackedHonestly == LinksOnlyAdd /\ NoteCoversAll /\ WithinBudgetButRounding
=============================================================================
