------------------------------- MODULE Memories --------------------------------
(***************************************************************************)
(* Long-term memories and the links between them                           *)
(* (backend/app/memory/_store_memories.py, write_policy.py and the jobs of *)
(* backend/app/reflection/jobs.py).                                        *)
(*                                                                         *)
(* Four writers share the two tables: turns (a fact of the turn updates    *)
(* the memory it nearly duplicates or becomes a new one), the REST API,    *)
(* the consolidation and linking jobs, and the impression job.  Every      *)
(* store call is a connection of its own, and update_memory is two: it     *)
(* reads the row and then writes every column of it back.                  *)
(*                                                                         *)
(* A content is a name.  Which contents the code takes for the same fact   *)
(* said again (Similar) and which it links (Related) are relations of any  *)
(* kind: both count common tokens and neither is transitive.  Fewer        *)
(* memories exist than a listing returns.                                  *)
(***************************************************************************)
EXTENDS Naturals, FiniteSets

CONSTANTS
  Workers,
  FactTypes,  \* schema.FACTUAL_MEMORY_TYPES
  Impression, \* the type relationship_state, which is not a factual one
  Topics,     \* the contents
  Similar,    \* one contains the other, or they share two thirds of the tokens
              \* of the one that has fewer, and two at least
  Related,    \* they share a quarter of those tokens, and two at least
  Keep,       \* an argument of update_memory that is None
  MaxId       \* bound: memories ever created

ASSUME TypesAssumption == Impression \notin FactTypes
ASSUME BoundAssumption == MaxId \in Nat
ASSUME SimilarAssumption == Similar \subseteq Topics \X Topics
ASSUME RelatedAssumption == Related \subseteq Topics \X Topics

VARIABLES
  memories, \* the rows by id
  nextId,   \* AUTOINCREMENT: ids are not used again
  links,    \* memory_links, one pair for each direction
  pc,       \* what each worker does next
  who,      \* on whose behalf
  target,   \* the row it updates
  draft,    \* what it is about to change in a row, then the row to be written
  pairs,    \* the pairs a linking job has still to link
  stale     \* history: rows it decided on have been rewritten since, or others of
            \* the type stored

worker == <<pc, who, target, draft, pairs>>
vars == <<memories, nextId, links, pc, who, target, draft, pairs, stale>>

Types == FactTypes \cup {Impression}
Importance == {1, 2}

\* None is no value of a field.
ASSUME KeepAssumption == Keep \notin Topics /\ Keep \notin Importance /\ Keep \notin BOOLEAN

Row == [type : Types, topic : Topics, importance : Importance, expired : BOOLEAN]
\* The arguments of update_memory; the type is the row's.
Patch == [type : {Keep}, topic : Topics \cup {Keep}, importance : Importance \cup {Keep},
          expired : BOOLEAN \cup {Keep}]
NoChange == [type |-> Keep, topic |-> Keep, importance |-> Keep, expired |-> Keep]

Ids == DOMAIN memories
Location == {"idle", "create", "get", "write", "consolidate", "link"}
Parties == {"nobody", "turn", "api", "consolidate", "link", "impression"}

TypeOK ==
  /\ nextId \in 1 .. MaxId + 1
  /\ Ids \subseteq 1 .. nextId - 1
  /\ memories \in [Ids -> Row]
  /\ links \subseteq (1 .. nextId - 1) \X (1 .. nextId - 1)
  /\ pc \in [Workers -> Location]
  /\ who \in [Workers -> Parties]
  /\ target \in [Workers -> 0 .. nextId - 1]
  /\ draft \in [Workers -> Row \cup Patch]
  /\ pairs \in [Workers -> SUBSET (SUBSET (1 .. nextId - 1))]
  /\ stale \in [Workers -> BOOLEAN]

\* A worker without a request or a job holds nothing.
AtRest == [pc |-> "idle", who |-> "nobody", target |-> 0, draft |-> NoChange, pairs |-> {}]

Init ==
  /\ memories = [i \in {} |-> NoChange] /\ nextId = 1 /\ links = {}
  /\ pc = [w \in Workers |-> AtRest.pc]
  /\ who = [w \in Workers |-> AtRest.who]
  /\ target = [w \in Workers |-> AtRest.target]
  /\ draft = [w \in Workers |-> AtRest.draft]
  /\ pairs = [w \in Workers |-> AtRest.pairs]
  /\ stale = [w \in Workers |-> FALSE]

\* The worker goes to its next step with what it now knows.
Become(w, at, by, i, d) ==
  /\ pc' = [pc EXCEPT ![w] = at]
  /\ who' = [who EXCEPT ![w] = by]
  /\ target' = [target EXCEPT ![w] = i]
  /\ draft' = [draft EXCEPT ![w] = d]
  /\ UNCHANGED pairs

\* A call of the store has returned: consolidation goes on with the next id of
\* the model's answer, everything else is finished.
Return(w) ==
  IF who[w] = "consolidate" THEN Become(w, "consolidate", who[w], 0, NoChange)
                            ELSE Become(w, "idle", "nobody", 0, NoChange)

\* From now on the worker acts on what it has read.
Decide(w, at, by, i, d) ==
  /\ Become(w, at, by, i, d)
  /\ stale' = [stale EXCEPT ![w] = FALSE]
  /\ UNCHANGED <<memories, nextId, links>>

-----------------------------------------------------------------------------
(* The requests and jobs up to their first write *)

\* Row i is of the type and says much the same.
Near(i, type, topic) ==
  memories[i].type = type /\ <<memories[i].topic, topic>> \in Similar

\* Mutant: archived memories are not considered.
FindSimilarLive(type, topic) == {i \in Ids : Near(i, type, topic) /\ ~memories[i].expired}

\* _find_similar_memory takes the first of these in the order of their last
\* updates, and does not look at expires_at.  The times are whole seconds, taken
\* before the write: each may come first.
FindSimilar(type, topic) == {i \in Ids : Near(i, type, topic)}

\* _persist_candidate: a fact of a turn, from the model's signals (any type) or
\* the patterns.  It is inserted, or its words replace those of one similar row,
\* whatever others it is similar to, with the higher importance of the two.
TurnFact(w) ==
  /\ pc[w] = "idle"
  /\ \E type \in Types, topic \in Topics, importance \in Importance :
       LET similar == FindSimilar(type, topic) IN
       \/ /\ similar = {}
          /\ Decide(w, "create", "turn", 0,
               [type |-> type, topic |-> topic, importance |-> importance,
                expired |-> FALSE])
       \/ \E i \in similar :
            Decide(w, "get", "turn", i,
              [NoChange EXCEPT !.topic = topic,
                 !.importance = IF importance > memories[i].importance
                                  THEN importance ELSE memories[i].importance])

\* POST /memory/memories.
ApiPost(w) ==
  /\ pc[w] = "idle"
  /\ \E row \in Row : Decide(w, "create", "api", 0, row)

\* PUT /memory/memories/{id}; one field in each request.
ApiPut(w) ==
  /\ pc[w] = "idle"
  /\ \E i \in 1 .. nextId - 1 :
       \/ \E topic \in Topics :
            Decide(w, "get", "api", i, [NoChange EXCEPT !.topic = topic])
       \/ \E importance \in Importance :
            Decide(w, "get", "api", i, [NoChange EXCEPT !.importance = importance])
       \/ Decide(w, "get", "api", i, [NoChange EXCEPT !.expired = FALSE])

\* consolidate_memories lists the factual memories and asks the model.
Consolidate(w) ==
  /\ pc[w] = "idle"
  /\ \E i \in Ids : memories[i].type \in FactTypes
  /\ Decide(w, "consolidate", "consolidate", 0, NoChange)

\* The next id to archive; only its existence is checked.  The answer lists
\* the ids to archive before the others; here they come in any order.
Archive(w) ==
  /\ pc[w] = "consolidate"
  /\ \E i \in Ids : Decide(w, "get", who[w], i, [NoChange EXCEPT !.expired = TRUE])

\* The next id to deprioritize: the smaller of the stored importance and the
\* model's.
Deprioritize(w) ==
  /\ pc[w] = "consolidate"
  /\ \E i \in Ids, importance \in Importance :
       Decide(w, "get", who[w], i,
         [NoChange EXCEPT !.importance =
            IF importance < memories[i].importance THEN importance
                                                   ELSE memories[i].importance])

ConsolidateEnds(w) ==
  /\ pc[w] = "consolidate"
  /\ Decide(w, "idle", "nobody", 0, NoChange)

\* Mutant: the most recent memory of any type is the impression.
FormImpressionAnywhere(w) ==
  /\ pc[w] = "idle"
  /\ \E i \in Ids, topic \in Topics :
       Decide(w, "get", "impression", i, [NoChange EXCEPT !.topic = topic])

\* form_impression: the model's answer replaces the content of a
\* relationship_state memory, or becomes the first one.
FormImpression(w) ==
  /\ pc[w] = "idle"
  /\ LET old == {i \in Ids : memories[i].type = Impression} IN
     \E topic \in Topics :
       \/ \E i \in old : Decide(w, "get", "impression", i, [NoChange EXCEPT !.topic = topic])
       \/ /\ old = {}
          /\ Decide(w, "create", "impression", 0,
               [type |-> Impression, topic |-> topic, importance |-> 1,
                expired |-> FALSE])

-----------------------------------------------------------------------------
(* The writes *)

\* The rows that another worker has decided on are no longer what it read; a
\* person's request is not decided by what is stored.
Overtakes(w, Concerns(_)) ==
  stale' = [u \in Workers |-> u # w /\ (stale[u] \/ (who[u] # "api" /\ Concerns(u)))]

\* create_memory.
Create(w) ==
  /\ pc[w] = "create" /\ nextId <= MaxId
  /\ memories' = [i \in Ids \cup {nextId} |-> IF i = nextId THEN draft[w] ELSE memories[i]]
  /\ nextId' = nextId + 1
  /\ Overtakes(w, LAMBDA u : pc[u] = "create" /\ draft[u].type = draft[w].type)
  /\ Return(w)
  /\ UNCHANGED links

\* Mutant: an update starts the memory's life again.
MergeRevives(i, d) ==
  [memories[i] EXCEPT
     !.topic = IF d.topic = Keep THEN @ ELSE d.topic,
     !.importance = IF d.importance = Keep THEN @ ELSE d.importance,
     !.expired = IF d.expired = Keep THEN FALSE ELSE d.expired]

\* The row with the arguments that are not None.
Merge(i, d) ==
  [memories[i] EXCEPT
     !.topic = IF d.topic = Keep THEN @ ELSE d.topic,
     !.importance = IF d.importance = Keep THEN @ ELSE d.importance,
     !.expired = IF d.expired = Keep THEN @ ELSE d.expired]

\* The row was chosen, or its importance computed, by a reading before the
\* update's own.
DependsOnEarlierRead(w) ==
  who[w] \in {"turn", "consolidate"} /\ draft[w].importance # Keep

\* update_memory reads the row; it has nothing to do when the row is gone, and
\* the turn whose fact was to be merged into it has lost that fact.
Get(w) ==
  /\ pc[w] = "get"
  /\ \/ /\ target[w] \in Ids
        /\ Become(w, "write", who[w], target[w], Merge(target[w], draft[w]))
        /\ stale' = [stale EXCEPT ![w] = @ /\ DependsOnEarlierRead(w)]
     \/ /\ target[w] \notin Ids
        /\ stale' = [stale EXCEPT ![w] = FALSE]
        /\ Return(w)
  /\ UNCHANGED <<memories, nextId, links>>

\* UPDATE of all columns; no row is touched when it has been deleted.
Write(w) ==
  /\ pc[w] = "write"
  /\ memories' = [i \in Ids |-> IF i = target[w] THEN draft[w] ELSE memories[i]]
  /\ Overtakes(w, LAMBDA u : \/ pc[u] \in {"get", "write"} /\ target[u] = target[w]
                             \/ pc[u] = "create" /\ draft[u].type = draft[w].type)
  /\ Return(w)
  /\ UNCHANGED <<nextId, links>>

\* Mutant: the links stay.
DeleteKeepsLinks(i) ==
  /\ i \in Ids
  /\ memories' = [j \in Ids \ {i} |-> memories[j]]
  /\ UNCHANGED <<nextId, links, worker, stale>>

\* DELETE /memory/memories/{id}: the foreign keys take the links with the row.
Delete(i) ==
  /\ i \in Ids
  /\ memories' = [j \in Ids \ {i} |-> memories[j]]
  /\ links' = {l \in links : l[1] # i /\ l[2] # i}
  /\ UNCHANGED <<nextId, worker, stale>>

-----------------------------------------------------------------------------
(* Linking *)

\* Two factual memories of different types that share enough tokens.
Linkable(i, j) ==
  /\ {memories[i].type, memories[j].type} \subseteq FactTypes
  /\ memories[i].type # memories[j].type
  /\ <<memories[i].topic, memories[j].topic>> \in Related

\* link_related_memories lists the candidates once.
ScanLinks(w) ==
  /\ pc[w] = "idle"
  /\ \E i, j \in Ids : Linkable(i, j)
  /\ pc' = [pc EXCEPT ![w] = "link"]
  /\ who' = [who EXCEPT ![w] = "link"]
  /\ pairs' = [pairs EXCEPT ![w] = {p \in SUBSET Ids : \E i, j \in Ids : p = {i, j} /\ Linkable(i, j)}]
  /\ UNCHANGED <<memories, nextId, links, target, draft, stale>>

BothWays(p) == {l \in p \X p : l[1] # l[2]}

\* add_memory_link for the next pair, both directions in one transaction; a
\* pair that is linked already is left alone, and a memory that is gone breaks
\* a foreign key, which ends the job.
AddLink(w) ==
  /\ pc[w] = "link"
  /\ \E p \in pairs[w] :
       \/ /\ p \subseteq Ids
          /\ links' = links \cup BothWays(p)
          /\ pairs' = [pairs EXCEPT ![w] = @ \ {p}]
          /\ UNCHANGED <<pc, who>>
       \/ /\ ~(p \subseteq Ids)
          /\ pairs' = [pairs EXCEPT ![w] = {}]
          /\ pc' = [pc EXCEPT ![w] = "idle"]
          /\ who' = [who EXCEPT ![w] = "nobody"]
          /\ UNCHANGED links
  /\ UNCHANGED <<memories, nextId, target, draft, stale>>

LinksEnd(w) ==
  /\ pc[w] = "link" /\ pairs[w] = {}
  /\ Decide(w, "idle", "nobody", 0, NoChange)

\* A store call raises, or the process dies: nothing more of the work is done.
Abandon(w) ==
  /\ pc[w] # "idle"
  /\ pc' = [pc EXCEPT ![w] = AtRest.pc]
  /\ who' = [who EXCEPT ![w] = AtRest.who]
  /\ target' = [target EXCEPT ![w] = AtRest.target]
  /\ draft' = [draft EXCEPT ![w] = AtRest.draft]
  /\ pairs' = [pairs EXCEPT ![w] = AtRest.pairs]
  /\ stale' = [stale EXCEPT ![w] = FALSE]
  /\ UNCHANGED <<memories, nextId, links>>

-----------------------------------------------------------------------------
Begin(w) ==
  \/ TurnFact(w) \/ ApiPost(w) \/ ApiPut(w)
  \/ Consolidate(w) \/ FormImpression(w) \/ ScanLinks(w)

Proceed(w) ==
  \/ Create(w) \/ Get(w) \/ Write(w)
  \/ Archive(w) \/ Deprioritize(w) \/ ConsolidateEnds(w)
  \/ AddLink(w) \/ LinksEnd(w)

Next ==
  \/ \E w \in Workers : Begin(w) \/ Proceed(w) \/ Abandon(w)
  \/ \E i \in Ids : Delete(i)

Spec == Init /\ [][Next]_vars

-----------------------------------------------------------------------------
(* Properties *)

\* A link has its opposite, joins two memories that exist, and these are facts
\* of two different types, whatever is deleted and edited while links are made
\* from an old listing.
LinksClean ==
  \A l \in links :
    /\ <<l[2], l[1]>> \in links
    /\ {l[1], l[2]} \subseteq Ids
    /\ {memories[l[1]].type, memories[l[2]].type} \subseteq FactTypes
    /\ memories[l[1]].type # memories[l[2]].type

\* Worker w ends its update of row i with this step.
Updates(w, i) == pc[w] = "write" /\ target[w] = i /\ pc'[w] # "write"

\* The update of row i is a person's; its writer decided on rows that have
\* changed since.
ByHand(i) == \E w \in Workers : Updates(w, i) /\ who[w] = "api"
OnOldRows(i) == \E w \in Workers : Updates(w, i) /\ stale[w]

\* A turn adds a row only for a fact that no row says yet, archived or not,
\* although it has looked by one connection and inserts by another: unless a row
\* of the type was stored or rewritten in between.
NewFactsUnlikeOldUnlessStale ==
  [][\A w \in Workers :
       pc[w] = "create" /\ pc'[w] # "create" /\ nextId' # nextId /\ who[w] = "turn"
         => stale[w] \/ \A i \in Ids : ~Near(i, draft[w].type, draft[w].topic)]_vars

\* The words of a fact give way only to a person's, or to words the code takes
\* for the same fact: a turn restates it, consolidation leaves the words alone,
\* and the impression never replaces a fact; unless the row has changed since
\* the writer chose it.
WordsStayCloseUnlessStale ==
  [][\A i \in Ids : memories[i].type \in FactTypes /\ i \in DOMAIN memories'
       => \/ memories'[i].topic = memories[i].topic
          \/ <<memories[i].topic, memories'[i].topic>> \in Similar
          \/ ByHand(i) \/ OnOldRows(i)]_vars

\* Only a person takes an archiving back; a turn that restates an archived fact
\* updates it where it is, archived; unless the row has changed since.
ArchiveIsFinalUnlessStale ==
  [][\A i \in Ids : memories[i].expired /\ i \in DOMAIN memories'
       => memories'[i].expired \/ ByHand(i) \/ OnOldRows(i)]_vars

\* Consolidation never raises an importance, although it compares with one
\* reading of the row and update_memory writes another; unless the row has
\* changed since the first.
ConsolidationLowersUnlessStale ==
  [][\A w \in Workers, i \in Ids : Updates(w, i) /\ who[w] = "consolidate"
       => \/ stale[w] \/ i \notin DOMAIN memories'
          \/ memories'[i].importance <= memories[i].importance]_vars

\* docs/MEMORY_DESIGN.md: the impression "can never be archived".
ImpressionNeverArchived ==
  [][\A i \in Ids : i \in DOMAIN memories'
       /\ memories[i].type = Impression /\ ~memories[i].expired /\ memories'[i].expired
       => ByHand(i)]_vars

\* What jobs may not do to a fact: revive it, or raise it by consolidating.
JobsLeaveFactsUnlessStale == ArchiveIsFinalUnlessStale /\ ConsolidationLowersUnlessStale
=============================================================================
