----------------------------- MODULE StoreProofs -----------------------------
(***************************************************************************)
(* Theorems about what is kept between the turns: the memories and their   *)
(* links, for any number of concurrent writers, any types and topics; the  *)
(* bookkeeping of the reflections, for every set of tasks, every threshold *)
(* and every bound; the values that move between the tables when a         *)
(* database of an earlier version is opened, for any number of processes   *)
(* and starts; and the context that is packed from what is kept, for every *)
(* store, budget and list of sections: its sums, its ranking and its hops  *)
(* along the links are recursive functions, reasoned about by induction    *)
(* (Recursions).                                                           *)
(***************************************************************************)
EXTENDS MCStore, Memories, Recursions

-----------------------------------------------------------------------------
(* Memories *)

\* What a worker holds fits its next step: a whole row to be inserted, a patch
\* to be merged, a whole row of the target's type to be written back.
DraftFits(w) ==
  /\ pc[w] = "create" => draft[w] \in Row
  /\ pc[w] = "get" => draft[w] \in Patch
  /\ pc[w] = "write" => draft[w] \in Row
  /\ pc[w] = "write" /\ target[w] \in Ids => draft[w].type = memories[target[w]].type

TypeInv == TypeOK /\ \A w \in Workers : DraftFits(w)

\* A deciding step: nothing is written, and the worker takes what fits.
LEMMA DecideKeepsType ==
  ASSUME TypeInv, NEW w \in Workers, NEW at \in Location \ {"write"},
         NEW by \in Parties, NEW i \in 0 .. nextId - 1, NEW d \in Row \cup Patch,
         at = "create" => d \in Row, at = "get" => d \in Patch,
         Decide(w, at, by, i, d)
  PROVE  TypeInv'
<1> USE DEF TypeInv, TypeOK, Decide, Become
<1>1. TypeOK'
  BY DEF Ids
<1>2. \A u \in Workers : DraftFits(u)'
  BY DEF DraftFits, Ids
<1>3. QED BY <1>1, <1>2

\* What a finished call leaves in its worker.
LEMMA ReturnForgets ==
  ASSUME TypeOK, NEW w \in Workers, Return(w)
  PROVE  /\ pc' \in [Workers -> Location] /\ who' \in [Workers -> Parties]
         /\ target' \in [Workers -> 0 .. nextId - 1]
         /\ draft' \in [Workers -> Row \cup Patch]
         /\ pairs' = pairs
         /\ pc'[w] \in {"idle", "consolidate"}
         /\ \A u \in Workers \ {w} :
              pc'[u] = pc[u] /\ target'[u] = target[u] /\ draft'[u] = draft[u]
<1>1. NoChange \in Row \cup Patch
  BY DEF NoChange, Patch
<1>2. nextId \in Nat /\ 0 \in 0 .. nextId - 1
  BY BoundAssumption DEF TypeOK
<1>3. PICK at \in {"idle", "consolidate"}, by \in Parties : Become(w, at, by, 0, NoChange)
  BY DEF Return, Parties, TypeOK
<1>4. QED
  BY <1>1, <1>2, <1>3 DEF Become, TypeOK, Location

\* Merging a patch into a row gives a row of the same type.
LEMMA MergeIsRow ==
  ASSUME NEW i \in Ids, memories[i] \in Row, NEW d \in Patch
  PROVE  Merge(i, d) \in Row /\ Merge(i, d).type = memories[i].type
BY DEF Merge, Row, Patch

LEMMA TypeStep == TypeInv /\ [Next]_vars => TypeInv'
<1> SUFFICES ASSUME TypeInv, [Next]_vars PROVE TypeInv'
  OBVIOUS
<1> nextId \in Nat /\ MaxId \in Nat /\ 0 \in 0 .. nextId - 1
  BY BoundAssumption DEF TypeInv, TypeOK
<1>0. NoChange \in Patch
  BY DEF NoChange, Patch
<1>1. ASSUME NEW w \in Workers, TurnFact(w) PROVE TypeInv'
  <2>1. PICK type \in Types, topic \in Topics, importance \in Importance :
          \/ Decide(w, "create", "turn", 0,
               [type |-> type, topic |-> topic, importance |-> importance,
                expired |-> FALSE])
          \/ \E i \in Ids :
               Decide(w, "get", "turn", i,
                 [NoChange EXCEPT !.topic = topic,
                    !.importance = IF importance > memories[i].importance
                                     THEN importance ELSE memories[i].importance])
    BY <1>1 DEF TurnFact, FindSimilar
  <2>2. \A i \in Ids : i \in 0 .. nextId - 1 /\ memories[i] \in Row
    BY DEF TypeInv, TypeOK
  <2>3. [type |-> type, topic |-> topic, importance |-> importance,
         expired |-> FALSE] \in Row
    BY DEF Row
  <2>4. \A i \in Ids :
          [NoChange EXCEPT !.topic = topic,
             !.importance = IF importance > memories[i].importance
                              THEN importance ELSE memories[i].importance] \in Patch
    BY <2>2 DEF NoChange, Patch, Row
  <2>5. QED
    BY <2>1, <2>2, <2>3, <2>4, DecideKeepsType DEF Location, Parties
<1>2. ASSUME NEW w \in Workers, ApiPost(w) PROVE TypeInv'
  BY <1>2, DecideKeepsType DEF ApiPost, Location, Parties
<1>3. ASSUME NEW w \in Workers, ApiPut(w) PROVE TypeInv'
  <2>1. PICK i \in 1 .. nextId - 1, d \in Patch : Decide(w, "get", "api", i, d)
    BY <1>3 DEF ApiPut, NoChange, Patch
  <2>2. QED
    BY <2>1, DecideKeepsType DEF Location, Parties
<1>4. ASSUME NEW w \in Workers, Consolidate(w) \/ ConsolidateEnds(w) PROVE TypeInv'
  BY <1>0, <1>4, DecideKeepsType DEF Consolidate, ConsolidateEnds, Location, Parties
<1>5. ASSUME NEW w \in Workers, Archive(w) \/ Deprioritize(w) PROVE TypeInv'
  <2>1. \A i \in Ids : i \in 0 .. nextId - 1 /\ memories[i] \in Row
    BY DEF TypeInv, TypeOK
  <2>2. PICK i \in Ids, d \in Patch : Decide(w, "get", who[w], i, d)
    BY <1>5, <2>1 DEF Archive, Deprioritize, NoChange, Patch, Row
  <2>3. who[w] \in Parties
    BY DEF TypeInv, TypeOK
  <2>4. QED
    BY <2>1, <2>2, <2>3, DecideKeepsType DEF Location
<1>6. ASSUME NEW w \in Workers, FormImpression(w) PROVE TypeInv'
  <2>1. PICK topic \in Topics :
          \/ \E i \in Ids : Decide(w, "get", "impression", i, [NoChange EXCEPT !.topic = topic])
          \/ Decide(w, "create", "impression", 0,
               [type |-> Impression, topic |-> topic, importance |-> 1,
                expired |-> FALSE])
    BY <1>6 DEF FormImpression
  <2>2. \A i \in Ids : i \in 0 .. nextId - 1
    BY DEF TypeInv, TypeOK
  <2>3. [NoChange EXCEPT !.topic = topic] \in Patch
    BY DEF NoChange, Patch
  <2>4. [type |-> Impression, topic |-> topic, importance |-> 1, expired |-> FALSE] \in Row
    BY DEF Row, Types, Importance
  <2>5. QED
    BY <2>1, <2>2, <2>3, <2>4, DecideKeepsType DEF Location, Parties
<1>7. ASSUME NEW w \in Workers, ScanLinks(w) PROVE TypeInv'
  BY <1>7 DEF ScanLinks, TypeInv, TypeOK, DraftFits, Location, Parties, Ids
<1>8. ASSUME NEW w \in Workers, AddLink(w) PROVE TypeInv'
  BY <1>8 DEF AddLink, BothWays, TypeInv, TypeOK, DraftFits, Location, Parties, Ids
<1>9. ASSUME NEW w \in Workers, LinksEnd(w) PROVE TypeInv'
  BY <1>0, <1>9, DecideKeepsType DEF LinksEnd, Location, Parties
<1>10. ASSUME NEW w \in Workers, Abandon(w) PROVE TypeInv'
  BY <1>0, <1>10 DEF Abandon, AtRest, TypeInv, TypeOK, DraftFits, Location, Parties, Ids
<1>11. ASSUME NEW w \in Workers, Create(w) PROVE TypeInv'
  <2>1. draft[w] \in Row /\ nextId \in 1 .. MaxId /\ Return(w)
    BY <1>11 DEF Create, TypeInv, TypeOK, DraftFits
  <2>2. Ids' = Ids \cup {nextId} /\ nextId \notin Ids
    BY <1>11 DEF Create, Ids, TypeInv, TypeOK
  <2>3. memories' \in [Ids' -> Row]
    BY <1>11, <2>1, <2>2 DEF Create, TypeInv, TypeOK
  <2>4. stale' \in [Workers -> BOOLEAN]
    BY <1>11 DEF Create, Overtakes
  <2>6. TypeOK'
    <3>1. nextId' = nextId + 1 /\ links' = links
      BY <1>11 DEF Create
    <3>2. target' \in [Workers -> 0 .. nextId' - 1]
      BY <2>1, <3>1, ReturnForgets DEF TypeInv
    <3>3. pairs' \in [Workers -> SUBSET (SUBSET (1 .. nextId' - 1))]
      BY <2>1, <3>1, ReturnForgets DEF TypeInv, TypeOK
    <3>4. pc' \in [Workers -> Location] /\ who' \in [Workers -> Parties]
          /\ draft' \in [Workers -> Row \cup Patch]
      BY <2>1, ReturnForgets DEF TypeInv
    <3>5. QED
      BY <2>1, <2>2, <2>3, <2>4, <3>1, <3>2, <3>3, <3>4 DEF TypeInv, TypeOK
  <2>7. ASSUME NEW u \in Workers PROVE DraftFits(u)'
    <3>1. CASE u = w
      BY <2>1, <3>1, ReturnForgets DEF TypeInv, DraftFits
    <3>2. CASE u # w
      <4>1. pc'[u] = pc[u] /\ target'[u] = target[u] /\ draft'[u] = draft[u]
        BY <2>1, <3>2, ReturnForgets DEF TypeInv
      <4>2. target[u] # nextId
        BY DEF TypeInv, TypeOK
      <4>3. \A i \in Ids : memories'[i] = memories[i]
        BY <1>11, <2>2 DEF Create
      <4>4. QED BY <2>2, <4>1, <4>2, <4>3 DEF TypeInv, DraftFits
    <3>3. QED BY <3>1, <3>2
  <2>8. QED BY <2>6, <2>7 DEF TypeInv
<1>12. ASSUME NEW w \in Workers, Get(w) PROVE TypeInv'
  <2>1. UNCHANGED <<memories, nextId, links>> /\ Ids' = Ids
    BY <1>12 DEF Get, Ids
  <2>2. CASE target[w] \in Ids
    <3>1. draft[w] \in Patch /\ memories[target[w]] \in Row
      BY <1>12, <2>2 DEF Get, TypeInv, TypeOK, DraftFits
    <3>2. /\ Merge(target[w], draft[w]) \in Row
          /\ Merge(target[w], draft[w]).type = memories[target[w]].type
      BY <2>2, <3>1, MergeIsRow
    <3>3. Become(w, "write", who[w], target[w], Merge(target[w], draft[w]))
      BY <1>12, <2>2 DEF Get
    <3>4. stale' \in [Workers -> BOOLEAN]
      <4>1. DependsOnEarlierRead(w) \in BOOLEAN
        BY DEF DependsOnEarlierRead
      <4>2. QED BY <1>12, <2>2, <4>1 DEF Get, TypeInv, TypeOK
    <3>5. TypeOK'
      BY <2>1, <3>2, <3>3, <3>4 DEF Become, TypeInv, TypeOK, Location
    <3>6. \A u \in Workers : DraftFits(u)'
      BY <2>1, <3>2, <3>3 DEF Become, TypeInv, TypeOK, DraftFits
    <3>7. QED BY <3>5, <3>6 DEF TypeInv
  <2>3. CASE target[w] \notin Ids
    <3>1. Return(w)
      BY <1>12, <2>3 DEF Get
    <3>2. stale' \in [Workers -> BOOLEAN]
      BY <1>12, <2>3 DEF Get, TypeInv, TypeOK
    <3>3. TypeOK'
      BY <2>1, <3>1, <3>2, ReturnForgets DEF TypeInv, TypeOK
    <3>4. \A u \in Workers : DraftFits(u)'
      BY <2>1, <3>1, ReturnForgets DEF TypeInv, DraftFits
    <3>5. QED BY <3>3, <3>4 DEF TypeInv
  <2>4. QED BY <2>2, <2>3
<1>13. ASSUME NEW w \in Workers, Write(w) PROVE TypeInv'
  <2>1. draft[w] \in Row /\ Return(w) /\ UNCHANGED <<nextId, links>>
        /\ (target[w] \in Ids => draft[w].type = memories[target[w]].type)
    BY <1>13 DEF Write, TypeInv, DraftFits
  <2>2. memories' = [i \in Ids |-> IF i = target[w] THEN draft[w] ELSE memories[i]]
    BY <1>13 DEF Write
  <2>3. Ids' = Ids /\ memories' \in [Ids' -> Row]
        /\ \A i \in Ids : memories'[i].type = memories[i].type
    BY <2>1, <2>2 DEF Ids, TypeInv, TypeOK
  <2>4. stale' \in [Workers -> BOOLEAN]
    BY <1>13 DEF Write, Overtakes
  <2>5. TypeOK'
    BY <2>1, <2>3, <2>4, ReturnForgets DEF TypeInv, TypeOK
  <2>6. \A u \in Workers : DraftFits(u)'
    BY <2>1, <2>3, ReturnForgets DEF TypeInv, DraftFits
  <2>7. QED BY <2>5, <2>6 DEF TypeInv
<1>14. ASSUME NEW i \in Ids, Delete(i) PROVE TypeInv'
  <2>1. Ids' = Ids \ {i} /\ memories' \in [Ids' -> Row]
        /\ \A j \in Ids' : memories'[j] = memories[j]
    BY <1>14 DEF Delete, Ids, TypeInv, TypeOK
  <2>3. TypeOK'
    BY <1>14, <2>1 DEF Delete, TypeInv, TypeOK, worker
  <2>4. \A u \in Workers : DraftFits(u)'
    BY <1>14, <2>1 DEF Delete, TypeInv, DraftFits, worker
  <2>5. QED BY <2>3, <2>4 DEF TypeInv
<1>15. CASE UNCHANGED vars
  BY <1>15 DEF vars, TypeInv, TypeOK, DraftFits, Ids
<1>16. QED
  BY <1>1, <1>2, <1>3, <1>4, <1>5, <1>6, <1>7, <1>8, <1>9, <1>10, <1>11, <1>12,
     <1>13, <1>14, <1>15 DEF Next, Begin, Proceed

LEMMA TypeInductive == Spec => []TypeInv
<1>1. ASSUME Init PROVE TypeInv
  <2>1. NoChange \in Patch
    BY DEF NoChange, Patch
  <2>2. Ids = {} /\ memories \in [Ids -> Row]
    BY <1>1 DEF Init, Ids
  <2>3. nextId \in 1 .. MaxId + 1 /\ nextId = 1
    BY <1>1, BoundAssumption DEF Init
  <2>4. /\ pc \in [Workers -> Location] /\ who \in [Workers -> Parties]
        /\ target \in [Workers -> 0 .. nextId - 1] /\ draft \in [Workers -> Row \cup Patch]
        /\ pairs \in [Workers -> SUBSET (SUBSET (1 .. nextId - 1))]
    BY <1>1, <2>1, <2>3 DEF Init, AtRest, Location, Parties
  <2>5. stale \in [Workers -> BOOLEAN]
    BY <1>1 DEF Init
  <2>6. TypeOK
    BY <1>1, <2>2, <2>3, <2>4, <2>5 DEF Init, TypeOK
  <2>7. \A w \in Workers : DraftFits(w)
    BY <1>1 DEF Init, AtRest, DraftFits
  <2>8. QED BY <2>6, <2>7 DEF TypeInv
<1>2. QED
  BY <1>1, TypeStep, PTL DEF Spec

\* The tables and what every writer holds stay of their types: an update never
\* stores what it was not given, an insert stores a whole row.
THEOREM MemoriesTypeCorrect == Spec => []TypeOK
  BY TypeInductive, PTL DEF TypeInv

-----------------------------------------------------------------------------
(* Links *)

\* Two different ids may be linked as far as their rows exist.
MayLink(i, j) ==
  i # j /\ i \in Ids /\ j \in Ids =>
    /\ {memories[i].type, memories[j].type} \subseteq FactTypes
    /\ memories[i].type # memories[j].type

\* The pairs a linking job still holds may be linked, although the memories have
\* been edited or deleted since it listed them; the links there are, are clean.
LinkInv ==
  /\ \A w \in Workers : \A p \in pairs[w] : \A i, j \in p : MayLink(i, j)
  /\ LinksClean

\* The steps that change the rows.
LEMMA RowSteps ==
  ASSUME [Next]_vars
  PROVE  \/ UNCHANGED memories
         \/ \E w \in Workers : Create(w) \/ Write(w)
         \/ \E k \in Ids : Delete(k)
<1>1. ASSUME NEW w \in Workers, Begin(w) PROVE UNCHANGED memories
  BY <1>1 DEF Begin, TurnFact, ApiPost, ApiPut, Consolidate, FormImpression, ScanLinks, Decide
<1>2. ASSUME NEW w \in Workers, Archive(w) \/ Deprioritize(w) \/ ConsolidateEnds(w) \/ LinksEnd(w)
      PROVE  UNCHANGED memories
  BY <1>2 DEF Archive, Deprioritize, ConsolidateEnds, LinksEnd, Decide
<1>3. ASSUME NEW w \in Workers, Get(w) \/ AddLink(w) \/ Abandon(w) PROVE UNCHANGED memories
  BY <1>3 DEF Get, AddLink, Abandon
<1> QED
  BY <1>1, <1>2, <1>3 DEF Next, Proceed, vars

\* A memory never changes its type, and no id is used twice.
LEMMA TypesKept ==
  ASSUME TypeInv, [Next]_vars
  PROVE  \A i \in 1 .. nextId - 1 : i \in Ids' =>
           i \in Ids /\ memories'[i].type = memories[i].type
<1> USE DEF Ids
<1>1. CASE UNCHANGED memories
  BY <1>1
<1>2. ASSUME NEW w \in Workers, Create(w)
      PROVE  \A i \in 1 .. nextId - 1 : i \in Ids' =>
               i \in Ids /\ memories'[i].type = memories[i].type
  BY <1>2 DEF Create, TypeInv, TypeOK
<1>3. ASSUME NEW w \in Workers, Write(w)
      PROVE  \A i \in 1 .. nextId - 1 : i \in Ids' =>
               i \in Ids /\ memories'[i].type = memories[i].type
  BY <1>3 DEF Write, TypeInv, DraftFits
<1>4. ASSUME NEW k \in Ids, Delete(k)
      PROVE  \A i \in 1 .. nextId - 1 : i \in Ids' =>
               i \in Ids /\ memories'[i].type = memories[i].type
  BY <1>4 DEF Delete
<1>5. QED
  BY <1>1, <1>2, <1>3, <1>4, RowSteps

LEMMA MayLinkKept ==
  ASSUME TypeInv, [Next]_vars, NEW i \in 1 .. nextId - 1, NEW j \in 1 .. nextId - 1,
         MayLink(i, j)
  PROVE  MayLink(i, j)'
BY TypesKept DEF MayLink, Ids

LEMMA LinkStep == TypeInv /\ LinkInv /\ [Next]_vars => LinkInv'
<1> SUFFICES ASSUME TypeInv, LinkInv, [Next]_vars PROVE LinkInv'
  OBVIOUS
<1> DEFINE PairsOf(w) == \A p \in pairs'[w] : \A i, j \in p : MayLink(i, j)'
<1>1. ASSUME NEW w \in Workers, pairs'[w] \subseteq pairs[w] PROVE PairsOf(w)
  <2>1. \A p \in pairs[w] : p \subseteq 1 .. nextId - 1
    BY DEF TypeInv, TypeOK
  <2>2. QED BY <1>1, <2>1, MayLinkKept DEF LinkInv
\* As long as no row with a link goes away and no link is made.
<1>2. ASSUME links' = links, Ids \subseteq Ids' PROVE LinksClean'
  <2>1. \A l \in links : l[1] \in 1 .. nextId - 1 /\ l[2] \in 1 .. nextId - 1
    BY DEF TypeInv, TypeOK
  <2>2. SUFFICES ASSUME NEW l \in links
                 PROVE  /\ <<l[2], l[1]>> \in links
                        /\ {l[1], l[2]} \subseteq Ids'
                        /\ {memories'[l[1]].type, memories'[l[2]].type} \subseteq FactTypes
                        /\ memories'[l[1]].type # memories'[l[2]].type
    BY <1>2 DEF LinksClean
  <2>3. /\ <<l[2], l[1]>> \in links
        /\ l[1] \in Ids /\ l[2] \in Ids
        /\ {memories[l[1]].type, memories[l[2]].type} \subseteq FactTypes
        /\ memories[l[1]].type # memories[l[2]].type
    BY DEF LinkInv, LinksClean
  <2>4. l[1] \in Ids' /\ l[2] \in Ids'
    BY <1>2, <2>3
  <2>5. memories'[l[1]].type = memories[l[1]].type /\ memories'[l[2]].type = memories[l[2]].type
    BY <2>1, <2>4, TypesKept
  <2>6. QED BY <2>3, <2>4, <2>5
<1>3. ASSUME NEW w \in Workers, ScanLinks(w) PROVE LinkInv'
  <2>1. UNCHANGED <<memories, links>> /\ Ids' = Ids
    BY <1>3 DEF ScanLinks, Ids
  <2>2. pairs'[w] \in SUBSET {p \in SUBSET Ids : \E i, j \in Ids : p = {i, j} /\ Linkable(i, j)}
    BY <1>3 DEF ScanLinks, TypeInv, TypeOK
  <2>3. PairsOf(w)
    <3>1. \A i, j \in Ids : Linkable(i, j) => MayLink(i, j) /\ MayLink(j, i)
      BY DEF MayLink, Linkable
    <3>2. \A i \in Ids : MayLink(i, i)
      BY DEF MayLink
    <3>3. ASSUME NEW p \in pairs'[w], NEW i \in p, NEW j \in p PROVE MayLink(i, j)
      BY <2>2, <3>1, <3>2
    <3> QED
      BY <2>1, <3>3 DEF MayLink
  <2>4. \A u \in Workers \ {w} : pairs'[u] = pairs[u]
    BY <1>3 DEF ScanLinks, TypeInv, TypeOK
  <2>5. QED BY <1>1, <1>2, <2>1, <2>3, <2>4 DEF LinkInv
<1>4. ASSUME NEW w \in Workers, AddLink(w) PROVE LinkInv'
  <2>1. UNCHANGED memories /\ Ids' = Ids
    BY <1>4 DEF AddLink, Ids
  <2>2. \A u \in Workers : pairs'[u] \subseteq pairs[u]
    BY <1>4 DEF AddLink, TypeInv, TypeOK
  <2>3. CASE links' = links
    BY <1>1, <1>2, <2>1, <2>2, <2>3 DEF LinkInv
  <2>4. ASSUME NEW p \in pairs[w], p \subseteq Ids, links' = links \cup BothWays(p)
        PROVE  LinksClean'
    <3>1. \A i, j \in p : MayLink(i, j)
      BY DEF LinkInv
    <3>2. \A l \in BothWays(p) :
            /\ l \in p \X p /\ l[1] # l[2]
            /\ <<l[2], l[1]>> \in BothWays(p)
      BY DEF BothWays
    <3>3. \A l \in links' :
            /\ <<l[2], l[1]>> \in links'
            /\ {l[1], l[2]} \subseteq Ids
            /\ {memories[l[1]].type, memories[l[2]].type} \subseteq FactTypes
            /\ memories[l[1]].type # memories[l[2]].type
      BY <2>4, <3>1, <3>2 DEF MayLink, LinkInv, LinksClean
    <3>4. QED BY <2>1, <3>3 DEF LinksClean
  <2>5. QED BY <1>1, <1>4, <2>2, <2>3, <2>4 DEF AddLink, LinkInv
<1>5. ASSUME NEW k \in Ids, Delete(k) PROVE LinkInv'
  <2>1. pairs' = pairs /\ Ids' = Ids \ {k} /\ \A i \in Ids' : memories'[i] = memories[i]
    BY <1>5 DEF Delete, worker, Ids
  <2>2. links' = {l \in links : l[1] # k /\ l[2] # k}
    BY <1>5 DEF Delete
  <2>3. SUFFICES ASSUME NEW l \in links'
                 PROVE  /\ <<l[2], l[1]>> \in links'
                        /\ l[1] \in Ids' /\ l[2] \in Ids'
                        /\ {memories'[l[1]].type, memories'[l[2]].type} \subseteq FactTypes
                        /\ memories'[l[1]].type # memories'[l[2]].type
    BY <1>1, <2>1 DEF LinkInv, LinksClean
  <2>4. l \in links /\ l[1] # k /\ l[2] # k
    BY <2>2
  <2>5. /\ <<l[2], l[1]>> \in links
        /\ l[1] \in Ids /\ l[2] \in Ids
        /\ {memories[l[1]].type, memories[l[2]].type} \subseteq FactTypes
        /\ memories[l[1]].type # memories[l[2]].type
    BY <2>4 DEF LinkInv, LinksClean
  <2>6. <<l[2], l[1]>> \in links'
    BY <2>2, <2>4, <2>5
  <2>7. QED BY <2>1, <2>4, <2>5, <2>6
<1>6. ASSUME links' = links, Ids \subseteq Ids',
             \A w \in Workers : pairs'[w] \subseteq pairs[w]
      PROVE  LinkInv'
  BY <1>1, <1>2, <1>6 DEF LinkInv
<1> HIDE DEF PairsOf
<1>7. CASE \E w \in Workers : Create(w) \/ Get(w) \/ Write(w)
  <2>1. links' = links /\ pairs' = pairs
    BY <1>7, ReturnForgets DEF Create, Get, Write, Become, TypeInv
  <2>2. Ids \subseteq Ids'
    BY <1>7 DEF Create, Get, Write, Ids
  <2>3. QED BY <1>6, <2>1, <2>2
<1>8. CASE \E w \in Workers : \/ TurnFact(w) \/ ApiPost(w) \/ ApiPut(w) \/ Consolidate(w)
                            \/ FormImpression(w) \/ Archive(w) \/ Deprioritize(w)
                            \/ ConsolidateEnds(w) \/ LinksEnd(w)
  <2>1. PICK w \in Workers : \/ TurnFact(w) \/ ApiPost(w) \/ ApiPut(w) \/ Consolidate(w)
                             \/ FormImpression(w) \/ Archive(w) \/ Deprioritize(w)
                             \/ ConsolidateEnds(w) \/ LinksEnd(w)
    BY <1>8
  <2>2. ASSUME NEW at, NEW by, NEW i, NEW d, Decide(w, at, by, i, d) PROVE LinkInv'
    <3>1. UNCHANGED <<memories, links, pairs>>
      BY <2>2 DEF Decide, Become
    <3>2. QED BY <1>6, <3>1 DEF Ids
  <2>3. CASE TurnFact(w)
    BY <2>2, <2>3 DEF TurnFact
  <2>4. CASE ApiPost(w)
    BY <2>2, <2>4 DEF ApiPost
  <2>5. CASE ApiPut(w)
    BY <2>2, <2>5 DEF ApiPut
  <2>6. CASE Consolidate(w) \/ ConsolidateEnds(w) \/ LinksEnd(w)
    BY <2>2, <2>6 DEF Consolidate, ConsolidateEnds, LinksEnd
  <2>7. CASE FormImpression(w)
    BY <2>2, <2>7 DEF FormImpression
  <2>8. CASE Archive(w) \/ Deprioritize(w)
    BY <2>2, <2>8 DEF Archive, Deprioritize
  <2>9. QED
    BY <2>1, <2>3, <2>4, <2>5, <2>6, <2>7, <2>8
<1>9. CASE \E w \in Workers : Abandon(w)
  BY <1>6, <1>9 DEF Abandon, AtRest, Ids, TypeInv, TypeOK
<1>10. CASE UNCHANGED vars
  BY <1>6, <1>10 DEF vars, Ids
<1>11. QED
  BY <1>3, <1>4, <1>5, <1>7, <1>8, <1>9, <1>10 DEF Next, Begin, Proceed

\* Every link has its opposite and joins two existing facts of different types,
\* for any number of writers that edit and delete memories while links are made
\* from old listings: the foreign keys, the immutable type of a row and ids that
\* are not used again are what it rests on.
THEOREM LinksCleanHolds == Spec => []LinksClean
<1>1. Init => LinkInv
  BY DEF Init, AtRest, LinkInv, LinksClean
<1>2. LinkInv => LinksClean
  BY DEF LinkInv
<1>3. QED
  BY <1>1, <1>2, LinkStep, TypeInductive, PTL DEF Spec

-----------------------------------------------------------------------------
(* What turns may add, and what updates may do to a fact *)

\* What a worker does on whose behalf; only the impression job touches an
\* impression unasked, and it touches nothing else.
Duty(w) ==
  /\ pc[w] = "create" => who[w] \in {"turn", "api", "impression"} /\ target[w] = 0
  /\ pc[w] = "consolidate" => who[w] = "consolidate"
  /\ pc[w] \in {"get", "write"} => who[w] \in {"turn", "api", "consolidate", "impression"}
  /\ pc[w] = "create" /\ who[w] = "impression" => draft[w].type = Impression
  /\ pc[w] \in {"get", "write"} /\ who[w] = "impression" /\ target[w] \in Ids =>
       memories[target[w]].type = Impression
  /\ pc[w] = "get" =>
       /\ who[w] = "turn" => draft[w].importance # Keep
       /\ who[w] = "consolidate" => draft[w].topic = Keep
       /\ who[w] \in {"turn", "impression"} => draft[w].expired = Keep
       /\ who[w] = "consolidate" => draft[w].expired \in {Keep, TRUE}

\* What still holds of the rows a worker decided on, unless they have changed: no
\* row says what a turn is about to insert, a row is about to be given words it
\* is similar to, or none, and no more importance by consolidation than it has.
Knows(w) ==
  ~stale[w] =>
    /\ pc[w] = "create" /\ who[w] = "turn" =>
         \A i \in Ids : ~Near(i, draft[w].type, draft[w].topic)
    /\ pc[w] = "get" /\ target[w] \in Ids =>
         /\ who[w] = "turn" => <<memories[target[w]].topic, draft[w].topic>> \in Similar
         /\ who[w] = "consolidate" =>
              draft[w].importance = Keep \/ draft[w].importance <= memories[target[w]].importance
    /\ pc[w] = "write" /\ target[w] \in Ids /\ who[w] # "api" =>
         /\ who[w] # "impression" =>
              \/ draft[w].topic = memories[target[w]].topic
              \/ <<memories[target[w]].topic, draft[w].topic>> \in Similar
         /\ memories[target[w]].expired => draft[w].expired
         /\ who[w] = "consolidate" => draft[w].importance <= memories[target[w]].importance

WorkInv == \A w \in Workers : Duty(w) /\ Knows(w)

\* A deciding step of a worker that takes up what it has just read.
LEMMA DecideKeepsWork ==
  ASSUME TypeInv, WorkInv, NEW w \in Workers, NEW at, at # "write", NEW by, NEW i, NEW d,
         Decide(w, at, by, i, d),
         at = "consolidate" => by = "consolidate",
         at = "create" =>
           /\ by \in {"turn", "api", "impression"} /\ i = 0
           /\ by = "impression" => d.type = Impression
           /\ by = "turn" => \A j \in Ids : ~Near(j, d.type, d.topic),
         at = "get" =>
           /\ by \in {"turn", "api", "consolidate", "impression"}
           /\ by = "turn" => d.importance # Keep /\ (i \in Ids => <<memories[i].topic, d.topic>> \in Similar)
           /\ by = "consolidate" =>
                d.topic = Keep /\ (i \in Ids => d.importance = Keep \/ d.importance <= memories[i].importance)
           /\ by \in {"turn", "impression"} => d.expired = Keep
           /\ by = "consolidate" => d.expired \in {Keep, TRUE}
           /\ by = "impression" /\ i \in Ids => memories[i].type = Impression
  PROVE  WorkInv'
<1>1. /\ UNCHANGED memories /\ Ids' = Ids
      /\ pc'[w] = at /\ who'[w] = by /\ target'[w] = i /\ draft'[w] = d /\ stale'[w] = FALSE
      /\ \A u \in Workers \ {w} : /\ pc'[u] = pc[u] /\ who'[u] = who[u] /\ target'[u] = target[u]
                                   /\ draft'[u] = draft[u] /\ stale'[u] = stale[u]
  BY DEF Decide, Become, TypeInv, TypeOK, Ids
<1>3. ASSUME NEW u \in Workers \ {w} PROVE Duty(u)' /\ Knows(u)'
  <2>1. Duty(u) /\ Knows(u)
    BY DEF WorkInv
  <2>2. /\ pc'[u] = pc[u] /\ who'[u] = who[u] /\ target'[u] = target[u]
        /\ draft'[u] = draft[u] /\ stale'[u] = stale[u]
    BY <1>1
  <2>3. Duty(u)'
    BY <1>1, <2>1, <2>2 DEF Duty
  <2>4. Knows(u)'
    BY <1>1, <2>1, <2>2 DEF Knows, Near
  <2> QED
    BY <2>3, <2>4
<1>4. Duty(w)'
  BY <1>1 DEF Duty
<1>5. Knows(w)'
  BY <1>1 DEF Knows, Near
<1> QED
  BY <1>3, <1>4, <1>5 DEF WorkInv

LEMMA DecidingWork ==
  ASSUME TypeInv, WorkInv, NEW w \in Workers,
         \/ TurnFact(w) \/ ApiPost(w) \/ ApiPut(w) \/ Consolidate(w) \/ FormImpression(w)
         \/ Archive(w) \/ Deprioritize(w) \/ ConsolidateEnds(w) \/ LinksEnd(w)
  PROVE  WorkInv'
<1>1. \A i \in Ids : memories[i] \in Row /\ memories[i].importance \in Importance
  BY DEF TypeInv, TypeOK, Row
<1>2. /\ NoChange.topic = Keep /\ NoChange.importance = Keep /\ NoChange.expired = Keep
      /\ DOMAIN NoChange = {"type", "topic", "importance", "expired"}
  BY DEF NoChange
<1>3. CASE TurnFact(w)
  <2>1. PICK type \in Types, topic \in Topics, importance \in Importance :
         \/ /\ FindSimilar(type, topic) = {}
            /\ Decide(w, "create", "turn", 0,
                 [type |-> type, topic |-> topic, importance |-> importance,
                  expired |-> FALSE])
         \/ \E i \in FindSimilar(type, topic) :
              Decide(w, "get", "turn", i,
                [NoChange EXCEPT !.topic = topic,
                   !.importance = IF importance > memories[i].importance
                                    THEN importance ELSE memories[i].importance])
    BY <1>3 DEF TurnFact
  <2>2. CASE /\ FindSimilar(type, topic) = {}
             /\ Decide(w, "create", "turn", 0,
                 [type |-> type, topic |-> topic, importance |-> importance,
                  expired |-> FALSE])
    <3> DEFINE d == [type |-> type, topic |-> topic, importance |-> importance, expired |-> FALSE]
    <3>1. d.type = type /\ d.topic = topic
      OBVIOUS
    <3>2. Decide(w, "create", "turn", 0, d)
      BY <2>2
    <3> HIDE DEF d
    <3>3. \A j \in Ids : ~Near(j, d.type, d.topic)
      BY <2>2, <3>1 DEF FindSimilar
    <3> QED
      BY <3>2, <3>3, DecideKeepsWork
  <2>3. ASSUME NEW i \in FindSimilar(type, topic),
              Decide(w, "get", "turn", i,
                [NoChange EXCEPT !.topic = topic,
                   !.importance = IF importance > memories[i].importance
                                    THEN importance ELSE memories[i].importance])
        PROVE WorkInv'
    <3> DEFINE d == [NoChange EXCEPT !.topic = topic,
                       !.importance = IF importance > memories[i].importance
                                        THEN importance ELSE memories[i].importance]
    <3>1. i \in Ids /\ <<memories[i].topic, topic>> \in Similar
      BY <2>3 DEF FindSimilar, Near
    <3>2. d.topic = topic /\ d.expired = Keep /\ d.importance \in Importance
      BY <1>1, <1>2, <3>1
    <3>3. Decide(w, "get", "turn", i, d)
      BY <2>3
    <3> HIDE DEF d
    <3>4. d.importance # Keep
      BY <3>2, KeepAssumption
    <3> QED
      BY <3>1, <3>2, <3>3, <3>4, DecideKeepsWork
  <2> QED
    BY <2>1, <2>2, <2>3
<1>4. CASE ApiPost(w)
  BY <1>4, DecideKeepsWork DEF ApiPost
<1>5. CASE ApiPut(w)
  <2>1. PICK i, d : Decide(w, "get", "api", i, d)
    BY <1>5 DEF ApiPut
  <2> QED
    BY <2>1, DecideKeepsWork
<1>6. CASE Consolidate(w) \/ ConsolidateEnds(w) \/ LinksEnd(w)
  BY <1>6, DecideKeepsWork DEF Consolidate, ConsolidateEnds, LinksEnd
<1>7. CASE FormImpression(w)
  <2>1. PICK topic \in Topics :
       \/ \E i \in Ids : /\ memories[i].type = Impression
                         /\ Decide(w, "get", "impression", i, [NoChange EXCEPT !.topic = topic])
       \/ Decide(w, "create", "impression", 0,
               [type |-> Impression, topic |-> topic, importance |-> 1,
                expired |-> FALSE])
    BY <1>7 DEF FormImpression
  <2>2. ASSUME NEW i \in Ids, memories[i].type = Impression,
               Decide(w, "get", "impression", i, [NoChange EXCEPT !.topic = topic])
        PROVE  WorkInv'
    <3> DEFINE d == [NoChange EXCEPT !.topic = topic]
    <3>1. d.expired = Keep /\ Decide(w, "get", "impression", i, d)
      BY <1>2, <2>2
    <3> HIDE DEF d
    <3> QED
      BY <2>2, <3>1, DecideKeepsWork
  <2>3. CASE Decide(w, "create", "impression", 0,
               [type |-> Impression, topic |-> topic, importance |-> 1, expired |-> FALSE])
    <3> DEFINE d == [type |-> Impression, topic |-> topic, importance |-> 1, expired |-> FALSE]
    <3>1. d.type = Impression /\ Decide(w, "create", "impression", 0, d)
      BY <2>3
    <3> HIDE DEF d
    <3> QED
      BY <3>1, DecideKeepsWork
  <2> QED
    BY <2>1, <2>2, <2>3
<1>8. CASE Archive(w)
  <2>1. PICK i \in Ids : Decide(w, "get", who[w], i, [NoChange EXCEPT !.expired = TRUE])
    BY <1>8 DEF Archive
  <2> DEFINE d == [NoChange EXCEPT !.expired = TRUE]
  <2>2. d.topic = Keep /\ d.importance = Keep /\ d.expired = TRUE /\ Decide(w, "get", who[w], i, d)
    BY <1>2, <2>1
  <2>3. who[w] = "consolidate"
    BY <1>8 DEF Archive, WorkInv, Duty
  <2> HIDE DEF d
  <2> QED
    BY <2>2, <2>3, DecideKeepsWork
<1>9. CASE Deprioritize(w)
  <2>1. PICK i \in Ids, importance \in Importance :
       Decide(w, "get", who[w], i,
         [NoChange EXCEPT !.importance =
            IF importance < memories[i].importance THEN importance
                                                   ELSE memories[i].importance])
    BY <1>9 DEF Deprioritize
  <2> DEFINE d == [NoChange EXCEPT !.importance =
            IF importance < memories[i].importance THEN importance
                                                   ELSE memories[i].importance]
  <2>2. d.topic = Keep /\ d.expired = Keep /\ Decide(w, "get", who[w], i, d)
    BY <1>2, <2>1
  <2>3. d.importance <= memories[i].importance
    BY <1>1, <1>2 DEF Importance
  <2>4. who[w] = "consolidate"
    BY <1>9 DEF Deprioritize, WorkInv, Duty
  <2> HIDE DEF d
  <2> QED
    BY <2>2, <2>3, <2>4, DecideKeepsWork
<1> QED
  BY <1>3, <1>4, <1>5, <1>6, <1>7, <1>8, <1>9

\* The rows change under a worker that has decided.
LEMMA OthersWork ==
  ASSUME NEW u \in Workers, Duty(u), Knows(u),
         pc'[u] = pc[u], who'[u] = who[u], target'[u] = target[u], draft'[u] = draft[u],
         stale[u] => stale'[u],
         pc[u] \in {"get", "write"} /\ target[u] \in Ids' =>
           target[u] \in Ids /\ memories'[target[u]].type = memories[target[u]].type,
         pc[u] \in {"get", "write"} /\ target[u] \in Ids' /\ who[u] # "api" /\ ~stale'[u] =>
           memories'[target[u]] = memories[target[u]],
         pc[u] = "create" /\ who[u] # "api" /\ ~stale'[u] =>
           \A i \in Ids' : \/ i \in Ids /\ memories'[i] = memories[i]
                           \/ memories'[i].type # draft[u].type
  PROVE  Duty(u)' /\ Knows(u)'
<1>1. Duty(u)'
  BY DEF Duty
<1>2. Knows(u)'
  BY DEF Knows, Near
<1> QED
  BY <1>1, <1>2

\* A worker whose call has returned has nothing left to know.
LEMMA ReturnWork ==
  ASSUME TypeInv, NEW w \in Workers, Return(w)
  PROVE  /\ Duty(w)' /\ Knows(w)'
         /\ \A u \in Workers \ {w} : /\ pc'[u] = pc[u] /\ who'[u] = who[u] /\ target'[u] = target[u]
                                      /\ draft'[u] = draft[u]
<1>1. PICK at \in {"idle", "consolidate"}, by \in Parties :
        /\ Become(w, at, by, 0, NoChange)
        /\ at = "consolidate" => by = "consolidate"
  BY DEF Return, Parties
<1>2. /\ pc'[w] = at /\ who'[w] = by
      /\ \A u \in Workers \ {w} : /\ pc'[u] = pc[u] /\ who'[u] = who[u] /\ target'[u] = target[u]
                                   /\ draft'[u] = draft[u]
  BY <1>1 DEF Become, TypeInv, TypeOK
<1> QED
  BY <1>1, <1>2 DEF Duty, Knows

LEMMA CreateWork ==
  ASSUME TypeInv, WorkInv, NEW w \in Workers, Create(w)
  PROVE  WorkInv'
<1>1. /\ draft[w] \in Row /\ Return(w) /\ Duty(w) /\ Knows(w)
      /\ nextId \in Nat /\ pc[w] = "create"
  BY BoundAssumption DEF Create, TypeInv, TypeOK, DraftFits, WorkInv
<1>2. /\ Ids' = Ids \cup {nextId} /\ nextId \notin Ids /\ memories'[nextId] = draft[w]
      /\ \A i \in Ids : memories'[i] = memories[i]
  BY DEF Create, Ids, TypeInv, TypeOK
<1>3. \A u \in Workers \ {w} :
        /\ stale[u] => stale'[u]
        /\ pc[u] = "create" /\ who[u] # "api" /\ draft[u].type = draft[w].type => stale'[u]
  BY DEF Create, Overtakes
<1>4. ASSUME NEW u \in Workers \ {w} PROVE Duty(u)' /\ Knows(u)'
  <2>1. target[u] # nextId /\ Duty(u) /\ Knows(u)
    BY <1>1 DEF TypeInv, TypeOK, WorkInv
  <2>2. /\ pc'[u] = pc[u] /\ who'[u] = who[u] /\ target'[u] = target[u] /\ draft'[u] = draft[u]
    BY <1>1, ReturnWork
  <2> QED
    BY <1>2, <1>3, <2>1, <2>2, OthersWork
<1> QED
  BY <1>1, <1>4, ReturnWork DEF WorkInv

LEMMA GetWork ==
  ASSUME TypeInv, WorkInv, NEW w \in Workers, Get(w)
  PROVE  WorkInv'
<1>1. /\ UNCHANGED memories /\ Ids' = Ids /\ pc[w] = "get"
      /\ Duty(w) /\ Knows(w) /\ draft[w] \in Patch
  BY DEF Get, WorkInv, TypeInv, DraftFits, Ids
<1>2. \A u \in Workers \ {w} : stale'[u] = stale[u]
  BY DEF Get, TypeInv, TypeOK
<1>4. ASSUME NEW u \in Workers \ {w},
             pc'[u] = pc[u], who'[u] = who[u], target'[u] = target[u], draft'[u] = draft[u]
      PROVE  Duty(u)' /\ Knows(u)'
  BY <1>1, <1>2, <1>4, OthersWork DEF WorkInv
<1>5. CASE target[w] \in Ids
  <2> DEFINE i == target[w]
             r == memories[i]
             d == Merge(i, draft[w])
  <2>1. /\ Become(w, "write", who[w], i, d)
        /\ stale'[w] = (stale[w] /\ DependsOnEarlierRead(w))
    BY <1>5 DEF Get, TypeInv, TypeOK
  <2>2. r \in Row
    BY <1>5 DEF TypeInv, TypeOK
  <2>3. /\ d.topic = IF draft[w].topic = Keep THEN r.topic ELSE draft[w].topic
        /\ d.importance = IF draft[w].importance = Keep THEN r.importance ELSE draft[w].importance
        /\ d.expired = IF draft[w].expired = Keep THEN r.expired ELSE draft[w].expired
    BY <2>2 DEF Merge, Row
  <2> HIDE DEF d
  <2>4. /\ pc'[w] = "write" /\ who'[w] = who[w] /\ target'[w] = i /\ draft'[w] = d
        /\ \A u \in Workers \ {w} : /\ pc'[u] = pc[u] /\ who'[u] = who[u]
                                     /\ target'[u] = target[u] /\ draft'[u] = draft[u]
    BY <2>1 DEF Become, TypeInv, TypeOK
  <2>5. Duty(w)'
    BY <1>1, <2>4 DEF Duty
  <2>6. Knows(w)'
    <3>1. SUFFICES ASSUME ~stale'[w], who[w] # "api"
                   PROVE  /\ who[w] # "impression" =>
                               d.topic = r.topic \/ <<r.topic, d.topic>> \in Similar
                          /\ r.expired => d.expired
                          /\ who[w] = "consolidate" => d.importance <= r.importance
      BY <1>1, <2>4 DEF Knows
    <3>2. r.importance \in {1, 2}
      BY <2>2 DEF Row, Importance
    <3>3. CASE who[w] = "turn"
      <4>1. ~stale[w]
        BY <1>1, <2>1, <3>1, <3>3 DEF DependsOnEarlierRead, Duty
      <4> QED
        BY <1>1, <1>5, <2>3, <3>3, <4>1 DEF Knows, Duty
    <3>4. CASE who[w] = "consolidate"
      <4>1. d.importance <= r.importance
        <5>1. CASE draft[w].importance = Keep
          BY <2>3, <3>2, <5>1
        <5>2. CASE draft[w].importance # Keep
          BY <1>1, <1>5, <2>1, <2>3, <3>1, <3>4, <5>2 DEF DependsOnEarlierRead, Knows
        <5> QED
          BY <5>1, <5>2
      <4> QED
        BY <1>1, <2>3, <3>4, <4>1 DEF Duty
    <3>5. CASE who[w] = "impression"
      BY <1>1, <2>3, <3>5 DEF Duty
    <3> QED
      BY <1>1, <3>1, <3>3, <3>4, <3>5 DEF Duty
  <2> QED
    BY <1>4, <2>4, <2>5, <2>6 DEF WorkInv
<1>6. CASE target[w] \notin Ids
  <2>1. Return(w)
    BY <1>6 DEF Get
  <2> QED
    BY <1>4, <2>1, ReturnWork DEF WorkInv
<1> QED
  BY <1>5, <1>6

\* What an update writes, unless it is a person's or rests on a changed row.
LEMMA WriteFaithful ==
  ASSUME WorkInv, NEW w \in Workers, pc[w] = "write", ~stale[w], target[w] \in Ids, who[w] # "api"
  PROVE  /\ memories[target[w]].type \in FactTypes =>
              \/ draft[w].topic = memories[target[w]].topic
              \/ <<memories[target[w]].topic, draft[w].topic>> \in Similar
         /\ memories[target[w]].expired => draft[w].expired
         /\ who[w] = "consolidate" => draft[w].importance <= memories[target[w]].importance
<1>1. Knows(w) /\ Duty(w)
  BY DEF WorkInv
<1>2. who[w] = "impression" => memories[target[w]].type \notin FactTypes
  BY <1>1, TypesAssumption DEF Duty
<1> QED
  BY <1>1, <1>2 DEF Knows

LEMMA WriteWork ==
  ASSUME TypeInv, WorkInv, NEW w \in Workers, Write(w)
  PROVE  WorkInv'
<1>1. /\ draft[w] \in Row /\ Return(w) /\ pc[w] = "write"
      /\ (target[w] \in Ids => draft[w].type = memories[target[w]].type)
  BY DEF Write, TypeInv, DraftFits
<1>2. /\ Ids' = Ids
      /\ \A i \in Ids : memories'[i] = IF i = target[w] THEN draft[w] ELSE memories[i]
  BY DEF Write, Ids
<1>3. \A u \in Workers \ {w} :
        /\ stale[u] => stale'[u]
        /\ pc[u] \in {"get", "write"} /\ who[u] # "api" /\ target[u] = target[w] => stale'[u]
        /\ pc[u] = "create" /\ who[u] # "api" /\ draft[u].type = draft[w].type => stale'[u]
  BY DEF Write, Overtakes
<1>4. ASSUME NEW u \in Workers \ {w} PROVE Duty(u)' /\ Knows(u)'
  <2>1. Duty(u) /\ Knows(u)
    BY DEF WorkInv
  <2>2. /\ pc'[u] = pc[u] /\ who'[u] = who[u] /\ target'[u] = target[u] /\ draft'[u] = draft[u]
    BY <1>1, ReturnWork
  <2> QED
    BY <1>1, <1>2, <1>3, <2>1, <2>2, OthersWork
<1> QED
  BY <1>1, <1>4, ReturnWork DEF WorkInv

LEMMA DeleteWork ==
  ASSUME TypeInv, WorkInv, NEW i \in Ids, Delete(i)
  PROVE  WorkInv'
<1>1. Ids' = Ids \ {i} /\ \A j \in Ids' : memories'[j] = memories[j]
  BY DEF Delete, Ids
<1>2. UNCHANGED <<worker, stale>>
  BY DEF Delete
<1>3. ASSUME NEW u \in Workers PROVE Duty(u)' /\ Knows(u)'
  <2>1. Duty(u) /\ Knows(u)
    BY DEF WorkInv
  <2>2. /\ pc'[u] = pc[u] /\ who'[u] = who[u] /\ target'[u] = target[u] /\ draft'[u] = draft[u]
    BY <1>2 DEF worker
  <2> QED
    BY <1>1, <1>2, <2>1, <2>2, OthersWork
<1> QED
  BY <1>3 DEF WorkInv

\* Linking, and giving up.
LEMMA AsideWork ==
  ASSUME TypeInv, WorkInv, NEW w \in Workers, ScanLinks(w) \/ AddLink(w) \/ Abandon(w)
  PROVE  WorkInv'
<1>1. UNCHANGED memories /\ Ids' = Ids
  BY DEF ScanLinks, AddLink, Abandon, Ids
<1>2. /\ pc'[w] \in {"idle", "link"}
      /\ \A u \in Workers \ {w} : /\ pc'[u] = pc[u] /\ who'[u] = who[u] /\ target'[u] = target[u]
                                   /\ draft'[u] = draft[u] /\ stale'[u] = stale[u]
  <2>1. CASE ScanLinks(w)
    BY <2>1 DEF ScanLinks, TypeInv, TypeOK
  <2>2. CASE AddLink(w)
    BY <2>2 DEF AddLink, TypeInv, TypeOK
  <2>3. CASE Abandon(w)
    BY <2>3 DEF Abandon, AtRest, TypeInv, TypeOK
  <2> QED
    BY <2>1, <2>2, <2>3
<1>3. ASSUME NEW u \in Workers \ {w} PROVE Duty(u)' /\ Knows(u)'
  BY <1>1, <1>2, OthersWork DEF WorkInv
<1>4. Duty(w)' /\ Knows(w)'
  BY <1>2 DEF Duty, Knows
<1> QED
  BY <1>3, <1>4 DEF WorkInv

LEMMA WorkStep == TypeInv /\ WorkInv /\ [Next]_vars => WorkInv'
<1> SUFFICES ASSUME TypeInv, WorkInv, [Next]_vars PROVE WorkInv'
  OBVIOUS
<1>1. CASE UNCHANGED vars
  <2>1. Ids' = Ids /\ UNCHANGED <<memories, pc, who, target, draft, stale>>
    BY <1>1 DEF vars, Ids
  <2>2. ASSUME NEW w \in Workers PROVE Duty(w)' /\ Knows(w)'
    BY <2>1, OthersWork DEF WorkInv
  <2> QED
    BY <2>2 DEF WorkInv
<1> QED
  BY <1>1, DecidingWork, CreateWork, GetWork, WriteWork, DeleteWork, AsideWork
     DEF Next, Begin, Proceed

LEMMA WorkInductive == Spec => []WorkInv
<1>1. Init => WorkInv
  BY DEF Init, AtRest, WorkInv, Duty, Knows, Ids
<1> QED
  BY <1>1, TypeInductive, WorkStep, PTL DEF Spec

\* The only step that changes a row that is there before and after it.
LEMMA OnlyWrites ==
  ASSUME TypeInv, [Next]_vars, NEW i \in Ids, i \in DOMAIN memories', memories'[i] # memories[i]
  PROVE  \E w \in Workers : Write(w) /\ target[w] = i /\ memories'[i] = draft[w]
<1>1. UNCHANGED memories => FALSE
  OBVIOUS
<1>2. ASSUME NEW w \in Workers, Create(w) PROVE FALSE
  BY <1>2 DEF Create, Ids, TypeInv, TypeOK
<1>3. ASSUME NEW k \in Ids, Delete(k) PROVE FALSE
  BY <1>3 DEF Delete, Ids
<1>4. ASSUME NEW w \in Workers, Write(w) PROVE target[w] = i /\ memories'[i] = draft[w]
  BY <1>4 DEF Write, Ids
<1> QED
  BY <1>1, <1>2, <1>3, <1>4, RowSteps

\* An update ends with its write, or is given up and nothing is stored.
LEMMA WritingEnds ==
  ASSUME TypeInv, [Next]_vars, NEW w \in Workers, pc[w] = "write", pc'[w] # "write"
  PROVE  Write(w) \/ UNCHANGED memories
<1>1. ASSUME NEW u \in Workers \ {w}, Begin(u) \/ Proceed(u) \/ Abandon(u) PROVE pc'[w] = pc[w]
  <2>1. ASSUME NEW at, NEW by, NEW i, NEW d, Become(u, at, by, i, d) PROVE pc'[w] = pc[w]
    BY <2>1 DEF Become, TypeInv, TypeOK
  <2>2. ASSUME NEW at, NEW by, NEW i, NEW d, Decide(u, at, by, i, d) PROVE pc'[w] = pc[w]
    BY <2>1, <2>2 DEF Decide
  <2>3. CASE Begin(u)
    BY <2>2, <2>3 DEF Begin, TurnFact, ApiPost, ApiPut, Consolidate, FormImpression, ScanLinks,
                      TypeInv, TypeOK
  <2>4. CASE Create(u) \/ Get(u) \/ Write(u)
    BY <2>1, <2>4 DEF Create, Get, Write, Return
  <2>5. CASE Archive(u) \/ Deprioritize(u) \/ ConsolidateEnds(u) \/ LinksEnd(u)
    BY <2>2, <2>5 DEF Archive, Deprioritize, ConsolidateEnds, LinksEnd
  <2>6. CASE AddLink(u) \/ Abandon(u)
    BY <2>6 DEF AddLink, Abandon, TypeInv, TypeOK
  <2> QED
    BY <1>1, <2>3, <2>4, <2>5, <2>6 DEF Proceed
<1>2. ASSUME NEW i \in Ids PROVE ~Delete(i)
  BY DEF Delete, worker
<1>3. Begin(w) \/ Proceed(w) \/ Abandon(w)
  BY <1>1, <1>2 DEF Next, vars
<1>4. ~Begin(w)
  BY DEF Begin, TurnFact, ApiPost, ApiPut, Consolidate, FormImpression, ScanLinks
<1>5. Proceed(w) => Write(w)
  BY DEF Proceed, Create, Get, Archive, Deprioritize, ConsolidateEnds, AddLink, LinksEnd
<1>6. Abandon(w) => UNCHANGED memories
  BY DEF Abandon
<1> QED
  BY <1>3, <1>4, <1>5, <1>6

\* A turn that has found no row that says its fact inserts one only where there
\* still is none, archived ones included, for any number of concurrent writers
\* and whatever the code takes for similar; unless a row of the type was stored
\* or rewritten between the two connections.
THEOREM NewFactsAreNew == Spec => NewFactsUnlikeOldUnlessStale
<1>1. ASSUME TypeInv, WorkInv, [Next]_vars, NEW w \in Workers, pc[w] = "create",
             pc'[w] # "create", nextId' # nextId, who[w] = "turn", ~stale[w]
      PROVE  \A i \in Ids : ~Near(i, draft[w].type, draft[w].topic)
  BY <1>1 DEF WorkInv, Knows
<1>2. TypeInv /\ WorkInv /\ [Next]_vars =>
        [\A w \in Workers :
           pc[w] = "create" /\ pc'[w] # "create" /\ nextId' # nextId /\ who[w] = "turn"
             => stale[w] \/ \A i \in Ids : ~Near(i, draft[w].type, draft[w].topic)]_vars
  BY <1>1
<1> QED
  BY <1>2, TypeInductive, WorkInductive, PTL DEF Spec, NewFactsUnlikeOldUnlessStale

\* An update of a row by a writer that is not excused leaves it what it was to
\* its writer.
LEMMA UpdatesFaithful ==
  ASSUME TypeInv, WorkInv, [Next]_vars, NEW i \in Ids, i \in DOMAIN memories',
         memories'[i] # memories[i], ~ByHand(i), ~OnOldRows(i)
  PROVE  /\ memories[i].type \in FactTypes =>
              \/ memories'[i].topic = memories[i].topic
              \/ <<memories[i].topic, memories'[i].topic>> \in Similar
         /\ memories[i].expired => memories'[i].expired
<1>1. PICK w \in Workers : Write(w) /\ target[w] = i /\ memories'[i] = draft[w]
  BY OnlyWrites
<1>2. pc[w] = "write" /\ Return(w)
  BY <1>1 DEF Write
<1>3. pc'[w] # "write"
  BY <1>2, ReturnForgets DEF TypeInv
<1>4. who[w] # "api" /\ ~stale[w]
  BY <1>1, <1>2, <1>3 DEF ByHand, OnOldRows, Updates
<1> QED
  BY <1>1, <1>2, <1>4, WriteFaithful

\* The words of a fact give way only to similar ones, unless a person changes
\* them or the row has changed since the writer chose it, for any number of
\* concurrent writers and whatever the code takes for similar.
THEOREM WordsStayClose == Spec => WordsStayCloseUnlessStale
<1>1. TypeInv /\ WorkInv /\ [Next]_vars =>
        [\A i \in Ids : memories[i].type \in FactTypes /\ i \in DOMAIN memories'
           => \/ memories'[i].topic = memories[i].topic
              \/ <<memories[i].topic, memories'[i].topic>> \in Similar
              \/ ByHand(i) \/ OnOldRows(i)]_vars
  BY UpdatesFaithful
<1> QED
  BY <1>1, TypeInductive, WorkInductive, PTL DEF Spec, WordsStayCloseUnlessStale

\* Only a person takes an archiving back, and consolidation never raises an
\* importance, for any number of concurrent writers, unless the row has changed
\* since the writer chose it.
THEOREM JobsLeaveFacts == Spec => JobsLeaveFactsUnlessStale
<1>1. ASSUME TypeInv, WorkInv, [Next]_vars, NEW w \in Workers, NEW i \in Ids, Updates(w, i),
             who[w] = "consolidate", ~stale[w], i \in DOMAIN memories'
      PROVE  memories'[i].importance <= memories[i].importance
  <2>1. pc[w] = "write" /\ target[w] = i /\ pc'[w] # "write"
    BY <1>1 DEF Updates
  <2>2. memories[i].importance \in {1, 2}
    <3>1. \A j \in Ids : memories[j] \in Row
      BY <1>1 DEF TypeInv, TypeOK
    <3> QED
      BY <1>1, <3>1 DEF Row, Importance
  <2>3. CASE UNCHANGED memories
    BY <2>2, <2>3
  <2>4. CASE Write(w)
    <3>1. memories'[i] = draft[w]
      BY <1>1, <2>1, <2>4 DEF Write, Ids
    <3> QED
      BY <1>1, <2>1, <3>1, WriteFaithful
  <2> QED
    BY <1>1, <2>1, <2>3, <2>4, WritingEnds
<1>2. TypeInv /\ WorkInv /\ [Next]_vars =>
        [\A i \in Ids : memories[i].expired /\ i \in DOMAIN memories'
           => memories'[i].expired \/ ByHand(i) \/ OnOldRows(i)]_vars
  BY UpdatesFaithful
<1>3. TypeInv /\ WorkInv /\ [Next]_vars =>
        [\A w \in Workers, i \in Ids : Updates(w, i) /\ who[w] = "consolidate"
           => \/ stale[w] \/ i \notin DOMAIN memories'
              \/ memories'[i].importance <= memories[i].importance]_vars
  BY <1>1
<1> QED
  BY <1>2, <1>3, TypeInductive, WorkInductive, PTL
     DEF Spec, JobsLeaveFactsUnlessStale, ArchiveIsFinalUnlessStale, ConsolidationLowersUnlessStale

-----------------------------------------------------------------------------
(* Reflections *)

\* Every step keeps the types: what the other proofs take for granted.
THEOREM ReflectionTypeCorrect == ReflectionSpec => []ReflectionTypeOK
<1>1. ReflectionInit => ReflectionTypeOK
  <2> SUFFICES ASSUME ReflectionInit PROVE ReflectionTypeOK
    OBVIOUS
  <2>1. doing \in [Tasks -> ReflectionLocation]
    BY DEF ReflectionInit, ReflectionLocation
  <2>2. seen \in [Tasks -> Nat] /\ job \in [Tasks -> Jobs]
    BY DEF ReflectionInit, Jobs
  <2>3. QED
    BY <2>1, <2>2 DEF ReflectionInit, ReflectionTypeOK
<1>2. ReflectionTypeOK /\ [ReflectionNext]_reflectionVars => ReflectionTypeOK'
  <2> SUFFICES ASSUME ReflectionTypeOK, [ReflectionNext]_reflectionVars PROVE ReflectionTypeOK'
    OBVIOUS
  <2> USE DEF ReflectionTypeOK, ReflectionLocation, Claiming, Reflecting, Moves, history, Jobs
  <2>1. ASSUME NEW t \in Tasks, NoteRead(t) PROVE ReflectionTypeOK'
    BY <2>1 DEF NoteRead
  <2>2. ASSUME NEW t \in Tasks, NoteWrite(t) PROVE ReflectionTypeOK'
    BY <2>2 DEF NoteWrite
  <2>3. ASSUME NEW t \in Tasks, StartLocal(t) PROVE ReflectionTypeOK'
    BY <2>3 DEF StartLocal
  <2>4. ASSUME NEW t \in Tasks, Disabled(t) PROVE ReflectionTypeOK'
    BY <2>4 DEF Disabled
  <2>5. ASSUME NEW t \in Tasks, ClaimReadTurns(t) PROVE ReflectionTypeOK'
    BY <2>5 DEF ClaimReadTurns
  <2>6. ASSUME NEW t \in Tasks, ClaimReadFlag(t) PROVE ReflectionTypeOK'
    BY <2>6 DEF ClaimReadFlag
  <2>7. ASSUME NEW t \in Tasks, ClaimWrite(t) PROVE ReflectionTypeOK'
    BY <2>7 DEF ClaimWrite
  <2>8. ASSUME NEW t \in Tasks, RunJob(t) PROVE ReflectionTypeOK'
    <3>1. job' \in [Tasks -> Jobs]
      BY <2>8 DEF RunJob
    <3>2. doing' \in [Tasks -> ReflectionLocation]
      BY <2>8 DEF RunJob
    <3>3. QED BY <2>8, <3>1, <3>2 DEF RunJob
  <2>9. ASSUME NEW t \in Tasks, BumpRead(t) PROVE ReflectionTypeOK'
    BY <2>9 DEF BumpRead
  <2>10. ASSUME NEW t \in Tasks, BumpWrite(t) PROVE ReflectionTypeOK'
    BY <2>10 DEF BumpWrite
  <2>11. ASSUME NEW t \in Tasks, Release(t) PROVE ReflectionTypeOK'
    BY <2>11 DEF Release
  <2>12. ASSUME NEW t \in Tasks, WriteFails(t) PROVE ReflectionTypeOK'
    BY <2>12 DEF WriteFails
  <2>13. CASE Crash
    BY <2>13 DEF Crash
  <2>14. CASE UNCHANGED reflectionVars
    BY <2>14 DEF reflectionVars
  <2>15. QED
    BY <2>1, <2>2, <2>3, <2>4, <2>5, <2>6, <2>7, <2>8, <2>9, <2>10, <2>11,
       <2>12, <2>13, <2>14 DEF ReflectionNext, Step
<1>3. QED
  BY <1>1, <1>2, PTL DEF ReflectionSpec

-----------------------------------------------------------------------------
(* Single flight *)

\* While no two claims have overlapped, one reflection runs at most, it holds
\* the flag, and a task that has decided to claim decided so while none ran.
FlightInv ==
  ~claimRaced =>
    /\ \A s, t \in Tasks : doing[s] \in Reflecting /\ doing[t] \in Reflecting => s = t
    /\ \A t \in Tasks : doing[t] \in Reflecting => reflecting
    /\ \A s, t \in Tasks : doing[t] = "claim" => doing[s] \notin Reflecting

LEMMA FlightStep == ReflectionTypeOK /\ FlightInv /\ [ReflectionNext]_reflectionVars => FlightInv'
  <2> SUFFICES ASSUME ReflectionTypeOK, FlightInv, [ReflectionNext]_reflectionVars PROVE FlightInv'
    OBVIOUS
  <2> USE DEF ReflectionTypeOK, FlightInv, ReflectionLocation, Claiming, Reflecting, Moves, history
  <2>1. ASSUME NEW t \in Tasks, NoteRead(t) PROVE FlightInv'
    BY <2>1 DEF NoteRead
  <2>2. ASSUME NEW t \in Tasks, NoteWrite(t) PROVE FlightInv'
    BY <2>2 DEF NoteWrite
  <2>3. ASSUME NEW t \in Tasks, StartLocal(t) PROVE FlightInv'
    BY <2>3 DEF StartLocal
  <2>4. ASSUME NEW t \in Tasks, Disabled(t) PROVE FlightInv'
    BY <2>4 DEF Disabled
  <2>5. ASSUME NEW t \in Tasks, ClaimReadTurns(t) PROVE FlightInv'
    BY <2>5 DEF ClaimReadTurns
  <2>6. ASSUME NEW t \in Tasks, ClaimReadFlag(t) PROVE FlightInv'
    BY <2>6 DEF ClaimReadFlag
  <2>7. ASSUME NEW t \in Tasks, ClaimWrite(t) PROVE FlightInv'
    BY <2>7 DEF ClaimWrite
  <2>8. ASSUME NEW t \in Tasks, RunJob(t) PROVE FlightInv'
    BY <2>8 DEF RunJob
  <2>9. ASSUME NEW t \in Tasks, BumpRead(t) PROVE FlightInv'
    BY <2>9 DEF BumpRead
  <2>10. ASSUME NEW t \in Tasks, BumpWrite(t) PROVE FlightInv'
    BY <2>10 DEF BumpWrite
  <2>11. ASSUME NEW t \in Tasks, Release(t) PROVE FlightInv'
    BY <2>11 DEF Release
  <2>12. ASSUME NEW t \in Tasks, WriteFails(t) PROVE FlightInv'
    BY <2>12 DEF WriteFails
  <2>13. CASE Crash
    BY <2>13 DEF Crash
  <2>14. CASE UNCHANGED reflectionVars
    BY <2>14 DEF reflectionVars
  <2>15. QED
    BY <2>1, <2>2, <2>3, <2>4, <2>5, <2>6, <2>7, <2>8, <2>9, <2>10, <2>11,
       <2>12, <2>13, <2>14 DEF ReflectionNext, Step

LEMMA FlightInductive == ReflectionSpec => []FlightInv
<1>1. ReflectionInit => FlightInv
  BY DEF ReflectionInit, FlightInv, Reflecting
<1>2. QED
  BY <1>1, FlightStep, ReflectionTypeCorrect, PTL DEF ReflectionSpec

\* run_reflection_if_due is single-flight and holds the flag as long as no two
\* claim_reflection calls overlap, through crashes and failed writes.
THEOREM SingleFlightHolds == ReflectionSpec => []SingleFlightUnlessRaced
<1>1. FlightInv => SingleFlightUnlessRaced
  BY DEF FlightInv, SingleFlightUnlessRaced, SingleFlight, Active
<1>2. QED
  BY <1>1, FlightInductive, PTL

-----------------------------------------------------------------------------
(* Cadence *)

\* The counter is at least what a claim in progress has read of it, which is at
\* least the threshold once the claim is decided; and each committed claim
\* accounts for Threshold counted turns.
CadenceInv ==
  ~claimRaced /\ ~noteRaced =>
    /\ \A t \in Tasks : doing[t] \in Claiming => seen[t] <= turns
    /\ \A t \in Tasks : doing[t] = "claim" => seen[t] >= Threshold
    /\ claims * Threshold + turns <= noted

LEMMA CadenceStep ==
  ReflectionTypeOK /\ CadenceInv /\ [ReflectionNext]_reflectionVars => CadenceInv'
  <2> SUFFICES ASSUME ReflectionTypeOK, CadenceInv, [ReflectionNext]_reflectionVars
               PROVE  CadenceInv'
    OBVIOUS
  <2> USE ThresholdAssumption
      DEF ReflectionTypeOK, CadenceInv, ReflectionLocation, Claiming, Reflecting, Moves, history
  <2>1. ASSUME NEW t \in Tasks, NoteRead(t) PROVE CadenceInv'
    BY <2>1 DEF NoteRead
  <2>2. ASSUME NEW t \in Tasks, NoteWrite(t) PROVE CadenceInv'
    <3>1. claims * Threshold \in Nat
      OBVIOUS
    <3>2. CASE noteRaced' \/ claimRaced'
      BY <3>2
    <3>3. CASE ~noteRaced' /\ ~claimRaced'
      <4>1. turns' = turns + 1 /\ noted' = noted + 1 /\ UNCHANGED <<claims, seen>>
        BY <2>2, <3>3 DEF NoteWrite
      <4>2. ~claimRaced /\ ~noteRaced
        BY <2>2, <3>3 DEF NoteWrite
      <4>3. claims' * Threshold + turns' <= noted'
        BY <3>1, <4>1, <4>2
      <4>4. \A s \in Tasks : doing'[s] \in Claiming => doing'[s] = doing[s]
        BY <2>2 DEF NoteWrite
      <4>5. QED BY <4>1, <4>2, <4>3, <4>4
    <3>4. QED BY <3>2, <3>3
  <2>3. ASSUME NEW t \in Tasks, StartLocal(t) PROVE CadenceInv'
    BY <2>3 DEF StartLocal
  <2>4. ASSUME NEW t \in Tasks, Disabled(t) PROVE CadenceInv'
    BY <2>4 DEF Disabled
  <2>5. ASSUME NEW t \in Tasks, ClaimReadTurns(t) PROVE CadenceInv'
    BY <2>5 DEF ClaimReadTurns
  <2>6. ASSUME NEW t \in Tasks, ClaimReadFlag(t) PROVE CadenceInv'
    BY <2>6 DEF ClaimReadFlag
  <2>7. ASSUME NEW t \in Tasks, ClaimWrite(t) PROVE CadenceInv'
    <3>1. (claims + 1) * Threshold = claims * Threshold + Threshold
      OBVIOUS
    <3>2. CASE claimRaced' \/ noteRaced'
      BY <3>2
    <3>3. CASE ~claimRaced' /\ ~noteRaced'
      <4>1. ~claimRaced /\ ~noteRaced /\ turns >= Threshold
        BY <2>7, <3>3 DEF ClaimWrite
      <4>2. claims' * Threshold + turns' <= noted'
        BY <2>7, <3>1, <4>1 DEF ClaimWrite
      <4>3. \A s \in Tasks : doing'[s] \notin Claiming
        BY <2>7, <3>3 DEF ClaimWrite
      <4>4. QED BY <4>2, <4>3
    <3>4. QED BY <3>2, <3>3
  <2>8. ASSUME NEW t \in Tasks, RunJob(t) PROVE CadenceInv'
    BY <2>8 DEF RunJob
  <2>9. ASSUME NEW t \in Tasks, BumpRead(t) PROVE CadenceInv'
    BY <2>9 DEF BumpRead
  <2>10. ASSUME NEW t \in Tasks, BumpWrite(t) PROVE CadenceInv'
    BY <2>10 DEF BumpWrite
  <2>11. ASSUME NEW t \in Tasks, Release(t) PROVE CadenceInv'
    BY <2>11 DEF Release
  <2>12. ASSUME NEW t \in Tasks, WriteFails(t) PROVE CadenceInv'
    BY <2>12 DEF WriteFails
  <2>13. CASE Crash
    BY <2>13 DEF Crash
  <2>14. CASE UNCHANGED reflectionVars
    BY <2>14 DEF reflectionVars
  <2>15. QED
    BY <2>1, <2>2, <2>3, <2>4, <2>5, <2>6, <2>7, <2>8, <2>9, <2>10, <2>11,
       <2>12, <2>13, <2>14 DEF ReflectionNext, Step

\* Reflections are at least Threshold counted turns apart on average, as long
\* as the reads and writes of the counter do not overlap.
THEOREM CadenceHolds == ReflectionSpec => []CadenceUnlessRaced
<1>1. ReflectionInit => CadenceInv
  BY ThresholdAssumption DEF ReflectionInit, CadenceInv, Claiming
<1>2. CadenceInv => CadenceUnlessRaced
  BY DEF CadenceInv, CadenceUnlessRaced
<1>3. QED
  BY <1>1, <1>2, CadenceStep, ReflectionTypeCorrect, PTL DEF ReflectionSpec

-----------------------------------------------------------------------------
(* The marker *)

\* The stored marker is an id of the log, and a bump about to be written is not
\* behind it.
MarkerInv ==
  /\ lastReflected <= chatId
  /\ \A t \in Tasks : doing[t] = "bumpWrite" => seen[t] <= chatId
  /\ ~claimRaced => \A t \in Tasks : doing[t] = "bumpWrite" => lastReflected <= seen[t]

LEMMA MarkerStep ==
  ReflectionTypeOK /\ FlightInv /\ MarkerInv /\ [ReflectionNext]_reflectionVars => MarkerInv'
  <2> SUFFICES ASSUME ReflectionTypeOK, FlightInv, MarkerInv, [ReflectionNext]_reflectionVars
               PROVE  MarkerInv'
    OBVIOUS
  <2> USE DEF ReflectionTypeOK, FlightInv, MarkerInv, ReflectionLocation, Claiming, Reflecting,
              Moves, history
  <2>1. ASSUME NEW t \in Tasks, NoteRead(t) PROVE MarkerInv'
    BY <2>1 DEF NoteRead
  <2>2. ASSUME NEW t \in Tasks, NoteWrite(t) PROVE MarkerInv'
    BY <2>2 DEF NoteWrite
  <2>3. ASSUME NEW t \in Tasks, StartLocal(t) PROVE MarkerInv'
    BY <2>3 DEF StartLocal
  <2>4. ASSUME NEW t \in Tasks, Disabled(t) PROVE MarkerInv'
    BY <2>4 DEF Disabled
  <2>5. ASSUME NEW t \in Tasks, ClaimReadTurns(t) PROVE MarkerInv'
    BY <2>5 DEF ClaimReadTurns
  <2>6. ASSUME NEW t \in Tasks, ClaimReadFlag(t) PROVE MarkerInv'
    BY <2>6 DEF ClaimReadFlag
  <2>7. ASSUME NEW t \in Tasks, ClaimWrite(t) PROVE MarkerInv'
    BY <2>7 DEF ClaimWrite
  <2>8. ASSUME NEW t \in Tasks, RunJob(t) PROVE MarkerInv'
    BY <2>8 DEF RunJob
  <2>9. ASSUME NEW t \in Tasks, BumpRead(t) PROVE MarkerInv'
    BY <2>9 DEF BumpRead
  <2>10. ASSUME NEW t \in Tasks, BumpWrite(t) PROVE MarkerInv'
    BY <2>10 DEF BumpWrite
  <2>11. ASSUME NEW t \in Tasks, Release(t) PROVE MarkerInv'
    BY <2>11 DEF Release
  <2>12. ASSUME NEW t \in Tasks, WriteFails(t) PROVE MarkerInv'
    BY <2>12 DEF WriteFails
  <2>13. CASE Crash
    BY <2>13 DEF Crash
  <2>14. CASE UNCHANGED reflectionVars
    BY <2>14 DEF reflectionVars
  <2>15. QED
    BY <2>1, <2>2, <2>3, <2>4, <2>5, <2>6, <2>7, <2>8, <2>9, <2>10, <2>11,
       <2>12, <2>13, <2>14 DEF ReflectionNext, Step

\* last_reflected_message_id never moves back unless two reflections ran
\* together: between the read and the write of the bump nobody else writes it.
THEOREM MarkerHolds == ReflectionSpec => MarkerMonotone
<1>1. ReflectionInit => MarkerInv
  BY DEF ReflectionInit, MarkerInv
<1>2. ReflectionTypeOK /\ MarkerInv /\ [ReflectionNext]_reflectionVars =>
        [~claimRaced' => lastReflected' >= lastReflected]_reflectionVars
  <2> SUFFICES ASSUME ReflectionTypeOK, MarkerInv, [ReflectionNext]_reflectionVars, ~claimRaced'
               PROVE lastReflected' >= lastReflected \/ UNCHANGED reflectionVars
    OBVIOUS
  <2>1. CASE \E t \in Tasks : BumpWrite(t)
    BY <2>1 DEF BumpWrite, Moves, MarkerInv, ReflectionTypeOK, history
  <2>2. CASE lastReflected' = lastReflected
    BY <2>2 DEF ReflectionTypeOK
  <2>3. QED
    BY <2>1, <2>2
    DEF ReflectionNext, Step, reflectionVars, NoteRead, NoteWrite, StartLocal, Disabled,
       ClaimReadTurns, ClaimReadFlag, ClaimWrite, RunJob, BumpRead, Release,
       WriteFails, Crash
<1>3. QED
  BY <1>1, <1>2, MarkerStep, FlightInductive, ReflectionTypeCorrect, PTL DEF ReflectionSpec, MarkerMonotone

-----------------------------------------------------------------------------
(* The flag *)

\* A set flag belongs to a running reflection until the first fault.
LEMMA FlagStep ==
  ReflectionTypeOK /\ FlagMeansActive /\ [ReflectionNext]_reflectionVars => FlagMeansActive'
  <2> SUFFICES ASSUME ReflectionTypeOK, FlagMeansActive, [ReflectionNext]_reflectionVars
               PROVE FlagMeansActive'
    OBVIOUS
  <2> USE DEF ReflectionTypeOK, FlagMeansActive, Active, ReflectionLocation, Claiming, Reflecting,
              Moves, history
  <2>1. ASSUME NEW t \in Tasks, NoteRead(t) PROVE FlagMeansActive'
    BY <2>1 DEF NoteRead
  <2>2. ASSUME NEW t \in Tasks, NoteWrite(t) PROVE FlagMeansActive'
    BY <2>2 DEF NoteWrite
  <2>3. ASSUME NEW t \in Tasks, StartLocal(t) PROVE FlagMeansActive'
    BY <2>3 DEF StartLocal
  <2>4. ASSUME NEW t \in Tasks, Disabled(t) PROVE FlagMeansActive'
    BY <2>4 DEF Disabled
  <2>5. ASSUME NEW t \in Tasks, ClaimReadTurns(t) PROVE FlagMeansActive'
    BY <2>5 DEF ClaimReadTurns
  <2>6. ASSUME NEW t \in Tasks, ClaimReadFlag(t) PROVE FlagMeansActive'
    BY <2>6 DEF ClaimReadFlag
  <2>7. ASSUME NEW t \in Tasks, ClaimWrite(t) PROVE FlagMeansActive'
    BY <2>7 DEF ClaimWrite
  <2>8. ASSUME NEW t \in Tasks, RunJob(t) PROVE FlagMeansActive'
    BY <2>8 DEF RunJob
  <2>9. ASSUME NEW t \in Tasks, BumpRead(t) PROVE FlagMeansActive'
    BY <2>9 DEF BumpRead
  <2>10. ASSUME NEW t \in Tasks, BumpWrite(t) PROVE FlagMeansActive'
    BY <2>10 DEF BumpWrite
  <2>11. ASSUME NEW t \in Tasks, Release(t) PROVE FlagMeansActive'
    BY <2>11 DEF Release
  <2>12. ASSUME NEW t \in Tasks, WriteFails(t) PROVE FlagMeansActive'
    BY <2>12 DEF WriteFails
  <2>13. CASE Crash
    BY <2>13 DEF Crash
  <2>14. CASE UNCHANGED reflectionVars
    BY <2>14 DEF reflectionVars
  <2>15. QED
    BY <2>1, <2>2, <2>3, <2>4, <2>5, <2>6, <2>7, <2>8, <2>9, <2>10, <2>11,
       <2>12, <2>13, <2>14 DEF ReflectionNext, Step

\* run_reflection_if_due leaves the flag set behind it only after a crash or a
\* failed write: the handlers and the finally block cover everything else.
THEOREM FlagHolds == ReflectionSpec => []FlagMeansActive
<1>1. ReflectionInit => FlagMeansActive
  BY DEF ReflectionInit, FlagMeansActive
<1>2. QED
  BY <1>1, FlagStep, ReflectionTypeCorrect, PTL DEF ReflectionSpec

\* Reflections run one at a time and not too often, and the flag is theirs, for
\* any number of tasks, turns and faults.
THEOREM ReflectionsRegularHold == ReflectionSpec => []ReflectionsRegular
<1>1. SingleFlightUnlessRaced /\ CadenceUnlessRaced /\ FlagMeansActive => ReflectionsRegular
  BY DEF ReflectionsRegular
<1>2. QED
  BY <1>1, SingleFlightHolds, CadenceHolds, FlagHolds, PTL

\* Once the flag is set with nobody left to clear it, no task ever begins a
\* reflection again: nothing in claim_reflection or at start-up resets it.
THEOREM WedgeHolds == ReflectionSpec => WedgeIsPermanent
<1>1. ReflectionTypeOK /\ [ReflectionNext]_reflectionVars => [Wedged => Wedged']_reflectionVars
  <2> SUFFICES ASSUME ReflectionTypeOK, ReflectionNext, Wedged PROVE Wedged'
    BY DEF reflectionVars, Wedged, Reflecting
  <2> USE DEF ReflectionTypeOK, Wedged, ReflectionLocation, Claiming, Reflecting, Moves, history
  <2>1. ASSUME NEW t \in Tasks, NoteRead(t) PROVE Wedged'
    BY <2>1 DEF NoteRead
  <2>2. ASSUME NEW t \in Tasks, NoteWrite(t) PROVE Wedged'
    BY <2>2 DEF NoteWrite
  <2>3. ASSUME NEW t \in Tasks, StartLocal(t) PROVE Wedged'
    BY <2>3 DEF StartLocal
  <2>4. ASSUME NEW t \in Tasks, Disabled(t) PROVE Wedged'
    BY <2>4 DEF Disabled
  <2>5. ASSUME NEW t \in Tasks, ClaimReadTurns(t) PROVE Wedged'
    BY <2>5 DEF ClaimReadTurns
  <2>6. ASSUME NEW t \in Tasks, ClaimReadFlag(t) PROVE Wedged'
    BY <2>6 DEF ClaimReadFlag
  <2>7. ASSUME NEW t \in Tasks, ClaimWrite(t) PROVE Wedged'
    BY <2>7 DEF ClaimWrite
  <2>8. ASSUME NEW t \in Tasks, RunJob(t) PROVE Wedged'
    BY <2>8 DEF RunJob
  <2>9. ASSUME NEW t \in Tasks, BumpRead(t) PROVE Wedged'
    BY <2>9 DEF BumpRead
  <2>10. ASSUME NEW t \in Tasks, BumpWrite(t) PROVE Wedged'
    BY <2>10 DEF BumpWrite
  <2>11. ASSUME NEW t \in Tasks, Release(t) PROVE Wedged'
    BY <2>11 DEF Release
  <2>12. ASSUME NEW t \in Tasks, WriteFails(t) PROVE Wedged'
    BY <2>12 DEF WriteFails
  <2>13. CASE Crash
    BY <2>13 DEF Crash
  <2>14. QED
    BY <2>1, <2>2, <2>3, <2>4, <2>5, <2>6, <2>7, <2>8, <2>9, <2>10, <2>11,
       <2>12, <2>13 DEF ReflectionNext, Step
<1>2. QED
  BY <1>1, ReflectionTypeCorrect, PTL DEF ReflectionSpec, WedgeIsPermanent

\* Beside the other parts of the store the reflections move as on their own.
LEMMA ReflectionInStore == StoreSpec => ReflectionSpec
<1>1. StoreInit => ReflectionInit BY DEF StoreInit
<1>2. [ReflectionMoves \/ ContextMoves \/ SchemaMoves]_
        <<reflectionVars, contextVars, schemaVars, part>> => [ReflectionNext]_reflectionVars
  BY DEF ReflectionMoves, ContextMoves, SchemaMoves
<1>q. QED BY <1>1, <1>2, PTL DEF StoreSpec, ReflectionSpec

\* In the store too, reflections run one at a time, not too often, and leave no flag behind.
THEOREM StoreReflectionsRegular == StoreSpec => []ReflectionsRegular
BY ReflectionInStore, ReflectionsRegularHold, PTL

-----------------------------------------------------------------------------
(* Migrations *)

Files == [tables : BOOLEAN, markers : {{}, Steps}, mood : {NoRow, 1},
          moodTrust : Trusts, moodSlow : Slows \cup {NoRow}, meta : SUBSET Keys,
          trust : Trusts \cup {NoRow}, slow : Slows \cup {NoRow},
          runtime : {NoRow, 1}, runtimeMeta : SUBSET Keys]

FilesTyped ==
  /\ db \in Files /\ opened \in [Processes -> {"closed", "migrating", "open"}]
  /\ want \in [trust : Trusts, slow : Slows, meta : SUBSET Operational]

\* A file nobody has migrated yet still has every value where the version that wrote it
\* kept it, and none where it will be kept.
Unmoved(d) ==
  /\ d.slow = NoRow /\ d.runtime = NoRow
  /\ ~d.tables /\ ~Exists(d.mood) => ~Exists(d.moodSlow)
  /\ want.trust = IF d.trust \in Trusts \ {50} THEN d.trust ELSE d.moodTrust
  /\ want.slow = IF Exists(d.moodSlow) THEN d.moodSlow ELSE 50
  /\ want.meta = d.meta \cap Operational

Moved(d) ==
  /\ d.trust = want.trust /\ d.slow = want.slow /\ d.runtimeMeta = want.meta
  /\ d.meta \cap Retired = {}

\* The steps are one transaction: all of them are done or none, and who has the file open
\* has seen to it.
FilesInv ==
  /\ FilesTyped
  /\ db.markers = {} => Unmoved(db)
  /\ db.markers = Steps => Moved(db)
  /\ \A p \in Processes : opened[p] = "open" => db.markers = Steps

LEMMA StepsApart ==
  /\ Steps # {} /\ NoRow \notin Trusts /\ NoRow \notin Slows
  /\ 50 \in Trusts /\ 50 \in Slows /\ Operational \cap Retired = {}
BY DEF Steps, NoRow, Trusts, Slows, Operational, Retired

\* All steps on a file nobody has migrated: the values are in their new tables.
LEMMA FirstMigration ==
  ASSUME NEW d \in Files, d.markers = {}, Unmoved(d), FilesTyped,
         NEW e, e = GuardMetadataPurged(RuntimeBackfilled(ExistentialBackfilled(
                      ColumnsAdded(TrustBackfilled(Seeded(d))))))
  PROVE  e \in Files /\ e.markers = Steps /\ Moved(e)
<1> DEFINE d1 == Seeded(d)  d2 == TrustBackfilled(d1)  d3 == ColumnsAdded(d2)
           d4 == ExistentialBackfilled(d3)  d5 == RuntimeBackfilled(d4)
           Rest(x) == [x EXCEPT !.markers = {}]
<1>1. /\ d1 \in Files /\ d1.markers = {} /\ d1.trust = IF Exists(d.trust) THEN d.trust ELSE 50
      /\ d1.moodTrust = d.moodTrust /\ d1.moodSlow = d.moodSlow /\ d1.meta = d.meta
      /\ d1.slow = d.slow /\ d1.runtime = d.runtime /\ d1.tables = d.tables
      /\ d1.mood = 1 /\ d1.runtimeMeta = d.runtimeMeta
  BY StepsApart DEF Seeded, Files
<1> HIDE DEF d1
<1>2. /\ d2 = [d1 EXCEPT !.trust = IF d1.trust = 50 /\ d1.moodTrust # 50 THEN d1.moodTrust
                                   ELSE d1.trust,
                         !.markers = {"trust"}]
  BY <1>1 DEF TrustBackfilled, Marked, Files
<1>3. d2.trust = want.trust /\ d2.markers = {"trust"}
  BY <1>1, <1>2, StepsApart DEF Files, Unmoved, Exists, Trusts
<1>4. /\ d2.moodSlow = d.moodSlow /\ d2.meta = d.meta /\ d2.slow = NoRow /\ d2.runtime = NoRow
      /\ d2.mood = 1 /\ d2.moodTrust = d.moodTrust /\ d2.tables = d.tables
      /\ d2.runtimeMeta = d.runtimeMeta
      /\ d2 = [tables |-> d.tables, markers |-> {"trust"}, mood |-> 1, moodTrust |-> d.moodTrust,
               moodSlow |-> d.moodSlow, meta |-> d.meta, trust |-> want.trust, slow |-> NoRow,
               runtime |-> NoRow, runtimeMeta |-> d.runtimeMeta]
  BY <1>1, <1>2, <1>3 DEF Unmoved, Files
<1> HIDE DEF d2
<1> DEFINE slow == IF Exists(d.moodSlow) THEN d.moodSlow ELSE 50
<1>5. d3 = [tables |-> d.tables, markers |-> {"trust", "columns"}, mood |-> 1,
            moodTrust |-> d.moodTrust, moodSlow |-> slow, meta |-> d.meta, trust |-> want.trust,
            slow |-> NoRow, runtime |-> NoRow, runtimeMeta |-> d.runtimeMeta]
  BY <1>4 DEF ColumnsAdded, Marked, Exists
<1> HIDE DEF d3
<1>6. slow = want.slow BY DEF Unmoved
<1> HIDE DEF slow
<1>7. d4 = [tables |-> d.tables, markers |-> {"trust", "columns", "existential"}, mood |-> 1,
            moodTrust |-> d.moodTrust, moodSlow |-> slow, meta |-> d.meta, trust |-> want.trust,
            slow |-> slow, runtime |-> NoRow, runtimeMeta |-> d.runtimeMeta]
  BY <1>5 DEF ExistentialBackfilled, Marked, Exists
<1> HIDE DEF d4
<1>8. d5 = [tables |-> d.tables, markers |-> {"trust", "columns", "existential", "runtime"},
            mood |-> 1, moodTrust |-> d.moodTrust, moodSlow |-> slow, meta |-> d.meta,
            trust |-> want.trust, slow |-> slow, runtime |-> 1,
            runtimeMeta |-> d.meta \cap Operational]
  BY <1>7 DEF RuntimeBackfilled, Marked, Exists
<1> HIDE DEF d5
<1>9. e = [tables |-> d.tables, markers |-> Steps, mood |-> 1, moodTrust |-> d.moodTrust,
           moodSlow |-> slow, meta |-> d.meta \ Retired, trust |-> want.trust, slow |-> slow,
           runtime |-> 1, runtimeMeta |-> (d.meta \cap Operational) \ Retired]
  <2>1. e = GuardMetadataPurged(d5) BY DEF d1, d2, d3, d4, d5
  <2>2. /\ "purge" \notin {"trust", "columns", "existential", "runtime"}
        /\ {"trust", "columns", "existential", "runtime"} \cup {"purge"} = Steps
    BY DEF Steps
  <2>3. d5.markers = {"trust", "columns", "existential", "runtime"} BY <1>8
  <2>4. e = [d5 EXCEPT !.meta = d5.meta \ Retired, !.runtimeMeta = d5.runtimeMeta \ Retired,
                       !.markers = d5.markers \cup {"purge"}]
    BY <1>8, <2>1, <2>2, <2>3 DEF GuardMetadataPurged, Marked
  <2>q. QED BY <1>8, <2>2, <2>4
<1>10. (d.meta \cap Operational) \ Retired = want.meta BY StepsApart DEF Unmoved
<1>11. /\ d.tables \in BOOLEAN /\ d.moodTrust \in Trusts /\ d.meta \subseteq Keys
       /\ want.trust \in Trusts /\ want.slow \in Slows /\ want.meta \subseteq Operational
       /\ Operational \subseteq Keys
  BY DEF Files, FilesTyped, Keys
<1>q. QED BY <1>6, <1>9, <1>10, <1>11 DEF Files, Moved

\* And on one that has been migrated: they change nothing but the row that is there anyway.
LEMMA LaterMigration ==
  ASSUME NEW d \in Files, d.markers = Steps, Moved(d), FilesTyped,
         NEW e, e = GuardMetadataPurged(RuntimeBackfilled(ExistentialBackfilled(
                      ColumnsAdded(TrustBackfilled(Seeded(d))))))
  PROVE  e \in Files /\ e.markers = Steps /\ Moved(e)
<1> DEFINE d1 == Seeded(d)
<1>1. want.trust \in Trusts /\ d.trust = want.trust BY DEF FilesTyped, Moved
<1>2. /\ d1 \in Files /\ d1.markers = Steps /\ d1.trust = d.trust /\ d1.slow = d.slow
      /\ d1.runtimeMeta = d.runtimeMeta /\ d1.meta = d.meta
  BY <1>1, StepsApart DEF Seeded, Files, Exists
<1> HIDE DEF d1
<1>3. TrustBackfilled(d1) = d1 BY <1>2 DEF TrustBackfilled, Steps
<1>4. ColumnsAdded(d1) = d1 BY <1>2 DEF ColumnsAdded, Steps
<1>5. ExistentialBackfilled(d1) = d1 BY <1>2 DEF ExistentialBackfilled, Steps
<1>6. RuntimeBackfilled(d1) = d1 BY <1>2 DEF RuntimeBackfilled, Steps
<1>7. GuardMetadataPurged(d1) = d1 BY <1>2 DEF GuardMetadataPurged, Steps
<1>8. e = d1 BY <1>3, <1>4, <1>5, <1>6, <1>7 DEF d1
<1>q. QED BY <1>2, <1>8 DEF Moved

LEMMA FilesInit == SchemaInit => FilesInv
<1> SUFFICES ASSUME SchemaInit PROVE FilesInv OBVIOUS
<1>z. NoRow # 1
  <2>1. NoRow + 1 = 0 BY DEF NoRow
  <2>2. 1 + 1 # 0 OBVIOUS
  <2>q. QED BY <2>1, <2>2
<1>1. PICK version \in {"none", "trust in mood", "slow in mood"},
           trust \in Trusts, slow \in Slows, meta \in SUBSET Keys, moved \in Trusts \cup {NoRow} :
        LET held == IF version = "none" THEN [trust |-> 50, slow |-> 50, meta |-> {}]
                    ELSE [trust |-> trust, meta |-> meta,
                          slow |-> IF version = "slow in mood" THEN slow ELSE 50]
        IN /\ version = "none" => moved = NoRow
           /\ db = [tables |-> FALSE, markers |-> {},
                    mood |-> IF version = "none" THEN NoRow ELSE 1,
                    moodTrust |-> held.trust, meta |-> held.meta,
                    moodSlow |-> IF version = "slow in mood" THEN slow ELSE NoRow,
                    trust |-> moved, slow |-> NoRow, runtime |-> NoRow, runtimeMeta |-> {}]
           /\ want = [trust |-> IF moved \in Trusts \ {50} THEN moved ELSE held.trust,
                      slow |-> held.slow, meta |-> held.meta \cap Operational]
  BY DEF SchemaInit
<1>2. opened = [p \in Processes |-> "closed"] BY DEF SchemaInit
<1> DEFINE held == IF version = "none" THEN [trust |-> 50, slow |-> 50, meta |-> {}]
                   ELSE [trust |-> trust, meta |-> meta,
                         slow |-> IF version = "slow in mood" THEN slow ELSE 50]
<1>3. /\ held.trust \in Trusts /\ held.slow \in Slows /\ held.meta \in SUBSET Keys
      /\ version # "slow in mood" => held.slow = 50
      /\ version = "slow in mood" => held.slow = slow
  <2>1. CASE version = "none" BY <2>1, StepsApart
  <2>2. CASE version # "none" BY <2>2, StepsApart
  <2>q. QED BY <2>1, <2>2
<1>4. /\ db = [tables |-> FALSE, markers |-> {},
               mood |-> IF version = "none" THEN NoRow ELSE 1,
               moodTrust |-> held.trust, meta |-> held.meta,
               moodSlow |-> IF version = "slow in mood" THEN slow ELSE NoRow,
               trust |-> moved, slow |-> NoRow, runtime |-> NoRow, runtimeMeta |-> {}]
      /\ want = [trust |-> IF moved \in Trusts \ {50} THEN moved ELSE held.trust,
                 slow |-> held.slow, meta |-> held.meta \cap Operational]
  BY <1>1
<1> HIDE DEF held
<1>5. /\ db.markers = {} /\ db.slow = NoRow /\ db.runtime = NoRow /\ db.trust = moved
      /\ db.mood = IF version = "none" THEN NoRow ELSE 1
      /\ db.moodTrust = held.trust /\ db.meta = held.meta
      /\ db.moodSlow = IF version = "slow in mood" THEN slow ELSE NoRow
      /\ want.trust = IF moved \in Trusts \ {50} THEN moved ELSE held.trust
      /\ want.slow = held.slow /\ want.meta = held.meta \cap Operational
  BY <1>4
<1>6. FilesTyped
  <2>1. db \in Files BY <1>3, <1>4 DEF Files
  <2>2. opened \in [Processes -> {"closed", "migrating", "open"}] BY <1>2
  <2>3. want \in [trust : Trusts, slow : Slows, meta : SUBSET Operational] BY <1>3, <1>4
  <2>q. QED BY <2>1, <2>2, <2>3 DEF FilesTyped
<1>7. Unmoved(db)
  <2>1. ~Exists(db.mood) => ~Exists(db.moodSlow)
    <3>1. CASE version = "none"
      <4>1. version # "slow in mood" BY <3>1
      <4>q. QED BY <1>5, <4>1 DEF Exists
    <3>2. CASE version # "none"
      <4>1. NoRow # 1 BY <1>z
      <4>2. db.mood = 1 BY <1>5, <3>2
      <4>q. QED BY <4>1, <4>2 DEF Exists
    <3>q. QED BY <3>1, <3>2
  <2>q. QED BY <1>3, <1>5, <2>1, StepsApart DEF Unmoved, Exists
<1>q. QED BY <1>2, <1>5, <1>6, <1>7, StepsApart DEF FilesInv

LEMMA FilesStep == FilesInv /\ [SchemaNext]_schemaVars => FilesInv'
<1> SUFFICES ASSUME FilesInv, [SchemaNext]_schemaVars PROVE FilesInv' OBVIOUS
<1>t. /\ db \in Files /\ opened \in [Processes -> {"closed", "migrating", "open"}]
      /\ want \in [trust : Trusts, slow : Slows, meta : SUBSET Operational]
      /\ db.markers = {} \/ db.markers = Steps
  BY DEF FilesInv, FilesTyped, Files
<1>w. want.trust \in Trusts /\ want.slow \in Slows /\ want.meta \subseteq Operational BY <1>t
<1>1. ASSUME NEW p \in Processes, Open(p) PROVE FilesInv'
  <2> DEFINE slow == IF ~db.tables /\ ~Exists(db.mood) THEN 50 ELSE db.moodSlow
  <2>1. /\ db' = [db EXCEPT !.tables = TRUE, !.moodSlow = slow] /\ want' = want
        /\ opened' = [opened EXCEPT ![p] = "migrating"]
    BY <1>1 DEF Open
  <2>2. /\ slow \in Slows \cup {NoRow}
        /\ db.markers = {} => (slow = 50 /\ want.slow = 50) \/ slow = db.moodSlow
    BY <1>t, StepsApart DEF Files, FilesInv, Unmoved, Exists
  <2> HIDE DEF slow
  <2>3. /\ db' \in Files /\ db'.markers = db.markers /\ db'.trust = db.trust
        /\ db'.slow = db.slow /\ db'.runtime = db.runtime /\ db'.moodTrust = db.moodTrust
        /\ db'.meta = db.meta /\ db'.runtimeMeta = db.runtimeMeta /\ db'.moodSlow = slow
        /\ db'.tables
    BY <1>t, <2>1, <2>2 DEF Files
  <2>4. FilesTyped' BY <1>t, <2>1, <2>3 DEF FilesTyped
  <2>5. db'.markers = {} => Unmoved(db)'
    BY <2>1, <2>2, <2>3, StepsApart DEF FilesInv, Unmoved, Exists
  <2>6. db'.markers = Steps => Moved(db)' BY <2>1, <2>3 DEF FilesInv, Moved
  <2>7. \A q \in Processes : opened'[q] = "open" => opened[q] = "open" BY <1>t, <2>1
  <2>q. QED BY <2>3, <2>4, <2>5, <2>6, <2>7 DEF FilesInv
<1>2. ASSUME NEW p \in Processes, Migrate(p) PROVE FilesInv'
  <2>1. /\ db' = GuardMetadataPurged(RuntimeBackfilled(ExistentialBackfilled(
                   ColumnsAdded(TrustBackfilled(Seeded(db))))))
        /\ opened' = [opened EXCEPT ![p] = "open"] /\ want' = want
    BY <1>2 DEF Migrate
  <2>2. FilesTyped BY DEF FilesInv
  <2>3. PICK e : e = GuardMetadataPurged(RuntimeBackfilled(ExistentialBackfilled(
                       ColumnsAdded(TrustBackfilled(Seeded(db))))))
    OBVIOUS
  <2>4. e \in Files /\ e.markers = Steps /\ Moved(e)
    BY <1>t, <2>2, <2>3, FirstMigration, LaterMigration DEF FilesInv
  <2>5. db' = e BY <2>1, <2>3
  <2>6. Moved(db)' BY <2>1, <2>4, <2>5 DEF Moved
  <2>7. FilesTyped' BY <1>t, <2>1, <2>4, <2>5 DEF FilesTyped
  <2>q. QED BY <2>4, <2>5, <2>6, <2>7, StepsApart DEF FilesInv
<1>3. ASSUME NEW p \in Processes, Close(p) PROVE FilesInv'
  <2>1. opened' = [opened EXCEPT ![p] = "closed"] /\ db' = db /\ want' = want BY <1>3 DEF Close
  <2>2. \A q \in Processes : opened'[q] = "open" => opened[q] = "open" BY <1>t, <2>1
  <2>q. QED BY <1>t, <2>1, <2>2 DEF FilesInv, FilesTyped, Unmoved, Moved
<1>4. ASSUME NEW p \in Processes, UpdateRelationshipState(p) PROVE FilesInv'
  <2>1. PICK trust \in Trusts :
          db' = [db EXCEPT !.trust = trust] /\ want' = [want EXCEPT !.trust = trust]
    BY <1>4 DEF UpdateRelationshipState
  <2>2. opened' = opened /\ db.markers = Steps BY <1>4 DEF UpdateRelationshipState, FilesInv
  <2>3. Moved(db) BY <2>2 DEF FilesInv
  <2>4. FilesTyped' BY <1>t, <2>1, <2>2 DEF FilesTyped, Files
  <2>5. Moved(db)' BY <1>t, <2>1, <2>3 DEF Moved, Files
  <2>6. db'.markers = Steps BY <1>t, <2>1, <2>2 DEF Files
  <2>q. QED BY <2>4, <2>5, <2>6, StepsApart DEF FilesInv
<1>5. ASSUME NEW p \in Processes, UpdateExistentialState(p) PROVE FilesInv'
  <2>1. PICK slow \in Slows :
          db' = [db EXCEPT !.slow = slow] /\ want' = [want EXCEPT !.slow = slow]
    BY <1>5 DEF UpdateExistentialState
  <2>2. opened' = opened /\ db.markers = Steps BY <1>5 DEF UpdateExistentialState, FilesInv
  <2>3. Moved(db) BY <2>2 DEF FilesInv
  <2>4. FilesTyped' BY <1>t, <2>1, <2>2 DEF FilesTyped, Files
  <2>5. Moved(db)' BY <1>t, <2>1, <2>3 DEF Moved, Files
  <2>6. db'.markers = Steps BY <1>t, <2>1, <2>2 DEF Files
  <2>q. QED BY <2>4, <2>5, <2>6, StepsApart DEF FilesInv
<1>6. ASSUME NEW p \in Processes, ReplaceMoodMetadata(p) PROVE FilesInv'
  <2>1. PICK meta \in SUBSET Keys :
          /\ db' = [db EXCEPT !.meta = meta \ Retired, !.runtimeMeta = meta \cap Operational]
          /\ want' = [want EXCEPT !.meta = meta \cap Operational]
    BY <1>6 DEF ReplaceMoodMetadata
  <2>2. opened' = opened /\ db.markers = Steps BY <1>6 DEF ReplaceMoodMetadata, FilesInv
  <2>3. Moved(db) BY <2>2 DEF FilesInv
  <2>4. FilesTyped' BY <1>t, <2>1, <2>2 DEF FilesTyped, Files
  <2>5. Moved(db)' BY <1>t, <2>1, <2>3 DEF Moved, Files
  <2>6. db'.markers = Steps BY <1>t, <2>1, <2>2 DEF Files
  <2>q. QED BY <2>4, <2>5, <2>6, StepsApart DEF FilesInv
<1>7. CASE UNCHANGED schemaVars
  BY <1>7 DEF schemaVars, FilesInv, FilesTyped, Unmoved, Moved
<1>q. QED BY <1>1, <1>2, <1>3, <1>4, <1>5, <1>6, <1>7 DEF SchemaNext

LEMMA FilesInvariant == StoreSpec => [](part = "schema" => FilesInv)
<1>1. StoreInit => (part = "schema" => FilesInv) BY FilesInit DEF StoreInit
<1>2. ASSUME part = "schema" => FilesInv,
             [ReflectionMoves \/ ContextMoves \/ SchemaMoves]_
               <<reflectionVars, contextVars, schemaVars, part>>
      PROVE  (part = "schema" => FilesInv)'
  <2>1. CASE ReflectionMoves BY <2>1 DEF ReflectionMoves
  <2>2. CASE ContextMoves BY <2>2 DEF ContextMoves
  <2>3. CASE SchemaMoves BY <1>2, <2>3, FilesStep DEF SchemaMoves
  <2>4. CASE UNCHANGED <<reflectionVars, contextVars, schemaVars, part>>
    BY <1>2, <2>4, FilesStep
  <2>q. QED BY <1>2, <2>1, <2>2, <2>3, <2>4
<1>q. QED BY <1>1, <1>2, PTL DEF StoreSpec

\* However many processes open the file of an earlier version, die before or after their
\* steps and open it again while others write: who has it open reads the values that were
\* written last, and no step is missing (init_database).
THEOREM StoredValuesHold == StoreSpec => []StoredValuesSurvive
<1>1. ASSUME part = "schema" => FilesInv PROVE StoredValuesSurvive
  <2>1. SUFFICES ASSUME FilesInv, NEW p \in Processes, opened[p] = "open"
                 PROVE  /\ [trust |-> db.trust, slow |-> db.slow, meta |-> db.runtimeMeta] = want
                        /\ db.meta \cap Retired = {} /\ db.markers = Steps
    BY <1>1 DEF StoredValuesSurvive, ValuesSurvive
  <2>2. Moved(db) /\ db.markers = Steps BY <2>1 DEF FilesInv
  <2>3. want \in [trust : Trusts, slow : Slows, meta : SUBSET Operational]
    BY <2>1 DEF FilesInv, FilesTyped
  <2>4. want = [trust |-> want.trust, slow |-> want.slow, meta |-> want.meta] BY <2>3
  <2>q. QED BY <2>2, <2>4 DEF Moved
<1>q. QED BY <1>1, FilesInvariant, PTL

-----------------------------------------------------------------------------
(* Sums *)
LEMMA SumsAre ==
  ASSUME NEW s \in Seq(Nat)
  PROVE  /\ Sums(s) \in [0 .. Len(s) -> Nat]
         /\ Sums(s)[0] = 0
         /\ \A n \in 1 .. Len(s) : Sums(s)[n] = Sums(s)[n - 1] + s[n]
<1> DEFINE N == Len(s)
           step == [n \in 1 .. N |-> [a \in Nat |-> a + s[n]]]
           Good(f) == f = [n \in 0 .. N |-> IF n = 0 THEN 0 ELSE f[n - 1] + s[n]]
<1>1. N \in Nat /\ step \in [1 .. N -> [Nat -> Nat]] /\ 0 \in Nat
  OBVIOUS
<1>2. PICK g : Unfolds(g, N, Nat, 0, step)
  <2> HIDE DEF step, N
  <2> QED BY <1>1, Recursion
<1>3. g \in [0 .. N -> Nat] /\ g[0] = 0 /\ \A n \in 1 .. N : g[n] = g[n - 1] + s[n]
  <2>1. g \in [0 .. N -> Nat] /\ g[0] = 0 BY <1>2 DEF Unfolds
  <2>2. ASSUME NEW n \in 1 .. N PROVE g[n] = g[n - 1] + s[n]
    <3>1. n - 1 \in 0 .. N /\ s[n] \in Nat OBVIOUS
    <3>2. g[n - 1] \in Nat BY <2>1, <3>1
    <3>3. g[n] = step[n][g[n - 1]] BY <1>2 DEF Unfolds
    <3> QED BY <3>2, <3>3
  <2> QED BY <2>1, <2>2
<1>4. \E f : Good(f)
  <2>1. Good(g) BY <1>1, <1>3
  <2> QED BY <2>1
<1>5. Sums(s) = CHOOSE f : Good(f)
  BY DEF Sums
<1>6. Good(Sums(s))
  <2> HIDE DEF Good
  <2> QED BY <1>4, <1>5
<1>7. Sums(s) = g
  <2> DEFINE f == Sums(s)
  <2>1. f = [n \in 0 .. N |-> f[n]] /\ f[0] = 0 BY <1>1, <1>6
  <2>2. \A n \in 1 .. N : f[n - 1] = g[n - 1] => f[n] = g[n] BY <1>1, <1>3, <1>6
  <2>4. N \in Nat OBVIOUS
  <2>5. Unfolds(g, N, Nat, 0, step) BY <1>2
  <2> HIDE DEF N, step, f
  <2>3. f = g BY <2>4, <2>5, <2>1, <2>2, OneUnfolding
  <2> QED BY <2>3 DEF f
<1> QED BY <1>3, <1>7

\* The sum of two lists put together is the sum of their sums.
LEMMA SumsOfConcat ==
  ASSUME NEW s \in Seq(Nat), NEW t \in Seq(Nat)
  PROVE  /\ s \o t \in Seq(Nat) /\ SumOf(s) \in Nat /\ SumOf(t) \in Nat
         /\ SumOf(s \o t) = SumOf(s) + SumOf(t)
<1> DEFINE u == s \o t
           M == Len(s)
           N == Len(t)
<1>0. /\ u \in Seq(Nat) /\ Len(u) = M + N /\ M \in Nat /\ N \in Nat
      /\ \A i \in 1 .. M : u[i] = s[i]
      /\ \A i \in 1 .. N : u[M + i] = t[i]
  OBVIOUS
<1>1. Sums(s) \in [0 .. M -> Nat] /\ Sums(s)[0] = 0 /\ \A n \in 1 .. M : Sums(s)[n] = Sums(s)[n - 1] + s[n]
  BY SumsAre
<1>2. Sums(t) \in [0 .. N -> Nat] /\ Sums(t)[0] = 0 /\ \A n \in 1 .. N : Sums(t)[n] = Sums(t)[n - 1] + t[n]
  BY SumsAre
<1>3. /\ Sums(u) \in [0 .. M + N -> Nat] /\ Sums(u)[0] = 0
      /\ \A n \in 1 .. M + N : Sums(u)[n] = Sums(u)[n - 1] + u[n]
  <2> HIDE DEF u, M, N
  <2> QED BY <1>0, SumsAre
<1> HIDE DEF u, M, N
<1>4. \A n \in 0 .. M : Sums(u)[n] = Sums(s)[n]
  <2> DEFINE T == {n \in 0 .. M : Sums(u)[n] = Sums(s)[n]}
  <2>1. 0 \in T BY <1>0, <1>1, <1>3
  <2>2. \A n \in 0 .. M - 1 : n \in T => n + 1 \in T
    <3> TAKE n \in 0 .. M - 1
    <3> HAVE n \in T
    <3>1. n + 1 \in 1 .. M /\ n + 1 \in 1 .. M + N /\ (n + 1) - 1 = n BY <1>0
    <3>2. Sums(u)[n + 1] = Sums(u)[n] + u[n + 1] BY <1>3, <3>1
    <3>3. Sums(s)[n + 1] = Sums(s)[n] + s[n + 1] BY <1>1, <3>1
    <3> QED BY <1>0, <3>1, <3>2, <3>3
  <2> HIDE DEF T
  <2>3. 0 .. M \subseteq T BY <1>0, <2>1, <2>2, InductionTo
  <2> QED BY <2>3 DEF T
<1>5. \A n \in 0 .. N : Sums(u)[M + n] = Sums(s)[M] + Sums(t)[n]
  <2> DEFINE T == {n \in 0 .. N : Sums(u)[M + n] = Sums(s)[M] + Sums(t)[n]}
  <2>0. Sums(s)[M] \in Nat BY <1>0, <1>1
  <2>1. 0 \in T
    <3>1. Sums(u)[M] = Sums(s)[M] BY <1>0, <1>4
    <3>2. M + 0 = M /\ Sums(s)[M] + 0 = Sums(s)[M] BY <1>0, <2>0
    <3> QED BY <1>0, <1>2, <3>1, <3>2
  <2>2. \A n \in 0 .. N - 1 : n \in T => n + 1 \in T
    <3> TAKE n \in 0 .. N - 1
    <3> HAVE n \in T
    <3>1. n + 1 \in 1 .. N /\ M + n + 1 \in 1 .. M + N /\ (n + 1) - 1 = n /\ (M + n + 1) - 1 = M + n
      BY <1>0
    <3>2. Sums(u)[M + n + 1] = Sums(u)[M + n] + u[M + n + 1] BY <1>3, <3>1
    <3>3. Sums(t)[n + 1] = Sums(t)[n] + t[n + 1] BY <1>2, <3>1
    <3>4. u[M + n + 1] = t[n + 1] /\ t[n + 1] \in Nat /\ M + (n + 1) = M + n + 1
      <4>1. M + (n + 1) = M + n + 1 BY <1>0
      <4>2. u[M + (n + 1)] = t[n + 1] BY <1>0, <3>1
      <4>3. t[n + 1] \in Nat BY <3>1 DEF N
      <4> QED BY <4>1, <4>2, <4>3
    <3>5. Sums(t)[n] \in Nat BY <1>2, <3>1
    <3>6. Sums(u)[M + n] = Sums(s)[M] + Sums(t)[n] OBVIOUS
    <3>7. Sums(u)[M + n + 1] = (Sums(s)[M] + Sums(t)[n]) + t[n + 1] BY <3>2, <3>4, <3>6
    <3>8. Sums(u)[M + n + 1] = Sums(s)[M] + Sums(t)[n + 1] 
      <4>1. Sums(s)[M] \in Nat /\ Sums(t)[n] \in Nat /\ t[n + 1] \in Nat BY <2>0, <3>4, <3>5
      <4>2. (Sums(s)[M] + Sums(t)[n]) + t[n + 1] = Sums(s)[M] + (Sums(t)[n] + t[n + 1]) BY <4>1
      <4> QED BY <3>3, <3>7, <4>2
    <3>9. Sums(u)[M + (n + 1)] = Sums(s)[M] + Sums(t)[n + 1] BY <3>4, <3>8
    <3> QED BY <3>1, <3>9
  <2> HIDE DEF T
  <2>3. 0 .. N \subseteq T BY <1>0, <2>1, <2>2, InductionTo
  <2> QED BY <2>3 DEF T
<1>6. Sums(s)[M] \in Nat /\ Sums(t)[N] \in Nat /\ Sums(u)[M + N] = Sums(s)[M] + Sums(t)[N]
  BY <1>0, <1>1, <1>2, <1>5
<1> QED BY <1>0, <1>6 DEF SumOf, u, M, N

\* The sum of one number is that number, and of none is zero.
LEMMA SumsOfOne ==
  ASSUME NEW x \in Nat
  PROVE  <<x>> \in Seq(Nat) /\ SumOf(<<x>>) = x /\ SumOf(<<>>) = 0
<1>1. <<x>> \in Seq(Nat) /\ Len(<<x>>) = 1 /\ <<x>>[1] = x /\ <<>> \in Seq(Nat) /\ Len(<<>>) = 0
  OBVIOUS
<1>2. Sums(<<x>>)[0] = 0 /\ \A n \in 1 .. Len(<<x>>) : Sums(<<x>>)[n] = Sums(<<x>>)[n - 1] + (<<x>>)[n]
  BY <1>1, SumsAre
<1>3. Sums(<<x>>)[1] = x
  BY <1>1, <1>2
<1>4. Sums(<<>>)[0] = 0
  <2> DEFINE e == <<>>
  <2>1. e \in Seq(Nat) OBVIOUS
  <2> HIDE DEF e
  <2>2. Sums(e)[0] = 0 BY <2>1, SumsAre
  <2> QED BY <2>2 DEF e
<1> QED BY <1>1, <1>3, <1>4 DEF SumOf

-----------------------------------------------------------------------------
(* Tokens *)
\* A token is three characters, rounded down but for a text of one or two.
LEMMA TokensRound ==
  ASSUME NEW l \in Nat
  PROVE  /\ Tokens(l) \in Nat
         /\ l <= 3 * Tokens(l) + 2
         /\ l >= 3 => 3 * Tokens(l) <= l
<1>1. l \div 3 \in Nat /\ l <= 3 * (l \div 3) + 2 /\ 3 * (l \div 3) <= l OBVIOUS
<1>2. Max({1, l \div 3}) = IF 1 >= l \div 3 THEN 1 ELSE l \div 3 BY <1>1, MaxOfTwo
<1>3. Tokens(l) = IF l = 0 THEN 0 ELSE IF 1 >= l \div 3 THEN 1 ELSE l \div 3 BY <1>2 DEF Tokens
<1> QED BY <1>1, <1>3

\* A longer text costs no fewer tokens.
LEMMA TokensGrow ==
  ASSUME NEW l \in Nat, NEW m \in Nat, l <= m
  PROVE  Tokens(l) <= Tokens(m)
<1>1. l \div 3 \in Nat /\ m \div 3 \in Nat /\ l \div 3 <= m \div 3 OBVIOUS
<1>2. Max({1, l \div 3}) = IF 1 >= l \div 3 THEN 1 ELSE l \div 3 BY <1>1, MaxOfTwo
<1>3. Max({1, m \div 3}) = IF 1 >= m \div 3 THEN 1 ELSE m \div 3 BY <1>1, MaxOfTwo
<1>4. Tokens(l) = IF l = 0 THEN 0 ELSE IF 1 >= l \div 3 THEN 1 ELSE l \div 3 BY <1>2 DEF Tokens
<1>5. Tokens(m) = IF m = 0 THEN 0 ELSE IF 1 >= m \div 3 THEN 1 ELSE m \div 3 BY <1>3 DEF Tokens
<1> QED BY <1>1, <1>4, <1>5

Costs(lengths) == [i \in DOMAIN lengths |-> Tokens(lengths[i])]

\* The costs of a list of texts, one by one.
LEMMA CostsAre ==
  ASSUME NEW s \in Seq(Nat)
  PROVE  /\ Costs(s) \in Seq(Nat) /\ Len(Costs(s)) = Len(s)
         /\ \A i \in 1 .. Len(s) : Costs(s)[i] = Tokens(s[i])
         /\ \A i \in 1 .. Len(s) : s[i] \in Nat /\ s[i] <= 3 * Costs(s)[i] + 2
         /\ TokensOf(s) = SumOf(Costs(s))
<1>1. ASSUME NEW i \in 1 .. Len(s)
      PROVE  s[i] \in Nat /\ Tokens(s[i]) \in Nat /\ s[i] <= 3 * Tokens(s[i]) + 2
  <2>1. s[i] \in Nat OBVIOUS
  <2> QED BY <2>1, TokensRound
<1>2. Costs(s) = [i \in 1 .. Len(s) |-> Tokens(s[i])] BY DEF Costs
<1>3. Costs(s) \in Seq(Nat) /\ Len(Costs(s)) = Len(s) /\ \A i \in 1 .. Len(s) : Costs(s)[i] = Tokens(s[i])
  BY <1>1, <1>2
<1>4. TokensOf(s) = SumOf(Costs(s)) BY DEF TokensOf, Costs
<1> QED BY <1>1, <1>3, <1>4

\* The tokens of two lists put together are those of each.
LEMMA TokensOfConcat ==
  ASSUME NEW s \in Seq(Nat), NEW t \in Seq(Nat)
  PROVE  /\ TokensOf(s) \in Nat /\ TokensOf(t) \in Nat
         /\ TokensOf(s \o t) = TokensOf(s) + TokensOf(t)
<1>1. /\ s \o t \in Seq(Nat) /\ Len(s \o t) = Len(s) + Len(t)
      /\ Len(s) \in Nat /\ Len(t) \in Nat
      /\ \A i \in 1 .. Len(s) : (s \o t)[i] = s[i]
      /\ \A i \in 1 .. Len(t) : (s \o t)[Len(s) + i] = t[i]
  BY ConcatIs
<1> DEFINE u == s \o t
           a == Costs(s)
           b == Costs(t)
           c == Costs(u)
<1>2. a \in Seq(Nat) /\ Len(a) = Len(s) /\ (\A i \in 1 .. Len(s) : a[i] = Tokens(s[i])) /\ TokensOf(s) = SumOf(a)
  BY CostsAre
<1>3. b \in Seq(Nat) /\ Len(b) = Len(t) /\ (\A i \in 1 .. Len(t) : b[i] = Tokens(t[i])) /\ TokensOf(t) = SumOf(b)
  BY CostsAre
<1>4. c \in Seq(Nat) /\ Len(c) = Len(u) /\ (\A i \in 1 .. Len(u) : c[i] = Tokens(u[i])) /\ TokensOf(u) = SumOf(c)
  <2>1. u \in Seq(Nat) BY <1>1
  <2> HIDE DEF u
  <2> QED BY <2>1, CostsAre
<1> HIDE DEF a, b, c
<1>5. /\ a \o b \in Seq(Nat) /\ Len(a \o b) = Len(a) + Len(b)
      /\ \A i \in 1 .. Len(a) : (a \o b)[i] = a[i]
      /\ \A i \in 1 .. Len(b) : (a \o b)[Len(a) + i] = b[i]
  <2>1. a \in Seq(Nat) /\ b \in Seq(Nat) BY <1>2, <1>3
  <2> QED BY <2>1, ConcatIs
<1>6. c = a \o b
  <2>1. ASSUME NEW i \in 1 .. Len(c) PROVE c[i] = (a \o b)[i]
    <3>1. CASE i \in 1 .. Len(s)
      <4>1. c[i] = Tokens(u[i]) /\ u[i] = s[i] BY <1>1, <1>4, <3>1
      <4>2. (a \o b)[i] = Tokens(s[i]) BY <1>2, <1>5, <3>1
      <4> QED BY <4>1, <4>2
    <3>2. CASE ~(i \in 1 .. Len(s))
      <4>1. PICK k \in 1 .. Len(t) : i = Len(s) + k
        <5>1. i - Len(s) \in 1 .. Len(t) /\ i = Len(s) + (i - Len(s)) BY <1>1, <1>4, <3>2
        <5> QED BY <5>1
      <4>2. c[i] = Tokens(u[i]) /\ u[i] = t[k] BY <1>1, <1>4, <4>1
      <4>3. (a \o b)[i] = b[k] /\ b[k] = Tokens(t[k]) BY <1>2, <1>3, <1>5, <4>1
      <4> QED BY <4>2, <4>3
    <3> QED BY <3>1, <3>2
  <2>2. Len(c) = Len(a \o b) BY <1>1, <1>2, <1>3, <1>4, <1>5
  <2> HIDE DEF u
  <2> QED BY <1>4, <1>5, <2>1, <2>2, SameSeq
<1>7. SumOf(a \o b) = SumOf(a) + SumOf(b) /\ SumOf(a) \in Nat /\ SumOf(b) \in Nat
  BY <1>2, <1>3, SumsOfConcat
<1>8. TokensOf(u) = SumOf(a) + SumOf(b) BY <1>4, <1>6, <1>7
<1> QED BY <1>2, <1>3, <1>7, <1>8

\* The tokens of one text, and of none.
LEMMA TokensOfOne ==
  ASSUME NEW l \in Nat
  PROVE  TokensOf(<<l>>) = Tokens(l) /\ TokensOf(<<>>) = 0
<1>1. Tokens(l) \in Nat BY TokensRound
<1>2. [i \in DOMAIN <<l>> |-> Tokens((<<l>>)[i])] = <<Tokens(l)>> OBVIOUS
<1>3. [i \in DOMAIN <<>> |-> Tokens((<<>>)[i])] = <<>> OBVIOUS
<1>4. TokensOf(<<l>>) = SumOf(<<Tokens(l)>>)
  BY <1>2 DEF TokensOf
<1>5. TokensOf(<<>>) = SumOf(<<>>)
  BY <1>3 DEF TokensOf
<1> QED BY <1>1, <1>4, <1>5, SumsOfOne

\* What one more text adds to the two counts.
LEMMA OneMore ==
  ASSUME NEW a \in Nat, NEW b \in Nat, NEW x \in Nat, NEW y \in Nat, NEW n \in Nat,
         a <= 3 * b + 2 * n, x <= 3 * y + 2
  PROVE  a + x <= 3 * (b + y) + 2 * (n + 1)
OBVIOUS

\* Sums are compared term by term.
LEMMA SumsCompare ==
  ASSUME NEW s \in Seq(Nat), NEW t \in Seq(Nat), Len(s) = Len(t)
  PROVE  /\ (\A i \in 1 .. Len(s) : s[i] <= t[i]) => SumOf(s) <= SumOf(t)
         /\ (\A i \in 1 .. Len(s) : s[i] <= 3 * t[i] + 2) => SumOf(s) <= 3 * SumOf(t) + 2 * Len(s)
<1> DEFINE N == Len(s)
<1>1. Sums(s) \in [0 .. N -> Nat] /\ Sums(s)[0] = 0 /\ \A n \in 1 .. N : Sums(s)[n] = Sums(s)[n - 1] + s[n]
  BY SumsAre
<1>2. Sums(t) \in [0 .. N -> Nat] /\ Sums(t)[0] = 0 /\ \A n \in 1 .. N : Sums(t)[n] = Sums(t)[n - 1] + t[n]
  BY SumsAre
<1>3. N \in Nat /\ N = Len(t) /\ \A n \in 1 .. N : s[n] \in Nat /\ t[n] \in Nat OBVIOUS
<1> HIDE DEF N
<1>4. ASSUME NEW n \in 0 .. N - 1
      PROVE  /\ n + 1 \in 1 .. N /\ n \in 0 .. N /\ n + 1 \in 0 .. N
             /\ s[n + 1] \in Nat /\ t[n + 1] \in Nat
             /\ Sums(s)[n] \in Nat /\ Sums(t)[n] \in Nat
             /\ Sums(s)[n + 1] = Sums(s)[n] + s[n + 1]
             /\ Sums(t)[n + 1] = Sums(t)[n] + t[n + 1]
  <2>1. n + 1 \in 1 .. N /\ n \in 0 .. N /\ n + 1 \in 0 .. N /\ (n + 1) - 1 = n BY <1>3
  <2> QED BY <1>1, <1>2, <1>3, <2>1
<1>5. ASSUME \A i \in 1 .. N : s[i] <= t[i] PROVE Sums(s)[N] <= Sums(t)[N]
  <2> DEFINE T == {n \in 0 .. N : Sums(s)[n] <= Sums(t)[n]}
  <2>1. 0 \in T BY <1>1, <1>2, <1>3
  <2>2. \A n \in 0 .. N - 1 : n \in T => n + 1 \in T
    <3> TAKE n \in 0 .. N - 1
    <3> HAVE n \in T
    <3>1. s[n + 1] <= t[n + 1] BY <1>4, <1>5
    <3>2. Sums(s)[n] <= Sums(t)[n] OBVIOUS
    <3>3. Sums(s)[n] + s[n + 1] <= Sums(t)[n] + t[n + 1] BY <1>4, <3>1, <3>2
    <3> QED BY <1>4, <3>3
  <2> HIDE DEF T
  <2>3. 0 .. N \subseteq T BY <1>3, <2>1, <2>2, InductionTo
  <2>4. N \in T BY <1>3, <2>3
  <2> QED BY <2>4 DEF T
<1>6. ASSUME \A i \in 1 .. N : s[i] <= 3 * t[i] + 2 PROVE Sums(s)[N] <= 3 * Sums(t)[N] + 2 * N
  <2> DEFINE T == {n \in 0 .. N : Sums(s)[n] <= 3 * Sums(t)[n] + 2 * n}
  <2>1. 0 \in T BY <1>1, <1>2, <1>3
  <2>2. \A n \in 0 .. N - 1 : n \in T => n + 1 \in T
    <3> TAKE n \in 0 .. N - 1
    <3> HAVE n \in T
    <3>1. s[n + 1] <= 3 * t[n + 1] + 2 BY <1>4, <1>6
    <3>2. Sums(s)[n] <= 3 * Sums(t)[n] + 2 * n OBVIOUS
    <3>3. /\ Sums(s)[n] \in Nat /\ Sums(t)[n] \in Nat /\ s[n + 1] \in Nat /\ t[n + 1] \in Nat
          /\ n \in Nat
      BY <1>3, <1>4
    <3>4. Sums(s)[n] + s[n + 1] <= 3 * (Sums(t)[n] + t[n + 1]) + 2 * (n + 1)
      BY <3>1, <3>2, <3>3, OneMore
    <3> QED BY <1>4, <3>4
  <2> HIDE DEF T
  <2>3. 0 .. N \subseteq T BY <1>3, <2>1, <2>2, InductionTo
  <2>4. N \in T BY <1>3, <2>3
  <2> QED BY <2>4 DEF T
<1> QED BY <1>3, <1>5, <1>6 DEF SumOf, N

\* Counting in tokens loses at most two characters of each text.
LEMMA TokensOfRound ==
  ASSUME NEW s \in Seq(Nat)
  PROVE  SumOf(s) \in Nat /\ TokensOf(s) \in Nat /\ SumOf(s) <= 3 * TokensOf(s) + 2 * Len(s)
<1> DEFINE c == Costs(s)
<1>1. c \in Seq(Nat) /\ Len(s) = Len(c) /\ (\A i \in 1 .. Len(s) : s[i] <= 3 * c[i] + 2) /\ TokensOf(s) = SumOf(c)
  BY CostsAre
<1> HIDE DEF c
<1>2. SumOf(s) <= 3 * SumOf(c) + 2 * Len(s) BY <1>1, SumsCompare
<1>3. SumOf(s) \in Nat /\ SumOf(c) \in Nat BY <1>1, SumsOfConcat
<1> QED BY <1>1, <1>2, <1>3

\* A replayed row costs no less with its role than without.
LEMMA TokensOfRows ==
  ASSUME NEW s \in Seq(Nat)
  PROVE  /\ TokensOf([i \in DOMAIN s |-> s[i] + 6]) \in Nat
         /\ TokensOf(s) <= TokensOf([i \in DOMAIN s |-> s[i] + 6])
<1> DEFINE r == [i \in DOMAIN s |-> s[i] + 6]
           a == Costs(s)
           b == Costs(r)
<1>1. r \in Seq(Nat) /\ Len(r) = Len(s) /\ \A i \in 1 .. Len(s) : r[i] = s[i] + 6 OBVIOUS
<1> HIDE DEF r
<1>2. a \in Seq(Nat) /\ Len(a) = Len(s) /\ (\A i \in 1 .. Len(s) : a[i] = Tokens(s[i])) /\ TokensOf(s) = SumOf(a)
  BY CostsAre
<1>3. b \in Seq(Nat) /\ Len(b) = Len(r) /\ (\A i \in 1 .. Len(r) : b[i] = Tokens(r[i])) /\ TokensOf(r) = SumOf(b)
  BY <1>1, CostsAre
<1> HIDE DEF a, b
<1>4. ASSUME NEW i \in 1 .. Len(a) PROVE a[i] <= b[i]
  <2>1. s[i] \in Nat /\ r[i] \in Nat /\ s[i] <= r[i] BY <1>1, <1>2
  <2>2. Tokens(s[i]) <= Tokens(r[i]) BY <2>1, TokensGrow
  <2> QED BY <1>1, <1>2, <1>3, <2>2
<1>5. SumOf(a) <= SumOf(b) BY <1>1, <1>2, <1>3, <1>4, SumsCompare
<1>6. SumOf(b) \in Nat BY <1>3, SumsOfConcat
<1> QED BY <1>2, <1>3, <1>5, <1>6 DEF r

-----------------------------------------------------------------------------
(* The sections *)
\* What is packed fits, and the next section would not.
LEMMA PackedIs ==
  ASSUME NEW l \in Seq(Nat), NEW B \in Nat
  PROVE  \E p \in 0 .. Len(l) :
            /\ PackSections(l, B) = SubSeq(l, 1, p)
            /\ TokensOf(SubSeq(l, 1, p)) <= B
            /\ p < Len(l) => TokensOf(SubSeq(l, 1, p)) + Tokens(l[p + 1]) > B
<1> DEFINE fits == {n \in 0 .. Len(l) : TokensOf(SubSeq(l, 1, n)) <= B}
<1>1. 0 \in fits
  <2>1. SubSeq(l, 1, 0) = <<>> /\ 0 \in 0 .. Len(l) OBVIOUS
  <2>2. TokensOf(<<>>) = 0
    <3>1. 0 \in Nat OBVIOUS
    <3> QED BY <3>1, TokensOfOne
  <2>3. TokensOf(SubSeq(l, 1, 0)) = 0 BY <2>1, <2>2
  <2> QED BY <2>1, <2>3
<1>2. Len(l) \in Nat /\ fits \subseteq 0 .. Len(l) OBVIOUS
<1>3. Max(fits) \in fits /\ \A y \in fits : Max(fits) >= y
  <2> HIDE DEF fits
  <2> QED BY <1>1, <1>2, Largest
<1> DEFINE p == Max(fits)
<1>4. p \in 0 .. Len(l) /\ TokensOf(SubSeq(l, 1, p)) <= B
  BY <1>3
<1>5. PackSections(l, B) = SubSeq(l, 1, p) BY Zenon DEF PackSections
<1> HIDE DEF p
<1>6. ASSUME p < Len(l) PROVE TokensOf(SubSeq(l, 1, p)) + Tokens(l[p + 1]) > B
  <2>1. p + 1 \in 0 .. Len(l) /\ p \in 0 .. Len(l) - 1 /\ l[p + 1] \in Nat BY <1>4, <1>6
  <2>2. ~(p + 1 \in fits)
    <3> HIDE DEF fits
    <3> QED BY <1>2, <1>3, <1>4 DEF p
  <2>3. ~(TokensOf(SubSeq(l, 1, p + 1)) <= B) BY <2>1, <2>2
  <2>4. SubSeq(l, 1, p + 1) = SubSeq(l, 1, p) \o <<l[p + 1]>> BY <2>1, NextPrefix
  <2>5. SubSeq(l, 1, p) \in Seq(Nat) BY <1>4, PrefixIs
  <2>6. <<l[p + 1]>> \in Seq(Nat) /\ TokensOf(<<l[p + 1]>>) = Tokens(l[p + 1]) BY <2>1, SumsOfOne, TokensOfOne
  <2>7. /\ TokensOf(SubSeq(l, 1, p)) \in Nat /\ Tokens(l[p + 1]) \in Nat
        /\ TokensOf(SubSeq(l, 1, p) \o <<l[p + 1]>>) = TokensOf(SubSeq(l, 1, p)) + Tokens(l[p + 1])
    BY <2>1, <2>5, <2>6, TokensOfConcat, TokensRound
  <2>8. TokensOf(SubSeq(l, 1, p + 1)) = TokensOf(SubSeq(l, 1, p)) + Tokens(l[p + 1]) BY <2>4, <2>7, Zenon
  <2> DEFINE x == TokensOf(SubSeq(l, 1, p)) + Tokens(l[p + 1])
  <2>9. x \in Nat /\ ~(x <= B) BY <2>3, <2>7, <2>8
  <2> HIDE DEF x
  <2>10. x > B BY <2>9
  <2> QED BY <2>10 DEF x
<1> QED BY <1>4, <1>5, <1>6

\* What can be asked.
AskOK ==
  /\ ask.expired \subseteq 1 .. Stored
  /\ ask.links \in [1 .. Stored -> SUBSET (1 .. Stored)]
  /\ ask.sections \in Seq(Nat) /\ ask.raw \in Seq(Nat)
  /\ ask.user \in Nat /\ ask.language \in Language

\* The tokens of the fixed sections.
LEMMA SmallTokens == Tokens(Protocol) = 1 /\ Tokens(Trailer) = 1 /\ Tokens(0) = 0 /\ Tokens(12) = 4
<1>1. Max({1, 4 \div 3}) = 1 /\ Max({1, 3 \div 3}) = 1 /\ Max({1, 12 \div 3}) = 4
  <2>1. 4 \div 3 = 1 /\ 3 \div 3 = 1 /\ 12 \div 3 = 4 OBVIOUS
  <2>2. Max({1, 1}) = 1 /\ Max({1, 4}) = 4 BY MaxOfTwo
  <2> QED BY <2>1, <2>2
<1> QED BY <1>1 DEF Tokens, Protocol, Trailer

\* The user's message, cut off or not, has a length and a cost.
LEMMA UserIs ==
  ASSUME NEW l \in Nat
  PROVE  TruncateUserInput(l) \in Nat /\ Tokens(TruncateUserInput(l)) \in Nat
<1>1. MaxUserTokens \in Nat BY ContextAssumption
<1>2. TruncateUserInput(l) \in Nat BY <1>1 DEF TruncateUserInput, Suffix
<1> QED BY <1>2, TokensRound

\* The budget of the sections is a number, and what it pays for fits the input unless
\* the floor was taken.
LEMMA BudgetIs ==
  ASSUME AskOK
  PROVE  /\ MemoryBudget \in Nat
         /\ \/ MemoryBudget = MinMemoryBudget
            \/ MemoryBudget = MaxInputTokens - Reserved - 2 - Tokens(ask.language)
         /\ Reserved \in Nat
         /\ TokensOf(ask.raw) + Tokens(TruncateUserInput(ask.user)) <= Reserved
         /\ TokensOf(ask.raw) \in Nat
<1>1. TokensOf(ask.raw) \in Nat /\ TokensOf([i \in DOMAIN ask.raw |-> ask.raw[i] + 6]) \in Nat
      /\ TokensOf(ask.raw) <= TokensOf([i \in DOMAIN ask.raw |-> ask.raw[i] + 6])
  BY TokensOfRows, TokensOfRound DEF AskOK
<1>2. Tokens(TruncateUserInput(ask.user)) \in Nat BY UserIs DEF AskOK
<1>3. Reserved \in Nat /\ TokensOf(ask.raw) + Tokens(TruncateUserInput(ask.user)) <= Reserved
  BY <1>1, <1>2 DEF Reserved
<1>4. Tokens(ask.language) \in Nat BY SmallTokens DEF AskOK, Language
<1>5. MinMemoryBudget \in Nat /\ MaxInputTokens \in Nat BY ContextAssumption
<1> DEFINE rest == MaxInputTokens - Reserved - Tokens(Protocol) - Tokens(Trailer) - Tokens(ask.language)
<1>6. rest \in Int /\ rest = MaxInputTokens - Reserved - 2 - Tokens(ask.language)
  BY <1>3, <1>4, <1>5, SmallTokens
<1>7. MemoryBudget = Max({MinMemoryBudget, rest}) BY DEF MemoryBudget
<1> HIDE DEF rest
<1>8. MemoryBudget = IF MinMemoryBudget >= rest THEN MinMemoryBudget ELSE rest
  BY <1>5, <1>6, <1>7, MaxOfTwo
<1> QED BY <1>1, <1>3, <1>5, <1>6, <1>8

\* The sections of the system message.
System(packed, language) ==
  packed \o <<Protocol>> \o (IF language = 0 THEN <<>> ELSE <<language>>) \o <<Trailer>>
Message(packed, language) ==
  SumOf(System(packed, language)) + Separator * (Len(System(packed, language)) - 1)

\* The characters of the system message: those of its sections, and two between each
\* of them and the next.
LEMMA MessageIs ==
  ASSUME NEW packed \in Seq(Nat), NEW language \in Language
  PROVE  /\ Message(packed, language) \in Nat
         /\ Message(packed, language) =
              SumOf(packed) + 2 * Len(packed) + (IF language = 0 THEN 9 ELSE 23)
<1> DEFINE a == packed \o <<Protocol>>
           m == IF language = 0 THEN <<>> ELSE <<language>>
           b == a \o m
           c == b \o <<Trailer>>
<1>1. SumOf(<<4>>) = 4 /\ SumOf(<<3>>) = 3 /\ SumOf(<<12>>) = 12 /\ SumOf(<<>>) = 0
  <2>1. 4 \in Nat /\ 3 \in Nat /\ 12 \in Nat OBVIOUS
  <2> QED BY <2>1, SumsOfOne
<1>2. <<4>> \in Seq(Nat) /\ <<3>> \in Seq(Nat) /\ Len(<<4>>) = 1 /\ Len(<<3>>) = 1 OBVIOUS
<1>3. /\ a \in Seq(Nat) /\ SumOf(a) = SumOf(packed) + 4 /\ Len(a) = Len(packed) + 1
      /\ SumOf(packed) \in Nat /\ Len(packed) \in Nat /\ SumOf(a) \in Nat
  <2>1. a = packed \o <<4>> BY DEF Protocol
  <2>2. packed \o <<4>> \in Seq(Nat) /\ SumOf(packed \o <<4>>) = SumOf(packed) + SumOf(<<4>>) /\ SumOf(packed) \in Nat
    BY <1>2, SumsOfConcat
  <2>3. Len(packed \o <<4>>) = Len(packed) + 1 /\ Len(packed) \in Nat OBVIOUS
  <2> HIDE DEF a
  <2>4. SumOf(a) = SumOf(packed) + 4 BY <1>1, <2>1, <2>2
  <2> QED BY <2>1, <2>2, <2>3, <2>4
<1>4. m \in Seq(Nat) /\ SumOf(m) = language /\ Len(m) = (IF language = 0 THEN 0 ELSE 1) /\ language \in {0, 12}
  BY <1>1 DEF Language
<1> HIDE DEF a, m
<1>5. b \in Seq(Nat) /\ SumOf(b) = SumOf(a) + SumOf(m) /\ Len(b) = Len(a) + Len(m)
  <2>1. a \in Seq(Nat) /\ m \in Seq(Nat) BY <1>3, <1>4
  <2>2. a \o m \in Seq(Nat) /\ SumOf(a \o m) = SumOf(a) + SumOf(m) BY <2>1, SumsOfConcat
  <2>3. Len(a \o m) = Len(a) + Len(m) BY <2>1
  <2> QED BY <2>2, <2>3
<1>6. SumOf(b) = SumOf(packed) + 4 + language /\ Len(b) = Len(packed) + (IF language = 0 THEN 1 ELSE 2) /\ SumOf(b) \in Nat
  BY <1>3, <1>4, <1>5
<1> HIDE DEF b
<1>7. c \in Seq(Nat) /\ SumOf(c) = SumOf(b) + 3 /\ Len(c) = Len(b) + 1
  <2>1. c = b \o <<3>> BY DEF Trailer
  <2>2. b \o <<3>> \in Seq(Nat) /\ SumOf(b \o <<3>>) = SumOf(b) + SumOf(<<3>>)
    <3> DEFINE l == <<3>>
    <3>1. b \in Seq(Nat) /\ l \in Seq(Nat) BY <1>2, <1>5
    <3> HIDE DEF l
    <3>2. b \o l \in Seq(Nat) /\ SumOf(b \o l) = SumOf(b) + SumOf(l) BY <3>1, SumsOfConcat
    <3> QED BY <3>2 DEF l
  <2>3. Len(b \o <<3>>) = Len(b) + 1
    <3>1. b \in Seq(Nat) BY <1>5
    <3> HIDE DEF c
    <3> QED BY <3>1
  <2> HIDE DEF c
  <2> QED BY <1>1, <2>1, <2>2, <2>3
<1>8. System(packed, language) = c BY DEF System, a, b, m
<1> HIDE DEF c
<1>9. Message(packed, language) = SumOf(c) + 2 * (Len(c) - 1) BY <1>8 DEF Message, Separator
<1>10. SumOf(c) = SumOf(packed) + 7 + language BY <1>3, <1>4, <1>6, <1>7
<1>11. Len(c) = Len(packed) + (IF language = 0 THEN 2 ELSE 3) BY <1>3, <1>4, <1>6, <1>7
<1>12. CASE language = 0
  <2>1. SumOf(c) = SumOf(packed) + 7 /\ Len(c) = Len(packed) + 2 BY <1>3, <1>10, <1>11, <1>12
  <2>2. SumOf(packed) \in Nat /\ Len(packed) \in Nat BY <1>3
  <2> QED BY <1>9, <1>12, <2>1, <2>2
<1>13. CASE language = 12
  <2>1. SumOf(c) = SumOf(packed) + 19 /\ Len(c) = Len(packed) + 3 BY <1>3, <1>10, <1>11, <1>13
  <2>2. SumOf(packed) \in Nat /\ Len(packed) \in Nat BY <1>3
  <2> QED BY <1>9, <1>13, <2>1, <2>2
<1> QED BY <1>4, <1>12, <1>13

\* The characters that the roundings lose are fewer than four for each section.
LEMMA RoundingOf ==
  ASSUME NEW B \in Nat, NEW R \in Nat, NEW L \in Nat, NEW p \in Nat, NEW t \in Nat, NEW m \in Nat,
         NEW k \in Nat, NEW r \in Nat, NEW M \in Nat, NEW language \in {0, 12},
         t <= B, L <= 3 * t + 2 * p, 3 * k <= m, r <= R,
         m = L + 2 * p + (IF language = 0 THEN 9 ELSE 23),
         B = M - R - 2 - (IF language = 0 THEN 0 ELSE 4)
  PROVE  3 * (k + r) < 3 * M + 4 * (p + 3)
<1>1. CASE language = 0 BY <1>1
<1>2. CASE language = 12 BY <1>2
<1> QED BY <1>1, <1>2

\* The two claims about the sections hold of what a call builds.
LEMMA SectionsHonest ==
  ASSUME AskOK, BuildProviderContext
  PROVE  NoteCoversAll' /\ WithinBudgetButRounding'
<1> DEFINE packed == PackSections(ask.sections, MemoryBudget)
           m == Message(packed, ask.language)
           u == TruncateUserInput(ask.user)
<1>1. /\ built'.sections = packed
      /\ built'.tokens = TokensOf(<<m>> \o ask.raw \o <<u>>)
      /\ ask' = ask
  BY DEF BuildProviderContext, Message, System
<1>2. MemoryBudget' = MemoryBudget
  BY <1>1 DEF MemoryBudget, Reserved, TruncateUserInput
<1>3. ask.sections \in Seq(Nat) /\ ask.raw \in Seq(Nat) /\ ask.user \in Nat /\ ask.language \in Language
  BY DEF AskOK
<1>4. /\ MemoryBudget \in Nat
      /\ \/ MemoryBudget = MinMemoryBudget
         \/ MemoryBudget = MaxInputTokens - Reserved - 2 - Tokens(ask.language)
      /\ Reserved \in Nat /\ TokensOf(ask.raw) \in Nat
      /\ TokensOf(ask.raw) + Tokens(u) <= Reserved
  BY BudgetIs
<1>5. PICK p \in 0 .. Len(ask.sections) :
         /\ packed = SubSeq(ask.sections, 1, p)
         /\ TokensOf(SubSeq(ask.sections, 1, p)) <= MemoryBudget
         /\ p < Len(ask.sections) =>
               TokensOf(SubSeq(ask.sections, 1, p)) + Tokens(ask.sections[p + 1]) > MemoryBudget
  BY <1>3, <1>4, PackedIs
<1>6. packed \in Seq(Nat) /\ Len(packed) = p /\ \A i \in 1 .. p : packed[i] = ask.sections[i]
  BY <1>3, <1>5, PrefixIs
<1> HIDE DEF packed
<1>7. NoteCoversAll'
  <2>1. IsPrefix(packed, ask.sections)
    <3>1. Len(packed) <= Len(ask.sections) BY <1>5, <1>6
    <3> QED BY <1>3, <1>6, <3>1, PrefixOf
  <2>2. Len(packed) < Len(ask.sections) =>
          TokensOf(packed) + Tokens(ask.sections[Len(packed) + 1]) > MemoryBudget
    BY <1>5, <1>6
  <2>3. IsPrefix(built'.sections, ask'.sections)
    BY <1>1, <2>1
  <2>4. Len(built'.sections) < Len(ask'.sections) =>
          TokensOf(built'.sections) + Tokens(ask'.sections[Len(built'.sections) + 1]) > MemoryBudget'
    BY <1>1, <1>2, <2>2
  <2> QED BY <2>3, <2>4 DEF NoteCoversAll
<1>8. ASSUME MemoryBudget # MinMemoryBudget
      PROVE  3 * built'.tokens < 3 * MaxInputTokens + 4 * (Len(built'.sections) + 3)
  <2>1. m \in Nat /\ m = SumOf(packed) + 2 * Len(packed) + (IF ask.language = 0 THEN 9 ELSE 23)
    BY <1>3, <1>6, MessageIs
  <2>2. SumOf(packed) \in Nat /\ TokensOf(packed) \in Nat /\ SumOf(packed) <= 3 * TokensOf(packed) + 2 * Len(packed)
    BY <1>6, TokensOfRound
  <2> HIDE DEF m
  <2>3. u \in Nat /\ Tokens(u) \in Nat BY <1>3, UserIs
  <2> HIDE DEF u
  <2>4. m >= 3 BY <2>1, <2>2, <1>6
  <2>5. Tokens(m) \in Nat /\ 3 * Tokens(m) <= m BY <2>1, <2>4, TokensRound
  <2>6. built'.tokens = Tokens(m) + (TokensOf(ask.raw) + Tokens(u))
    <3>1. <<m>> \in Seq(Nat) /\ TokensOf(<<m>>) = Tokens(m) BY <2>1, TokensOfOne
    <3>2. <<u>> \in Seq(Nat) /\ TokensOf(<<u>>) = Tokens(u) BY <2>3, TokensOfOne
    <3> DEFINE h == <<m>>
               e == <<u>>
               a == h \o ask.raw
    <3>6. h \in Seq(Nat) /\ e \in Seq(Nat) BY <3>1, <3>2
    <3>7. built'.tokens = TokensOf(a \o e) BY <1>1 DEF m, u
    <3>8. TokensOf(h) = Tokens(m) /\ TokensOf(e) = Tokens(u) BY <3>1, <3>2
    <3> HIDE DEF h, e
    <3>3. a \in Seq(Nat) BY <1>3, <3>6
    <3>4. TokensOf(a) = TokensOf(h) + TokensOf(ask.raw) /\ TokensOf(h) \in Nat /\ TokensOf(ask.raw) \in Nat
      BY <1>3, <3>6, TokensOfConcat
    <3> HIDE DEF a
    <3>5. TokensOf(a \o e) = TokensOf(a) + TokensOf(e) /\ TokensOf(e) \in Nat
      BY <3>3, <3>6, TokensOfConcat
    <3> QED BY <3>4, <3>5, <3>7, <3>8
  <2>7. MemoryBudget = MaxInputTokens - Reserved - 2 - (IF ask.language = 0 THEN 0 ELSE 4) /\ ask.language \in {0, 12}
    BY <1>3, <1>4, <1>8, SmallTokens DEF Language
  <2> DEFINE k == Tokens(m)
             r == TokensOf(ask.raw) + Tokens(u)
             L == SumOf(packed)
             t == TokensOf(packed)
             lang == ask.language
             B == MemoryBudget
             R == Reserved
  <2>8. /\ k \in Nat /\ r \in Nat /\ L \in Nat /\ t \in Nat /\ B \in Nat /\ R \in Nat /\ p \in Nat
        /\ t <= B /\ L <= 3 * t + 2 * p /\ 3 * k <= m /\ r <= R /\ MaxInputTokens \in Nat
    <3>1. t <= B BY <1>5
    <3>2. L <= 3 * t + 2 * p BY <1>6, <2>2
    <3>3. r \in Nat BY <1>4, <2>3
    <3>4. p \in Nat /\ MaxInputTokens \in Nat BY ContextAssumption
    <3> QED BY <1>4, <2>2, <2>5, <3>1, <3>2, <3>3, <3>4
  <2>9. m = L + 2 * p + (IF lang = 0 THEN 9 ELSE 23) /\ lang \in {0, 12} /\ m \in Nat
    BY <1>6, <2>1, <2>7
  <2>10. B = MaxInputTokens - R - 2 - (IF lang = 0 THEN 0 ELSE 4)
    BY <2>7
  <2> HIDE DEF k, r, L, t, lang, B, R
  <2>11. 3 * (k + r) < 3 * MaxInputTokens + 4 * (p + 3)
    BY <2>8, <2>9, <2>10, RoundingOf
  <2>12. built'.tokens = k + r BY <2>6 DEF k, r
  <2> QED BY <1>1, <1>6, <2>11, <2>12
<1>9. WithinBudgetButRounding'
  BY <1>2, <1>8 DEF WithinBudgetButRounding
<1> QED BY <1>7, <1>9

-----------------------------------------------------------------------------
(* The memories *)

\* The memories that are ranked are those of the set, each once.
LEMMA RankedIs ==
  ASSUME NEW S
  PROVE  /\ Ranked(S) \in Seq(1 .. Stored) /\ Apart(Ranked(S))
         /\ ToSet(Ranked(S)) = S \cap (1 .. Stored)
<1> DEFINE N == Stored
           A == Seq(1 .. Stored)
           step == [n \in 1 .. N |-> [a \in A |-> IF n \in S THEN Append(a, n) ELSE a]]
           Good(f) == f = [n \in 0 .. N |->
                             IF n = 0 THEN <<>> ELSE IF n \in S THEN Append(f[n - 1], n) ELSE f[n - 1]]
<1>1. N \in Nat /\ step \in [1 .. N -> [A -> A]] /\ <<>> \in A
  <2>1. N \in Nat BY ContextAssumption
  <2>2. ASSUME NEW n \in 1 .. N, NEW a \in A PROVE (IF n \in S THEN Append(a, n) ELSE a) \in A
    <3>1. Append(a, n) \in A OBVIOUS
    <3> QED BY <3>1
  <2>3. <<>> \in A OBVIOUS
  <2> HIDE DEF A, N
  <2> QED BY <2>1, <2>2, <2>3
<1>2. PICK g : Unfolds(g, N, A, <<>>, step)
  <2> HIDE DEF step, N, A
  <2> QED BY <1>1, Recursion
<1>3. g \in [0 .. N -> A] /\ g[0] = <<>> BY <1>2 DEF Unfolds
<1>4. ASSUME NEW n \in 1 .. N
      PROVE  n - 1 \in 0 .. N /\ g[n - 1] \in A /\ g[n] = IF n \in S THEN Append(g[n - 1], n) ELSE g[n - 1]
  <2>1. n - 1 \in 0 .. N BY <1>1
  <2>2. g[n - 1] \in A BY <1>3, <2>1
  <2>3. g[n] = step[n][g[n - 1]] BY <1>2 DEF Unfolds
  <2> HIDE DEF A
  <2> QED BY <2>1, <2>2, <2>3
<1>5. Good(g)
  <2>1. \A n \in 0 .. N : g[n] = IF n = 0 THEN <<>> ELSE IF n \in S THEN Append(g[n - 1], n) ELSE g[n - 1]
    <3> TAKE n \in 0 .. N
    <3>1. n = 0 \/ n \in 1 .. N BY <1>1
    <3>2. CASE n = 0 BY <1>3, <3>2
    <3>3. CASE n \in 1 .. N
      <4>1. n # 0 BY <1>1, <3>3
      <4>2. g[n] = IF n \in S THEN Append(g[n - 1], n) ELSE g[n - 1] BY <1>4, <3>3
      <4> HIDE DEF A, N
      <4> QED BY <4>1, <4>2
    <3> HIDE DEF A, N
    <3> QED BY <3>1, <3>2, <3>3
  <2>2. g = [n \in 0 .. N |-> g[n]] BY <1>3
  <2> HIDE DEF A, N
  <2> QED BY <2>1, <2>2
<1>6. BestOf(S) = CHOOSE f : Good(f) BY DEF BestOf
<1>7. Good(BestOf(S))
  <2> HIDE DEF Good
  <2> QED BY <1>5, <1>6
<1>8. BestOf(S) = g
  <2> DEFINE f == BestOf(S)
  <2>1. f = [n \in 0 .. N |-> f[n]] /\ f[0] = <<>> BY <1>1, <1>7
  <2>2. ASSUME NEW n \in 1 .. N, f[n - 1] = g[n - 1] PROVE f[n] = g[n]
    <3>0. n \in 0 .. N /\ n # 0 BY <1>1
    <3> HIDE DEF A, N
    <3>1. f[n] = IF n \in S THEN Append(f[n - 1], n) ELSE f[n - 1] BY <1>7, <3>0, Zenon
    <3> QED BY <1>4, <2>2, <3>1
  <2>3. N \in Nat /\ Unfolds(g, N, A, <<>>, step) BY <1>1, <1>2
  <2> HIDE DEF N, A, step, f
  <2>4. f = g BY <2>1, <2>2, <2>3, OneUnfolding
  <2> QED BY <2>4 DEF f
<1> DEFINE Holds(s, n) == s \in A /\ Apart(s) /\ ToSet(s) = S \cap (1 .. n)
           T == {n \in 0 .. N : Holds(g[n], n)}
<1>9. 0 \in T
  <2>1. <<>> \in A /\ Apart(<<>>) /\ ToSet(<<>>) = {} BY DEF Apart, ToSet
  <2>2. S \cap (1 .. 0) = {} OBVIOUS
  <2>3. 0 \in 0 .. N BY <1>1
  <2> HIDE DEF A, N
  <2> QED BY <1>3, <2>1, <2>2, <2>3
<1>10. \A n \in 0 .. N - 1 : n \in T => n + 1 \in T
  <2> TAKE n \in 0 .. N - 1
  <2> HAVE n \in T
  <2>1. n + 1 \in 1 .. N /\ n + 1 \in 0 .. N /\ (n + 1) - 1 = n BY <1>1
  <2> DEFINE s == g[n]
  <2>2. s \in Seq(1 .. Stored) /\ Apart(s) /\ ToSet(s) = S \cap (1 .. n) OBVIOUS
  <2>3. g[n + 1] = IF n + 1 \in S THEN Append(s, n + 1) ELSE s BY <1>4, <2>1
  <2> HIDE DEF s
  <2>4. CASE n + 1 \in S
    <3> DEFINE a == Append(s, n + 1)
    <3>1. /\ a \in Seq(1 .. Stored) /\ Len(a) = Len(s) + 1 /\ Len(s) \in Nat
          /\ (\A i \in 1 .. Len(s) : a[i] = s[i]) /\ a[Len(s) + 1] = n + 1
      BY <2>1, <2>2
    <3>2. \A i \in 1 .. Len(s) : s[i] \in S \cap (1 .. n) BY <2>2 DEF ToSet
    <3>3. ~(n + 1 \in 1 .. n) BY <1>1
    <3> HIDE DEF a
    <3>4. Apart(a)
      <4>1. SUFFICES ASSUME NEW i \in 1 .. Len(a), NEW j \in 1 .. Len(a), a[i] = a[j] PROVE i = j
        BY DEF Apart
      <4>2. CASE i \in 1 .. Len(s) /\ j \in 1 .. Len(s) BY <2>2, <3>1, <4>1, <4>2 DEF Apart
      <4>3. CASE i \in 1 .. Len(s) /\ j = Len(s) + 1 BY <3>1, <3>2, <3>3, <4>1, <4>3
      <4>4. CASE j \in 1 .. Len(s) /\ i = Len(s) + 1 BY <3>1, <3>2, <3>3, <4>1, <4>4
      <4> QED BY <3>1, <4>2, <4>3, <4>4
    <3>5. ToSet(a) = ToSet(s) \cup {n + 1}
      <4>1. ToSet(a) = {a[i] : i \in 1 .. Len(s) + 1} BY <3>1 DEF ToSet
      <4>2. ToSet(s) = {s[i] : i \in 1 .. Len(s)} BY <2>2 DEF ToSet
      <4>3. 1 .. Len(s) + 1 = (1 .. Len(s)) \cup {Len(s) + 1} BY <3>1
      <4> QED BY <3>1, <4>1, <4>2, <4>3
    <3>6. S \cap (1 .. n + 1) = (S \cap (1 .. n)) \cup {n + 1}
      <4>1. n \in Nat BY <1>1
      <4>2. 1 .. n + 1 = (1 .. n) \cup {n + 1} BY <4>1
      <4> QED BY <2>4, <4>2
    <3>7. Holds(a, n + 1) BY <2>2, <3>1, <3>4, <3>5, <3>6
    <3>8. g[n + 1] = a BY <2>3, <2>4 DEF a
    <3> HIDE DEF Holds
    <3> QED BY <2>1, <3>7, <3>8
  <2>5. CASE n + 1 \notin S
    <3>1. S \cap (1 .. n + 1) = S \cap (1 .. n) BY <1>1, <2>1, <2>5
    <3>2. Holds(s, n + 1) BY <2>2, <3>1
    <3>3. g[n + 1] = s BY <2>3, <2>5
    <3> HIDE DEF Holds
    <3> QED BY <2>1, <3>2, <3>3
  <2> QED BY <2>4, <2>5
<1>11. 0 .. N \subseteq T
  <2> HIDE DEF T
  <2> QED BY <1>1, <1>9, <1>10, InductionTo
<1>12. Holds(g[N], N)
  <2>1. N \in 0 .. N BY <1>1
  <2> QED BY <1>11, <2>1
<1> QED BY <1>8, <1>12 DEF Ranked

\* The selected memories are memories, each once.
LEMMA SelectedIs == Selected \in Seq(1 .. Stored) /\ Apart(Selected)
<1> DEFINE r == RankMemories
           n == Min({MaxMemories, Len(r)})
<1>1. r \in Seq(1 .. Stored) /\ Apart(r) BY RankedIs DEF RankMemories
<1>2. MaxMemories \in Nat BY ContextAssumption
<1>3. Selected = SubSeq(r, 1, n) BY DEF Selected
<1> HIDE DEF r
<1>4. Len(r) \in Nat BY <1>1
<1>5. n = IF MaxMemories <= Len(r) THEN MaxMemories ELSE Len(r) BY <1>2, <1>4, MinOfTwo
<1>6. n \in 0 .. Len(r) BY <1>2, <1>4, <1>5
<1> HIDE DEF n
<1> QED BY <1>1, <1>3, <1>6, PrefixIs, InPrefix

\* The cap on the linked memories is a number.
LEMMA CapIs == LinkExtraCap \in Nat
<1>1. MaxMemories \in Nat BY ContextAssumption
<1>2. MaxMemories \div 2 \in Nat BY <1>1
<1> QED BY <1>2, MaxOfTwo DEF LinkExtraCap

\* What can have been added, and what a memory is linked to that is neither chosen nor
\* added nor expired.
Extras == {e \in Seq(1 .. Stored) : Len(e) <= LinkExtraCap /\ Apart(e)}
Fresh(m, e) == ask.links[m] \ (ToSet(Selected) \cup ToSet(e) \cup ask.expired)

\* One hop adds memories that are linked to the one it starts from, all of them unless it
\* reaches the cap.
LEMMA HopIs ==
  ASSUME AskOK, NEW m \in 1 .. Stored, NEW e \in Extras
  PROVE  /\ Hop(m, e) \in Extras
         /\ ToSet(e) \subseteq ToSet(Hop(m, e))
         /\ ToSet(Hop(m, e)) \subseteq ToSet(e) \cup Fresh(m, e)
         /\ Len(Hop(m, e)) = LinkExtraCap \/ ToSet(Hop(m, e)) = ToSet(e) \cup Fresh(m, e)
<1> DEFINE F == (ask.links[m] \ ToSet(Selected \o e)) \ ask.expired
           new == Ranked(F)
           k == Min({Len(new), LinkExtraCap - Len(e)})
           p == SubSeq(new, 1, k)
<1>1. e \in Seq(1 .. Stored) /\ Len(e) \in Nat /\ Len(e) <= LinkExtraCap /\ Apart(e) BY DEF Extras
<1>2. LinkExtraCap \in Nat BY CapIs
<1>3. ToSet(Selected \o e) = ToSet(Selected) \cup ToSet(e) BY <1>1, SelectedIs, InConcat
<1>4. ask.links[m] \subseteq 1 .. Stored BY DEF AskOK
<1>5. F = Fresh(m, e) /\ F \subseteq 1 .. Stored BY <1>3, <1>4 DEF Fresh
<1> HIDE DEF F
<1>6. new \in Seq(1 .. Stored) /\ Apart(new) /\ ToSet(new) = F BY <1>5, RankedIs
<1>7. Hop(m, e) = e \o p BY DEF Hop, F
<1> HIDE DEF new
<1>8. Len(new) \in Nat BY <1>6
<1>9. k = IF Len(new) <= LinkExtraCap - Len(e) THEN Len(new) ELSE LinkExtraCap - Len(e)
  BY <1>1, <1>2, <1>8, MinOfTwo
<1>10. k \in 0 .. Len(new) /\ Len(e) + k <= LinkExtraCap /\ (k = Len(new) \/ Len(e) + k = LinkExtraCap)
  BY <1>1, <1>2, <1>8, <1>9
<1> HIDE DEF k
<1>11. /\ p \in Seq(1 .. Stored) /\ Len(p) = k /\ Apart(p) /\ ToSet(p) \subseteq F
       /\ k = Len(new) => ToSet(p) = F
  BY <1>6, <1>10, PrefixIs, InPrefix
<1> HIDE DEF p
<1>12. ToSet(e \o p) = ToSet(e) \cup ToSet(p) BY <1>1, <1>11, InConcat
<1>13. ToSet(e) \cap ToSet(p) = {} BY <1>5, <1>11 DEF Fresh
<1>14. Apart(e \o p) BY <1>1, <1>11, <1>13, InConcat
<1>15. e \o p \in Seq(1 .. Stored) /\ Len(e \o p) = Len(e) + k
  <2>1. Len(e \o p) = Len(e) + Len(p) /\ e \o p \in Seq(1 .. Stored) BY <1>1, <1>11, ConcatIs
  <2> QED BY <1>11, <2>1
<1>16. e \o p \in Extras BY <1>10, <1>14, <1>15 DEF Extras
<1> QED BY <1>5, <1>7, <1>10, <1>11, <1>12, <1>15, <1>16

\* What the first n of the selected memories are linked to, neither selected nor expired.
Around(n) == (UNION {ask.links[Selected[i]] : i \in 1 .. n}) \ (ToSet(Selected) \cup ask.expired)

\* The hops are made one after the other.
LEMMA HopsAre ==
  ASSUME AskOK
  PROVE  /\ Hops \in [0 .. Len(Selected) -> Extras] /\ Hops[0] = <<>>
         /\ \A n \in 1 .. Len(Selected) : Hops[n] = Hop(Selected[n], Hops[n - 1])
<1> DEFINE N == Len(Selected)
           step == [n \in 1 .. N |-> [e \in Extras |-> Hop(Selected[n], e)]]
           Good(f) == f = [n \in 0 .. N |-> IF n = 0 THEN <<>> ELSE Hop(Selected[n], f[n - 1])]
<1>1. N \in Nat /\ \A n \in 1 .. N : Selected[n] \in 1 .. Stored BY SelectedIs, ListIs
<1> HIDE DEF N
<1>2. <<>> \in Extras
  <2>1. <<>> \in Seq(1 .. Stored) /\ Len(<<>>) = 0 /\ Apart(<<>>) BY DEF Apart
  <2> QED BY <2>1, CapIs DEF Extras
<1>3. step \in [1 .. N -> [Extras -> Extras]]
  <2>1. ASSUME NEW n \in 1 .. N, NEW e \in Extras PROVE Hop(Selected[n], e) \in Extras
    BY <1>1, HopIs
  <2> QED BY <2>1
<1>4. PICK g : Unfolds(g, N, Extras, <<>>, step)
  <2> HIDE DEF step
  <2> QED BY <1>1, <1>2, <1>3, Recursion
<1>5. g \in [0 .. N -> Extras] /\ g[0] = <<>> BY <1>4 DEF Unfolds
<1>6. ASSUME NEW n \in 1 .. N
      PROVE  n \in 0 .. N /\ n # 0 /\ n - 1 \in 0 .. N /\ g[n - 1] \in Extras /\ g[n] = Hop(Selected[n], g[n - 1])
  <2>1. n \in 0 .. N /\ n # 0 /\ n - 1 \in 0 .. N BY <1>1
  <2>2. g[n - 1] \in Extras BY <1>5, <2>1
  <2>3. g[n] = step[n][g[n - 1]] BY <1>4 DEF Unfolds
  <2> QED BY <2>1, <2>2, <2>3
<1>7. Good(g)
  <2>1. ASSUME NEW n \in 0 .. N PROVE g[n] = IF n = 0 THEN <<>> ELSE Hop(Selected[n], g[n - 1])
    <3>1. n = 0 \/ n \in 1 .. N BY <1>1
    <3>2. CASE n = 0 BY <1>5, <3>2
    <3>3. CASE n \in 1 .. N BY <1>6, <3>3, Zenon
    <3> QED BY <3>1, <3>2, <3>3
  <2>2. g = [n \in 0 .. N |-> g[n]] BY <1>5
  <2> QED BY <2>1, <2>2
<1>8. Hops = CHOOSE f : Good(f) BY DEF Hops, N
<1>9. Good(Hops)
  <2> HIDE DEF Good
  <2> QED BY <1>7, <1>8
<1>10. Hops = g
  <2>1. Hops = [n \in 0 .. N |-> Hops[n]] /\ Hops[0] = <<>> BY <1>1, <1>9
  <2>2. ASSUME NEW n \in 1 .. N, Hops[n - 1] = g[n - 1] PROVE Hops[n] = g[n]
    <3>1. n \in 0 .. N /\ n # 0 BY <1>6
    <3>2. Hops[n] = Hop(Selected[n], Hops[n - 1]) BY <1>9, <3>1, Zenon
    <3> QED BY <1>6, <2>2, <3>2, Zenon
  <2> HIDE DEF step
  <2> QED BY <1>1, <1>4, <2>1, <2>2, OneUnfolding
<1> QED BY <1>5, <1>6, <1>10 DEF N

\* After n hops: what has been added is near the first n of the selected memories, and
\* it is all of it unless the cap is reached.
LEMMA HopsReach ==
  ASSUME AskOK
  PROVE  /\ LinkedExtra \in Extras
         /\ ToSet(LinkedExtra) \subseteq Around(Len(Selected))
         /\ Len(LinkedExtra) = LinkExtraCap \/ ToSet(LinkedExtra) = Around(Len(Selected))
<1> DEFINE N == Len(Selected)
           Holds(e, n) == /\ ToSet(e) \subseteq Around(n)
                          /\ Len(e) = LinkExtraCap \/ ToSet(e) = Around(n)
           T == {n \in 0 .. N : Holds(Hops[n], n)}
<1>1. N \in Nat /\ \A n \in 1 .. N : Selected[n] \in 1 .. Stored BY SelectedIs, ListIs
<1>2. /\ Hops \in [0 .. N -> Extras] /\ Hops[0] = <<>>
      /\ \A n \in 1 .. N : Hops[n] = Hop(Selected[n], Hops[n - 1])
  BY HopsAre
<1> HIDE DEF N
<1>3. 0 \in T
  <2>1. ToSet(<<>>) = {} BY DEF ToSet
  <2>2. Around(0) = {} BY DEF Around
  <2>3. 0 \in 0 .. N BY <1>1
  <2> QED BY <1>2, <2>1, <2>2, <2>3
<1>4. \A n \in 0 .. N - 1 : n \in T => n + 1 \in T
  <2> TAKE n \in 0 .. N - 1
  <2> HAVE n \in T
  <2>1. n + 1 \in 1 .. N /\ n \in 0 .. N /\ n + 1 \in 0 .. N /\ (n + 1) - 1 = n /\ n \in Nat BY <1>1
  <2> DEFINE e == Hops[n]
             m == Selected[n + 1]
             h == Hop(m, e)
  <2>2. e \in Extras /\ m \in 1 .. Stored /\ Hops[n + 1] = h BY <1>1, <1>2, <2>1
  <2>3. Holds(e, n) OBVIOUS
  <2> HIDE DEF e
  <2>4. /\ h \in Extras /\ ToSet(e) \subseteq ToSet(h) /\ ToSet(h) \subseteq ToSet(e) \cup Fresh(m, e)
        /\ Len(h) = LinkExtraCap \/ ToSet(h) = ToSet(e) \cup Fresh(m, e)
    <3> HIDE DEF m
    <3> QED BY <2>2, HopIs
  <2>5. Around(n + 1) = Around(n) \cup (ask.links[m] \ (ToSet(Selected) \cup ask.expired))
    <3>1. 1 .. n + 1 = (1 .. n) \cup {n + 1} BY <2>1
    <3> QED BY <3>1 DEF Around
  <2> HIDE DEF m, h
  <2>6. ToSet(h) \subseteq Around(n + 1) BY <2>3, <2>4, <2>5 DEF Fresh
  <2>7. CASE ToSet(e) = Around(n)
    <3>1. ToSet(e) \cup Fresh(m, e) = Around(n + 1) BY <2>5, <2>7 DEF Fresh
    <3> QED BY <2>1, <2>2, <2>4, <2>6, <3>1
  <2>8. CASE Len(e) = LinkExtraCap
    <3>1. e \in Seq(1 .. Stored) /\ h \in Seq(1 .. Stored) /\ Apart(e) /\ Apart(h) /\ Len(h) <= LinkExtraCap
      BY <2>2, <2>4 DEF Extras
    <3>2. Cardinality(ToSet(e)) = Len(e) /\ Cardinality(ToSet(h)) = Len(h) /\ IsFiniteSet(ToSet(h))
      BY <3>1, ApartCounts
    <3>3. Len(e) <= Len(h)
      <4>1. Cardinality(ToSet(e)) <= Cardinality(ToSet(h)) BY <2>4, <3>2, FS_Subset
      <4> QED BY <3>2, <4>1
    <3>4. Len(h) \in Nat /\ Len(e) \in Nat BY <3>1
    <3>5. Len(h) = LinkExtraCap BY <2>8, <3>1, <3>3, <3>4, CapIs
    <3> QED BY <2>1, <2>2, <2>6, <3>5
  <2> QED BY <2>3, <2>7, <2>8
<1>5. 0 .. N \subseteq T
  <2> HIDE DEF T
  <2> QED BY <1>1, <1>3, <1>4, InductionTo
<1>6. N \in 0 .. N BY <1>1
<1>7. Holds(Hops[N], N) BY <1>5, <1>6
<1>8. LinkedExtra = Hops[N] BY DEF LinkedExtra, N
<1> QED BY <1>2, <1>6, <1>7, <1>8 DEF N

\* The claim about the linked memories holds of what a call builds.
LEMMA LinksAdd ==
  ASSUME AskOK, BuildProviderContext
  PROVE  LinksOnlyAdd'
<1> DEFINE s == Selected
           e == LinkedExtra
           c == s \o e
           M == Len(s)
           K == Len(e)
<1>1. built'.chosen = c /\ ask' = ask BY DEF BuildProviderContext
<1>2. Selected' = s /\ LinkExtraCap' = LinkExtraCap
  BY <1>1 DEF Selected, RankMemories, LinkExtraCap
<1>3. s \in Seq(1 .. Stored) /\ Apart(s) BY SelectedIs
<1>4. /\ e \in Seq(1 .. Stored) /\ Apart(e) /\ K <= LinkExtraCap
      /\ ToSet(e) \subseteq Around(M) /\ (K = LinkExtraCap \/ ToSet(e) = Around(M))
  BY HopsReach DEF Extras
<1>5. ToSet(s) \cap ToSet(e) = {} BY <1>4 DEF Around
<1> HIDE DEF s, e
<1>6. /\ c \in Seq(1 .. Stored) /\ Len(c) = M + K /\ M \in Nat /\ K \in Nat
      /\ \A i \in 1 .. M : c[i] = s[i]
      /\ \A i \in 1 .. K : c[M + i] = e[i]
  BY <1>3, <1>4, ConcatIs
<1>7. Apart(c) BY <1>3, <1>4, <1>5, InConcat
<1> HIDE DEF c
<1> DEFINE extra == {c[i] : i \in M + 1 .. Len(c)}
           near == (UNION {ask.links[m] : m \in ToSet(s)}) \ (ToSet(s) \cup ask.expired)
<1>8. IsPrefix(s, c)
  <2>1. Len(s) <= Len(c) BY <1>6
  <2> QED BY <1>3, <1>6, <2>1, PrefixOf
<1>9. Cardinality(ToSet(c)) = Len(c) BY <1>6, <1>7, ApartCounts
<1>10. extra = ToSet(e)
  <2>1. ToSet(e) = {e[i] : i \in 1 .. K} BY <1>4, InList
  <2> HIDE DEF M, K
  <2>2. ASSUME NEW i \in M + 1 .. Len(c) PROVE i - M \in 1 .. K /\ c[i] = e[i - M]
    <3>1. i - M \in 1 .. K /\ M + (i - M) = i BY <1>6
    <3> QED BY <1>6, <3>1
  <2>3. ASSUME NEW i \in 1 .. K PROVE M + i \in M + 1 .. Len(c) /\ c[M + i] = e[i]
    BY <1>6
  <2>4. extra \subseteq ToSet(e) BY <2>1, <2>2
  <2>5. ToSet(e) \subseteq extra BY <2>1, <2>3
  <2> QED BY <2>4, <2>5
<1>11. near = Around(M)
  <2>1. ToSet(s) = {s[i] : i \in 1 .. M} BY <1>3, InList
  <2>2. UNION {ask.links[m] : m \in ToSet(s)} = UNION {ask.links[s[i]] : i \in 1 .. M} BY <2>1
  <2> QED BY <2>2 DEF Around, s
<1>12. Cardinality(extra) = K BY <1>4, <1>10, ApartCounts
<1> HIDE DEF extra, near
<1>13. /\ IsPrefix(s, c) /\ Cardinality(ToSet(c)) = Len(c)
       /\ extra \subseteq near /\ Cardinality(extra) <= LinkExtraCap
       /\ near # extra => Cardinality(extra) = LinkExtraCap
  BY <1>4, <1>8, <1>9, <1>10, <1>11, <1>12
<1> DEFINE extraAfter == {built'.chosen[i] : i \in Len(Selected') + 1 .. Len(built'.chosen)}
           nearAfter == (UNION {ask'.links[m] : m \in ToSet(Selected')}) \ (ToSet(Selected') \cup ask'.expired)
<1>14. extraAfter = extra BY <1>1, <1>2 DEF extra
<1>15. nearAfter = near BY <1>1, <1>2 DEF near
<1>16. /\ IsPrefix(Selected', built'.chosen) /\ Cardinality(ToSet(built'.chosen)) = Len(built'.chosen)
       /\ extraAfter \subseteq nearAfter /\ Cardinality(extraAfter) <= LinkExtraCap'
       /\ nearAfter # extraAfter => Cardinality(extraAfter) = LinkExtraCap'
  <2> HIDE DEF extraAfter, nearAfter
  <2> QED BY <1>1, <1>2, <1>13, <1>14, <1>15
<1> QED BY <1>16, Zenon DEF LinksOnlyAdd

-----------------------------------------------------------------------------
(* The invariant *)
ContextInv == AskOK /\ PackedHonestly

\* The invariant holds before anything is built.
LEMMA ContextStarts == ContextInit => ContextInv
<1> SUFFICES ASSUME ContextInit PROVE ContextInv
  OBVIOUS
<1>1. AskOK
  <2>1. ASSUME NEW expired \in SUBSET (1 .. Stored), NEW linked \in SUBSET kSubset(2, 1 .. Stored),
               ask = [Nothing EXCEPT !.expired = expired,
                        !.links = [m \in 1 .. Stored |-> {k \in 1 .. Stored \ {m} : {k, m} \in linked}]]
        PROVE  AskOK
    <3>1. <<>> \in Seq(Nat) /\ 0 \in Language BY DEF Language
    <3>2. [m \in 1 .. Stored |-> {k \in 1 .. Stored \ {m} : {k, m} \in linked}] \in [1 .. Stored -> SUBSET (1 .. Stored)]
      OBVIOUS
    <3> QED BY <2>1, <3>1, <3>2 DEF AskOK, Nothing
  <2>2. ASSUME NEW sections \in Blocks, NEW raw \in BoundedSeq(Inputs, 2), NEW user \in Inputs, NEW language \in Language,
               ask = [Nothing EXCEPT !.sections = sections, !.raw = raw, !.user = user,
                                     !.language = language]
        PROVE  AskOK
    <3>1. Lengths \subseteq Nat /\ Inputs \subseteq Nat BY ContextAssumption
    <3>2. sections \in Seq(Nat)
      <4>1. PICK n \in 2 .. MaxSections : sections \in [1 .. n -> Lengths] BY DEF Blocks
      <4>2. n \in Nat BY ContextAssumption
      <4>3. sections \in [1 .. n -> Nat] BY <3>1, <4>1
      <4> QED BY <4>2, <4>3
    <3>3. raw \in Seq(Nat)
      <4>1. PICK n \in 0 .. 2 : raw \in [1 .. n -> Inputs] BY DEF BoundedSeq, SeqOf
      <4>2. raw \in [1 .. n -> Nat] BY <3>1, <4>1
      <4> QED BY <4>2
    <3>4. [m \in 1 .. Stored |-> {}] \in [1 .. Stored -> SUBSET (1 .. Stored)] OBVIOUS
    <3> QED BY <2>2, <3>1, <3>2, <3>3, <3>4 DEF AskOK, Nothing
  <2>3. CASE \E expired \in SUBSET (1 .. Stored), linked \in SUBSET kSubset(2, 1 .. Stored) :
               ask = [Nothing EXCEPT !.expired = expired,
                        !.links = [m \in 1 .. Stored |-> {k \in 1 .. Stored \ {m} : {k, m} \in linked}]]
    BY <2>1, <2>3
  <2>4. CASE \E sections \in Blocks, raw \in BoundedSeq(Inputs, 2), user \in Inputs, language \in Language :
               ask = [Nothing EXCEPT !.sections = sections, !.raw = raw, !.user = user,
                                     !.language = language]
    BY <2>2, <2>4
  <2> QED BY <2>3, <2>4 DEF ContextInit
<1>2. built = NotBuilt BY DEF ContextInit
<1> QED BY <1>1, <1>2 DEF ContextInv, PackedHonestly, LinksOnlyAdd, NoteCoversAll, WithinBudgetButRounding

\* The invariant is about the two variables of the context alone.
LEMMA ContextSame == ContextInv /\ UNCHANGED contextVars => ContextInv'
<1> SUFFICES ASSUME ContextInv, ask' = ask, built' = built PROVE ContextInv'
  BY DEF contextVars
<1>1. Selected' = Selected /\ LinkExtraCap' = LinkExtraCap /\ MemoryBudget' = MemoryBudget
  BY DEF Selected, RankMemories, LinkExtraCap, MemoryBudget, Reserved, TruncateUserInput
<1>2. AskOK' BY DEF ContextInv, AskOK
<1>3. LinksOnlyAdd' BY <1>1 DEF ContextInv, PackedHonestly, LinksOnlyAdd
<1>4. NoteCoversAll' BY <1>1 DEF ContextInv, PackedHonestly, NoteCoversAll
<1>5. WithinBudgetButRounding' BY <1>1 DEF ContextInv, PackedHonestly, WithinBudgetButRounding
<1> QED BY <1>2, <1>3, <1>4, <1>5 DEF ContextInv, PackedHonestly

\* Building a context keeps the invariant.
LEMMA ContextStep == ContextInv /\ ContextNext => ContextInv'
<1> SUFFICES ASSUME ContextInv, BuildProviderContext PROVE ContextInv'
  BY DEF ContextNext
<1>1. AskOK' BY DEF ContextInv, AskOK, BuildProviderContext
<1>2. LinksOnlyAdd' BY LinksAdd DEF ContextInv
<1>3. NoteCoversAll' /\ WithinBudgetButRounding' BY SectionsHonest DEF ContextInv
<1> QED BY <1>1, <1>2, <1>3 DEF ContextInv, PackedHonestly

\* Whatever is stored, linked, expired and asked, and whatever the budgets: linked memories
\* cost no chosen one its place, the note against fabrication is sent below all that is
\* remembered or not at all, and the input stays within its budget but for the rounding of
\* each section and the floor for the memories (build_provider_context).
THEOREM PackedHonestlyHolds == ContextSpec => []PackedHonestly
<1>1. ContextInv /\ [ContextNext]_contextVars => ContextInv'
  BY ContextSame, ContextStep
<1>2. ContextInv => PackedHonestly BY DEF ContextInv
<1> QED BY <1>1, <1>2, ContextStarts, PTL DEF ContextSpec

\* The same of the behaviours that the run explores.
THEOREM StorePacksHonestly == StoreSpec => []PackedHonestly
<1>1. StoreInit => ContextInv
  <2>1. CASE part = "context" BY <2>1, ContextStarts DEF StoreInit
  <2>2. ASSUME StoreInit, part # "context" PROVE ContextInv
    <3>1. ask = Nothing /\ built = NotBuilt BY <2>2 DEF StoreInit
    <3>2. <<>> \in Seq(Nat) /\ 0 \in Language /\ 1 \in Nat
          /\ [m \in 1 .. Stored |-> {}] \in [1 .. Stored -> SUBSET (1 .. Stored)]
      BY DEF Language
    <3>3. AskOK BY <3>1, <3>2 DEF AskOK, Nothing
    <3> QED BY <3>1, <3>3 DEF ContextInv, PackedHonestly, LinksOnlyAdd, NoteCoversAll, WithinBudgetButRounding
  <2> QED BY <2>1, <2>2
<1>2. ContextInv /\ [ReflectionMoves \/ ContextMoves \/ SchemaMoves]_<<reflectionVars, contextVars, schemaVars, part>>
        => ContextInv'
  <2> SUFFICES ASSUME ContextInv,
                      [ReflectionMoves \/ ContextMoves \/ SchemaMoves]_<<reflectionVars, contextVars, schemaVars, part>>
               PROVE  ContextInv'
    OBVIOUS
  <2>1. CASE ContextMoves BY <2>1, ContextStep DEF ContextMoves
  <2>2. CASE ~ContextMoves
    <3>1. UNCHANGED contextVars BY <2>2 DEF ReflectionMoves, SchemaMoves
    <3> QED BY <3>1, ContextSame
  <2> QED BY <2>1, <2>2
<1>3. ContextInv => PackedHonestly BY DEF ContextInv
<1> QED BY <1>1, <1>2, <1>3, PTL DEF StoreSpec
=============================================================================
