----------------------------- MODULE Migrations -----------------------------
(* Opening the database (memory/database.py): every process that makes a store  *)
(* creates the missing tables, then carries the values of older versions over,  *)
(* each step once, behind a marker in schema_meta. The script commits by itself, *)
(* the steps are one transaction; several processes start, crash and write over  *)
(* the same file. What is modelled of a row is the values that moved between     *)
(* the tables.                                                                   *)
EXTENDS Integers, FiniteSets

CONSTANTS
  Processes, \* bound: the backend, the voice pipeline
  MaxOpens   \* bound: starts of a process

ASSUME OpensAssumption == MaxOpens \in Nat

Trusts   == {50, 80}              \* values of trust, in hundredths; 50 is the default
Slows    == {50, 20}              \* of the slow baseline
Operational == {"idle_experience_last_at", "share_recent_memory_ids"}
Retired  == {"last_local_line_at"}
Keys     == Operational \cup Retired \cup {"proactive_no_reply_streak"}
Steps    == {"trust", "columns", "existential", "runtime", "purge"}

VARIABLES
  db,     \* the file: the tables' rows of id 1, NoRow for a row that is not there
  opened, \* what each process is doing
  opens,  \* starts so far
  want    \* history: the values as last written by a version of the program

schemaVars == <<db, opened, opens, want>>

NoRow == -1
Exists(value) == value # NoRow

\* Files of earlier versions: an empty one, one without the columns of the slow
\* baseline, one with them. A version that has the relationship row may have
\* moved the trust there.
SchemaInit ==
  /\ opened = [p \in Processes |-> "closed"] /\ opens = 0
  /\ \E version \in {"none", "trust in mood", "slow in mood"},
        trust \in Trusts, slow \in Slows, meta \in SUBSET Keys, moved \in Trusts \cup {NoRow} :
       LET held == IF version = "none" THEN [trust |-> 50, slow |-> 50, meta |-> {}]
                   ELSE [trust |-> trust, meta |-> meta,
                         slow |-> IF version = "slow in mood" THEN slow ELSE 50]
       IN /\ version = "none" => moved = NoRow
          /\ db = [tables |-> FALSE, markers |-> {},
                   mood |-> IF version = "none" THEN NoRow ELSE 1,
                   moodTrust |-> held.trust, meta |-> held.meta,
                   moodSlow |-> IF version = "slow in mood" THEN slow ELSE NoRow,
                   trust |-> moved, slow |-> NoRow, runtime |-> NoRow, runtimeMeta |-> {}]
          /\ want = [trust |-> IF moved \in Trusts \ {50} THEN moved ELSE held.trust,
                     slow |-> held.slow, meta |-> held.meta \cap Operational]

-----------------------------------------------------------------------------
(* init_database *)

\* SCHEMA_SQL: CREATE TABLE IF NOT EXISTS, which leaves the columns of an old
\* table as they are.
Open(p) ==
  /\ opened[p] = "closed" /\ opens < MaxOpens
  /\ opens' = opens + 1
  /\ opened' = [opened EXCEPT ![p] = "migrating"]
  /\ db' = [db EXCEPT !.tables = TRUE,
                      !.moodSlow = IF ~db.tables /\ ~Exists(db.mood) THEN 50 ELSE @]
  /\ UNCHANGED want

Marked(d, step) == [d EXCEPT !.markers = @ \cup {step}]

\* INSERT OR IGNORE of the rows of mood_state and relationship_state.
Seeded(d) ==
  [d EXCEPT !.mood = 1, !.trust = IF Exists(@) THEN @ ELSE 50]

\* Mutant: nobody looks at the marker.
TrustBackfilledAlways(d) ==
  Marked([d EXCEPT !.trust = IF @ = 50 /\ d.moodTrust # 50 THEN d.moodTrust ELSE @], "trust")

TrustBackfilled(d) ==
  IF "trust" \in d.markers THEN d
  ELSE Marked([d EXCEPT !.trust = IF @ = 50 /\ d.moodTrust # 50 THEN d.moodTrust ELSE @], "trust")

ColumnsAdded(d) ==
  IF "columns" \in d.markers THEN d
  ELSE Marked([d EXCEPT !.moodSlow = IF Exists(@) THEN @ ELSE 50], "columns")

ExistentialBackfilled(d) ==
  IF "existential" \in d.markers THEN d
  ELSE Marked([d EXCEPT !.slow = IF Exists(@) THEN @ ELSE d.moodSlow], "existential")

RuntimeBackfilled(d) ==
  IF "runtime" \in d.markers THEN d
  ELSE Marked([d EXCEPT !.runtime = 1,
                        !.runtimeMeta = IF Exists(d.runtime) THEN @ ELSE d.meta \cap Operational],
              "runtime")

GuardMetadataPurged(d) ==
  IF "purge" \in d.markers THEN d
  ELSE Marked([d EXCEPT !.meta = @ \ Retired, !.runtimeMeta = @ \ Retired], "purge")

\* One transaction, in this order.
Migrate(p) ==
  /\ opened[p] = "migrating"
  /\ db' = GuardMetadataPurged(RuntimeBackfilled(ExistentialBackfilled(
             ColumnsAdded(TrustBackfilled(Seeded(db))))))
  /\ opened' = [opened EXCEPT ![p] = "open"]
  /\ UNCHANGED <<opens, want>>

\* The process dies, or finds the file locked: what it has not committed is gone.
Close(p) ==
  /\ opened[p] # "closed"
  /\ opened' = [opened EXCEPT ![p] = "closed"]
  /\ UNCHANGED <<db, opens, want>>

-----------------------------------------------------------------------------
(* The store *)
UpdateRelationshipState(p) ==
  /\ opened[p] = "open"
  /\ \E trust \in Trusts : db' = [db EXCEPT !.trust = trust] /\ want' = [want EXCEPT !.trust = trust]
  /\ UNCHANGED <<opened, opens>>

UpdateExistentialState(p) ==
  /\ opened[p] = "open"
  /\ \E slow \in Slows : db' = [db EXCEPT !.slow = slow] /\ want' = [want EXCEPT !.slow = slow]
  /\ UNCHANGED <<opened, opens>>

\* The mood row keeps a copy of all keys, retired ones excepted.
ReplaceMoodMetadata(p) ==
  /\ opened[p] = "open"
  /\ \E meta \in SUBSET Keys :
       /\ db' = [db EXCEPT !.meta = meta \ Retired, !.runtimeMeta = meta \cap Operational]
       /\ want' = [want EXCEPT !.meta = meta \cap Operational]
  /\ UNCHANGED <<opened, opens>>

SchemaNext ==
  \E p \in Processes :
    \/ Open(p) \/ Migrate(p) \/ Close(p)
    \/ UpdateRelationshipState(p) \/ UpdateExistentialState(p) \/ ReplaceMoodMetadata(p)

SchemaSpec == SchemaInit /\ [][SchemaNext]_schemaVars

-----------------------------------------------------------------------------
\* Whoever has the database open reads the values that were written last, by
\* this version or an earlier one: no start of a process, first or later, brings
\* an old value back, and none is lost on the way to its new table.
ValuesSurvive ==
  \A p \in Processes : opened[p] = "open" =>
    /\ [trust |-> db.trust, slow |-> db.slow, meta |-> db.runtimeMeta] = want
    /\ db.meta \cap Retired = {} /\ db.markers = Steps
=============================================================================
