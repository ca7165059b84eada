------------------------------ MODULE Summaries ------------------------------
(***************************************************************************)
(* Rolling conversation summaries: the chat rows of the messages table,    *)
(* the behavior_tick rows that share their ids, and the summarizers that   *)
(* each take the oldest batch of chat rows behind the raw window           *)
(* (backend/app/memory/summary_policy.py, one run after every turn;        *)
(* backend/app/reflection/jobs.py, one run in every reflection).           *)
(*                                                                         *)
(* A summarizer makes four reads and one insert, each through its own      *)
(* connection, and the model may be called before the insert; turns and    *)
(* other summarizers run between any two of them.  Ids are assigned under  *)
(* SQLite's write lock, so rows appear in the order of their ids; chat     *)
(* rows are never deleted.                                                 *)
(***************************************************************************)
EXTENDS Naturals, FiniteSets

CONSTANTS
  Summarizers,
  MaxRaw,      \* budget.max_raw_turns: chat rows replayed verbatim
  Batch,       \* budget.summary_batch_size
  MaxId,       \* bound: message ids
  MaxSummaries \* bound: summaries

ASSUME SizesAssumption == MaxRaw \in Nat /\ Batch \in Nat \ {0}
ASSUME BoundsAssumption == MaxId \in Nat /\ MaxSummaries \in Nat

VARIABLES
  chat,      \* ids of the rows with source 'chat'
  nextId,    \* next id of the messages table
  summaries, \* conversation_summaries
  pc,        \* what each summarizer does next
  lower,     \* the window bound each has read
  covered,   \* the end of the latest summary each has read
  batch,     \* first and last id of the batch each has listed
  raced      \* history: a summary was stored behind a summarizer's back

vars == <<chat, nextId, summaries, pc, lower, covered, batch, raced>>

Extent == [first : Nat, last : Nat]
Summary == [id : Nat, first : Nat, last : Nat]
Location == {"idle", "bound", "latest", "list", "write"}

TypeOK ==
  /\ chat \in SUBSET Nat
  /\ nextId \in Nat \ {0}
  /\ summaries \in SUBSET Summary
  /\ pc \in [Summarizers -> Location]
  /\ lower \in [Summarizers -> Nat]
  /\ covered \in [Summarizers -> Nat]
  /\ batch \in [Summarizers -> Extent]
  /\ raced \in BOOLEAN

Init ==
  /\ chat = {} /\ nextId = 1 /\ summaries = {} /\ raced = FALSE
  /\ pc = [t \in Summarizers |-> "idle"]
  /\ lower = [t \in Summarizers |-> 0]
  /\ covered = [t \in Summarizers |-> 0]
  /\ batch = [t \in Summarizers |-> [first |-> 0, last |-> 0]]

Goto(t, from, to) == pc[t] = from /\ pc' = [pc EXCEPT ![t] = to]

-----------------------------------------------------------------------------
(* The log *)

\* create_message with source 'chat': a user or an assistant row of a turn.
AppendChat ==
  /\ nextId <= MaxId
  /\ chat' = chat \cup {nextId}
  /\ nextId' = nextId + 1
  /\ UNCHANGED <<summaries, pc, lower, covered, batch, raced>>

\* create_message with source 'behavior_tick': it takes an id and is never
\* summarized.
AppendTick ==
  /\ nextId <= MaxId
  /\ nextId' = nextId + 1
  /\ UNCHANGED <<chat, summaries, pc, lower, covered, batch, raced>>

-----------------------------------------------------------------------------
(* A summarizer *)

\* count_chat_messages: nothing to do while the log hardly exceeds the window.
Start(t) ==
  /\ pc[t] = "idle"
  /\ IF Cardinality(chat) <= MaxRaw + 1
       THEN UNCHANGED pc
       ELSE Goto(t, "idle", "bound")
  /\ UNCHANGED <<chat, nextId, summaries, lower, covered, batch, raced>>

\* get_recent_chat_window_lower_bound_id: the MaxRaw-th newest chat row, none
\* when the window is empty.
ReadBound(t) ==
  /\ \/ /\ MaxRaw = 0
        /\ Goto(t, "bound", "idle")
        /\ UNCHANGED lower
     \/ /\ Goto(t, "bound", "latest")
        /\ \E b \in chat :
             /\ Cardinality({c \in chat : c >= b}) = MaxRaw
             /\ lower' = [lower EXCEPT ![t] = b]
  /\ UNCHANGED <<chat, nextId, summaries, covered, batch, raced>>

\* get_latest_conversation_summary: the greatest end, 0 without a summary.
ReadLatest(t) ==
  /\ Goto(t, "latest", "list")
  /\ \/ summaries = {} /\ covered' = [covered EXCEPT ![t] = 0]
     \/ \E s \in summaries :
          /\ \A u \in summaries : u.last <= s.last
          /\ covered' = [covered EXCEPT ![t] = s.last]
  /\ UNCHANGED <<chat, nextId, summaries, lower, batch, raced>>

\* Mutant: the window bound is included.
OlderWithBound(t) == {c \in chat : covered[t] < c /\ c <= lower[t]}

\* list_chat_messages_between: the chat rows between the two ids, oldest
\* first, at most Batch of them; fewer than Batch are left for later.
Older(t) == {c \in chat : covered[t] < c /\ c < lower[t]}

\* Mutant: newest first.
ListBatchNewest(t) ==
  /\ Cardinality(Older(t)) >= Batch
  /\ Goto(t, "list", "write")
  /\ \E f, l \in Older(t) :
       /\ \A c \in Older(t) : c <= l
       /\ Cardinality({c \in Older(t) : c >= f}) = Batch
       /\ batch' = [batch EXCEPT ![t] = [first |-> f, last |-> l]]
  /\ UNCHANGED <<chat, nextId, summaries, lower, covered, raced>>

ListBatch(t) ==
  /\ \/ /\ Cardinality(Older(t)) < Batch
        /\ Goto(t, "list", "idle")
        /\ UNCHANGED batch
     \/ /\ Goto(t, "list", "write")
        /\ \E f, l \in Older(t) :
             /\ \A c \in Older(t) : f <= c
             /\ Cardinality({c \in Older(t) : c <= l}) = Batch
             /\ batch' = [batch EXCEPT ![t] = [first |-> f, last |-> l]]
  /\ UNCHANGED <<chat, nextId, summaries, lower, covered, raced>>

\* create_conversation_summary.
Write(t) ==
  /\ Cardinality(summaries) < MaxSummaries
  /\ Goto(t, "write", "idle")
  /\ summaries' = summaries \cup {[id |-> Cardinality(summaries) + 1,
                                   first |-> batch[t].first, last |-> batch[t].last]}
  /\ raced' = (raced \/ \E u \in Summarizers \ {t} : pc[u] \in {"list", "write"})
  /\ UNCHANGED <<chat, nextId, lower, covered, batch>>

\* The model call fails or answers something unusable, or the process dies.
Abandon(t) ==
  /\ pc[t] # "idle"
  /\ pc' = [pc EXCEPT ![t] = "idle"]
  /\ UNCHANGED <<chat, nextId, summaries, lower, covered, batch, raced>>

Run(t) == ReadBound(t) \/ ReadLatest(t) \/ ListBatch(t) \/ Write(t)

Next ==
  \/ AppendChat \/ AppendTick
  \/ \E t \in Summarizers : Start(t) \/ Run(t) \/ Abandon(t)

Spec == Init /\ [][Next]_vars

-----------------------------------------------------------------------------
(* Properties *)

Covers(s, c) == s.first <= c /\ c <= s.last

\* No chat row is skipped: every row up to the end of any summary is part of
\* some summary, however many summarizers run and whichever of them fails.
NoGap ==
  \A u \in summaries : \A c \in chat :
    c <= u.last => \E s \in summaries : Covers(s, c)

\* A row that the provider context replays verbatim is never summarized as
\* well: each summary ends before the MaxRaw newest rows.
RawWindowUntouched ==
  \A s \in summaries : Cardinality({c \in chat : c > s.last}) >= MaxRaw

\* Two summaries cover the same rows or have no row in common, although
\* concurrent summarizers choose their batches from what they read before.
RangesAligned ==
  \A s, u \in summaries :
    \/ s.first = u.first /\ s.last = u.last
    \/ s.last < u.first \/ u.last < s.first

\* No batch is summarized twice (the design's "exactly one summary producer"),
\* unless a summary was stored between another summarizer's read of the latest
\* one and its own insert: two turns that end together, or two reflections.
SummarizedOnceUnlessRaced ==
  ~raced => \A s, u \in summaries : (s.first = u.first /\ s.last = u.last) => s = u

\* The batches partition the rows behind the window, outside the race.
BatchesExact == RawWindowUntouched /\ RangesAligned /\ SummarizedOnceUnlessRaced
=============================================================================
