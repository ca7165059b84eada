---------------------------- MODULE ContextReader ----------------------------
(* A turn that builds its context (memory/context_builder.py) from the log the *)
(* summarizers work on: it reads the latest summary first and the raw window   *)
(* some reads later, each through a connection of its own, while other turns   *)
(* append rows and summarize.                                                  *)
EXTENDS Summaries

VARIABLE reader \* what the turn does next, the end of the summary it has, its window

readerVars == <<vars, reader>>

LatestEnd == IF summaries = {} THEN 0
             ELSE CHOOSE last \in {s.last : s \in summaries} : \A s \in summaries : s.last <= last
RawWindow == {c \in chat : Cardinality({d \in chat : d >= c}) <= MaxRaw}

ReaderInit == Init /\ reader = [at |-> "idle", summary |-> 0, window |-> {}]

BuildBegins ==
  /\ reader.at = "idle"
  /\ reader' = [reader EXCEPT !.at = "window", !.summary = LatestEnd]
  /\ UNCHANGED vars

ListRecentChatMessages ==
  /\ reader.at = "window"
  /\ reader' = [reader EXCEPT !.at = "assemble", !.window = RawWindow]
  /\ UNCHANGED vars

\* Mutant: the summary is asked for again when it is needed.
SummaryUsedLatest == LatestEnd

SummaryUsed == reader.summary

\* The rest of build_provider_context: the reader is done.
Assemble ==
  /\ reader.at = "assemble"
  /\ reader' = [at |-> "idle", summary |-> 0, window |-> {}]
  /\ UNCHANGED vars

ReaderNext == \/ BuildBegins \/ ListRecentChatMessages \/ Assemble
              \/ Next /\ UNCHANGED reader

ReaderSpec == ReaderInit /\ [][ReaderNext]_readerVars

-----------------------------------------------------------------------------
\* No row is sent twice, as itself and inside the summary, although turns and
\* summarizers go on between the two reads.
SentOnce == reader.at = "assemble" => \A c \in reader.window : c > SummaryUsed
=============================================================================
