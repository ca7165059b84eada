------------------------------ MODULE SpendBrake ------------------------------
(***************************************************************************)
(* The spend brake (backend/app/memory/usage_guard.py) over the message    *)
(* log it is computed from: concurrent turns that check the brake, call    *)
(* the provider and only then store the row that counts; proactive lines   *)
(* that go through the same brake and are stored as behavior_tick rows;    *)
(* pure voice (RTC) turns, which are counted but never checked; and the    *)
(* pruning of behavior_tick rows.                                          *)
(*                                                                         *)
(* The log is abstracted to what the brake reads: the day of a row, its    *)
(* cost, and whether it counts as a model turn.  One day of the model is   *)
(* one UTC day; costs are whole cents.                                     *)
(***************************************************************************)
EXTENDS Naturals, FiniteSets

CONSTANTS
  Requests,      \* requests served concurrently
  DailyLimit,    \* budget.daily_llm_turn_limit, 0 = off
  MonthlyLimit,  \* budget.monthly_usd_limit in cents, 0 = off
  MaxCost,       \* the most one provider call costs
  Retention,     \* budget.behavior_tick_retention, 0 = keep all
  DaysPerMonth,
  MaxRows,       \* bound: rows ever stored
  MaxDays        \* bound: days

ASSUME LimitsAssumption ==
  /\ DailyLimit \in Nat /\ MonthlyLimit \in Nat
  /\ MaxCost \in Nat /\ Retention \in Nat
ASSUME BrakeBounds ==
  /\ DaysPerMonth \in Nat \ {0} /\ MaxRows \in Nat /\ MaxDays \in Nat
ASSUME RequestsAssumption == IsFiniteSet(Requests)

VARIABLES
  rows,      \* assistant rows of the messages table
  nextRow,    \* next AUTOINCREMENT id
  day,       \* the current UTC day
  stage,        \* what each request does next
  asker,   \* what each request is
  moment,    \* the day each request read the clock for its gate
  bill,      \* what the provider charged for each request's call
  completed, \* history: gated model turns stored today
  spent,     \* history: what gated calls stored this month have cost
  pruned     \* history: a model turn of this month has been pruned

brakeVars == <<rows, nextRow, day, stage, asker, moment, bill, completed, spent, pruned>>

used == <<completed, spent, pruned>>

\* Text and Pipecat turns, proactive lines, pure voice turns.
Askers == {"chat", "proactive", "rtc"}
Gated == {"chat", "proactive"}

Row == [id : Nat, day : Nat, asker : Askers, llm : BOOLEAN, cost : 0..MaxCost]

BrakeLocation == {"idle", "daily", "monthly", "calling", "store", "storeLocal", "prune"}

BrakeTypeOK ==
  /\ rows \in SUBSET Row
  /\ nextRow \in Nat /\ day \in Nat /\ completed \in Nat /\ spent \in Nat /\ pruned \in BOOLEAN
  /\ stage \in [Requests -> BrakeLocation]
  /\ asker \in [Requests -> Askers]
  /\ moment \in [Requests -> Nat]
  /\ bill \in [Requests -> 0..MaxCost]

BrakeInit ==
  /\ rows = {} /\ nextRow = 1 /\ day = 0
  /\ completed = 0 /\ spent = 0 /\ pruned = FALSE
  /\ stage = [r \in Requests |-> "idle"]
  /\ asker = [r \in Requests |-> "chat"]
  /\ moment = [r \in Requests |-> 0]
  /\ bill = [r \in Requests |-> 0]

BrakeGoto(r, from, to) == stage[r] = from /\ stage' = [stage EXCEPT ![r] = to]

MonthStart(d) == d - (d % DaysPerMonth)

\* _assistant_metadata_since, count_llm_turns_since, sum_llm_cost_since. The sum
\* is the number of cents, each named by the row it was spent for.
Since(d) == {w \in rows : w.day >= d}
CountTurnsSince(d) == Cardinality({w \in Since(d) : w.llm})
CentsSince(d) == {x \in Since(d) \X (1..MaxCost) : x[2] <= x[1].cost}
SumCostSince(d) == Cardinality(CentsSince(d))

-----------------------------------------------------------------------------
(* The gate *)

\* A turn or a proactive line that needs the model reaches the brake and reads
\* the clock.
StartGated(r) ==
  /\ nextRow <= MaxRows
  /\ BrakeGoto(r, "idle", "daily")
  /\ \E s \in Gated : asker' = [asker EXCEPT ![r] = s]
  /\ moment' = [moment EXCEPT ![r] = day]
  /\ UNCHANGED <<rows, nextRow, day, bill, used>>

\* Mutant: the turn that reaches the limit is still admitted.
CheckDailyLate(r) ==
  /\ IF DailyLimit > 0 /\ CountTurnsSince(moment[r]) > DailyLimit
       THEN BrakeGoto(r, "daily", "storeLocal")
       ELSE BrakeGoto(r, "daily", "monthly")
  /\ UNCHANGED <<rows, nextRow, day, asker, moment, bill, used>>

\* The daily brake.  A blocked request answers locally.
CheckDaily(r) ==
  /\ IF DailyLimit > 0 /\ CountTurnsSince(moment[r]) >= DailyLimit
       THEN BrakeGoto(r, "daily", "storeLocal")
       ELSE BrakeGoto(r, "daily", "monthly")
  /\ UNCHANGED <<rows, nextRow, day, asker, moment, bill, used>>

\* The monthly brake, read by another connection.
CheckMonthly(r) ==
  /\ IF MonthlyLimit > 0 /\ SumCostSince(MonthStart(moment[r])) >= MonthlyLimit
       THEN BrakeGoto(r, "monthly", "storeLocal")
       ELSE BrakeGoto(r, "monthly", "calling")
  /\ UNCHANGED <<rows, nextRow, day, asker, moment, bill, used>>

-----------------------------------------------------------------------------
(* The provider *)

ProviderAnswers(r) ==
  /\ BrakeGoto(r, "calling", "store")
  /\ \E c \in 0..MaxCost : bill' = [bill EXCEPT ![r] = c]
  /\ UNCHANGED <<rows, nextRow, day, asker, moment, used>>

\* A text turn ends in an error and stores nothing, and so does a voice turn
\* that is interrupted; a failed voice turn and a failed proactive line fall
\* back to a local line.
CallFails(r) ==
  /\ \/ asker[r] = "chat" /\ BrakeGoto(r, "calling", "idle")
     \/ BrakeGoto(r, "calling", "storeLocal")
  /\ UNCHANGED <<rows, nextRow, day, asker, moment, bill, used>>

-----------------------------------------------------------------------------
(* The log *)

AppendRow(r, llm, cost) ==
  /\ rows' = rows \cup {[id |-> nextRow, day |-> day, asker |-> asker[r],
                         llm |-> llm, cost |-> cost]}
  /\ nextRow' = nextRow + 1

\* behavior_tick rows are pruned after each stored line, if a limit is set.
AfterStore(r) == IF asker[r] = "proactive" /\ Retention > 0 THEN "prune" ELSE "idle"

\* The assistant row of a model turn: persist_chat_turn, or
\* persist_local_behavior_line with proactive_llm_used.
Store(r) ==
  /\ BrakeGoto(r, "store", AfterStore(r))
  /\ AppendRow(r, TRUE, bill[r])
  /\ IF asker[r] \in Gated
       THEN completed' = completed + 1 /\ spent' = spent + bill[r]
       ELSE UNCHANGED <<completed, spent>>
  /\ UNCHANGED pruned
  /\ bill' = [bill EXCEPT ![r] = 0]
  /\ UNCHANGED <<day, asker, moment>>

\* The row of a blocked or failed turn: should_call_llm false, no cost.
StoreLocal(r) ==
  /\ BrakeGoto(r, "storeLocal", AfterStore(r))
  /\ AppendRow(r, FALSE, 0)
  /\ UNCHANGED <<day, asker, moment, bill, used>>

\* A mutter of idle_tick is stored like a proactive fallback line.
Mutter(r) ==
  /\ nextRow <= MaxRows
  /\ BrakeGoto(r, "idle", "storeLocal")
  /\ asker' = [asker EXCEPT ![r] = "proactive"]
  /\ UNCHANGED <<rows, nextRow, day, moment, bill, used>>

\* analyze_turn commits an RTC turn with should_call_llm true and no cost,
\* without consulting the brake.
RtcTurn(r) ==
  /\ nextRow <= MaxRows
  /\ BrakeGoto(r, "idle", "store")
  /\ asker' = [asker EXCEPT ![r] = "rtc"]
  /\ UNCHANGED <<rows, nextRow, day, moment, bill, used>>

\* prune_behavior_tick_messages keeps the Retention newest behavior_tick rows.
Prune(r) ==
  LET ticks == {w \in rows : w.asker = "proactive"}
      older == {w \in ticks : Cardinality({v \in ticks : v.id > w.id}) >= Retention}
  IN /\ BrakeGoto(r, "prune", "idle")
     /\ rows' = rows \ older
     /\ pruned' = (pruned \/ \E w \in older : w.llm /\ w.day >= MonthStart(day))
     /\ UNCHANGED <<nextRow, day, asker, moment, bill, completed, spent>>

\* UTC midnight.
NextDay ==
  /\ day < MaxDays
  /\ day' = day + 1
  /\ completed' = 0
  /\ IF MonthStart(day') = MonthStart(day)
       THEN UNCHANGED <<spent, pruned>>
       ELSE spent' = 0 /\ pruned' = FALSE
  /\ UNCHANGED <<rows, nextRow, stage, asker, moment, bill>>

BrakeNext ==
  \/ \E r \in Requests :
       \/ StartGated(r) \/ CheckDaily(r) \/ CheckMonthly(r)
       \/ ProviderAnswers(r) \/ CallFails(r)
       \/ Store(r) \/ StoreLocal(r) \/ Mutter(r) \/ RtcTurn(r) \/ Prune(r)
  \/ NextDay

BrakeSpec == BrakeInit /\ [][BrakeNext]_brakeVars

-----------------------------------------------------------------------------
(* Properties *)

\* Requests that have passed the daily brake and may still store a model turn.
InFlight == {r \in Requests : asker[r] \in Gated /\ stage[r] \in {"monthly", "calling", "store"}}

\* Rows of today that a gated request stored.
GatedToday == {w \in rows : w.day = day /\ w.llm /\ w.asker \in Gated}

\* The brake is checked before the call and counts after it, so concurrent
\* requests overshoot the daily cap; but never by more than the other requests
\* that were in flight, whatever happens at midnight.
DailyOvershoot ==
  DailyLimit > 0 =>
    Cardinality(GatedToday) + Cardinality(InFlight) <= DailyLimit - 1 + Cardinality(Requests)

\* The same for the monthly cap: each request can add at most one call's cost.
MonthlyOvershoot ==
  MonthlyLimit > 0 =>
    SumCostSince(MonthStart(day)) <= MonthlyLimit - 1 + Cardinality(Requests) * MaxCost

\* The model turns and the money really used are bounded in the same way.
UsageOvershoot ==
  /\ DailyLimit > 0 => completed <= DailyLimit - 1 + Cardinality(Requests)
  /\ MonthlyLimit > 0 => spent <= MonthlyLimit - 1 + Cardinality(Requests) * MaxCost

\* It holds while no model turn of the month has been pruned: pruning a
\* proactive line takes its turn and its cost out of the account.
UsageUnlessPruned == ~pruned => UsageOvershoot

\* What a request may spend beyond the caps, as the log accounts for it and as it
\* was really spent.
OvershootBounded == DailyOvershoot /\ MonthlyOvershoot /\ UsageUnlessPruned
=============================================================================
