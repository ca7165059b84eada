------------------------------ MODULE CallsProofs ------------------------------
(***************************************************************************)
(* Theorems about the calls through the hosted service, for any number of  *)
(* rooms, of calls of join and leave in flight, of exchanges and faults;   *)
(* about the feelings that colour them and every other surface, for        *)
(* any number of turns at once, any messages, any appraisals and any rows  *)
(* to start from; and about the requests for replies, speech and           *)
(* transcriptions, for any number of them at once.                         *)
(***************************************************************************)
EXTENDS MCCalls, TLAPS

-----------------------------------------------------------------------------
(* The calls: their types *)

\* Where a call can be, and what it has by then.
Shape(k) ==
  /\ k.op = "none" <=> k.pc = "idle"
  /\ k.pc \in {"prepare", "enter", "microphone", "agent", "cleanup"} => k.op = "join"
  /\ k.pc \in {"save", "stop"} => k.op = "leave"
  /\ k.pc \in {"enter", "microphone", "agent"} => k.room \in Rooms
  /\ k.pc = "tear" => k.torn \in Rooms

\* The types, and the exchange of the open line has been opened.
TypeInv ==
  /\ CallsTypeOK
  /\ \A c \in Calls : Shape(calls[c])
  /\ conversation.exchange <= Len(said)

\* A call goes on as k; the others stay where they are.
Moves(c, k) ==
  /\ k \in CallType /\ Shape(k)
  /\ calls' = [calls EXCEPT ![c] = k]

LEMMA Moved ==
  ASSUME TypeInv, NEW c \in Calls, NEW k, Moves(c, k)
  PROVE  /\ calls' \in [Calls -> CallType]
         /\ \A d \in Calls : Shape(calls'[d])
         /\ \A d \in Calls : calls'[d] = IF d = c THEN k ELSE calls[d]
         /\ \A d \in Calls : calls'[d].pc = "tear" => calls'[d].torn \in Rooms
BY DEF Moves, TypeInv, CallsTypeOK, Shape

LEMMA Placed ==
  ASSUME TypeInv, NEW c \in Calls
  PROVE  /\ calls[c] \in CallType /\ Shape(calls[c])
         /\ calls[c].op \in {"none", "join", "leave"}
         /\ calls[c].room \in Rooms \cup {None} /\ calls[c].torn \in Rooms \cup {None}
BY DEF TypeInv, CallsTypeOK, CallType

\* Goto, where the place is one of the call's own.
LEMMA GotoMoves ==
  ASSUME TypeInv, NEW c \in Calls, NEW pc, Goto(c, pc),
         \/ calls[c].op = "join" /\ pc = "cleanup"
         \/ calls[c].op = "join" /\ pc \in {"microphone", "agent"} /\ calls[c].room \in Rooms
         \/ calls[c].op = "leave" /\ pc \in {"save", "stop"}
  PROVE  Moves(c, [calls[c] EXCEPT !.pc = pc])
<1>1. [calls[c] EXCEPT !.pc = pc] \in CallType /\ Shape([calls[c] EXCEPT !.pc = pc])
  BY Placed DEF CallType, Shape
<1>2. calls' = [calls EXCEPT ![c] = [calls[c] EXCEPT !.pc = pc]]
  BY DEF Goto
<1> QED
  BY <1>1, <1>2 DEF Moves

LEMMA FinishMoves ==
  ASSUME TypeInv, NEW c \in Calls, Finish(c)
  PROVE  Moves(c, Idle)
<1>1. Idle \in CallType /\ Shape(Idle)
  BY DEF Idle, CallType, Shape
<1> QED
  BY <1>1 DEF Finish, Moves

\* The catch of join: the engine it tears down is the one in engineRef.
LEMMA GiveUpMoves ==
  ASSUME TypeInv, NEW c \in Calls, GiveUp(c), calls[c].op = "join"
  PROVE  /\ session' = None /\ tearing' \in BOOLEAN
         /\ IF engine = None
              THEN Moves(c, [calls[c] EXCEPT !.pc = "cleanup"])
              ELSE Moves(c, [calls[c] EXCEPT !.pc = "tear", !.torn = engine])
<1>1. session' = None /\ tearing' \in BOOLEAN
  BY DEF GiveUp, TypeInv, CallsTypeOK
<1>2. CASE engine = None
  BY <1>1, <1>2, GotoMoves DEF GiveUp
<1>3. CASE engine # None
  <2> DEFINE k == [calls[c] EXCEPT !.pc = "tear", !.torn = engine]
  <2>1. k \in CallType /\ Shape(k)
    BY <1>3, Placed DEF CallType, Shape, TypeInv, CallsTypeOK
  <2>2. calls' = [calls EXCEPT ![c] = k]
    BY <1>3 DEF GiveUp
  <2> QED
    BY <1>1, <1>3, <2>1, <2>2 DEF Moves
<1> QED
  BY <1>2, <1>3

LEMMA StartJoinMoves ==
  ASSUME TypeInv, NEW c \in Calls, StartJoin(c)
  PROVE  Moves(c, [Idle EXCEPT !.op = "join", !.pc = "prepare"])
BY DEF StartJoin, Moves, Idle, CallType, Shape

LEMMA PrepareMoves ==
  ASSUME TypeInv, NEW c \in Calls, Prepare(c)
  PROVE  \E r \in Rooms :
           /\ engines[r] = "none" /\ engine' = r
           /\ engines' = [engines EXCEPT ![r] = "created"]
           /\ Moves(c, [calls[c] EXCEPT !.pc = "enter", !.room = r])
<1>1. PICK r \in Rooms :
        /\ engines[r] = "none" /\ engine' = r
        /\ engines' = [engines EXCEPT ![r] = "created"]
        /\ calls' = [calls EXCEPT ![c] = [calls[c] EXCEPT !.pc = "enter", !.room = r]]
  BY DEF Prepare
<1>2. calls[c].op = "join"
  BY DEF Prepare, At
<1>3. /\ [calls[c] EXCEPT !.pc = "enter", !.room = r] \in CallType
      /\ Shape([calls[c] EXCEPT !.pc = "enter", !.room = r])
  BY <1>2, Placed DEF CallType, Shape
<1> QED
  BY <1>1, <1>3 DEF Moves

LEMMA TearMoves ==
  ASSUME TypeInv, NEW c \in Calls, Tear(c)
  PROVE  \/ calls[c].op = "join" /\ Moves(c, [calls[c] EXCEPT !.pc = "cleanup"])
         \/ calls[c].op = "leave" /\ calls[c].room = None /\ Moves(c, Idle)
         \/ /\ calls[c].op = "leave" /\ calls[c].room # None
            /\ Moves(c, [calls[c] EXCEPT !.pc = "save"])
<1>1. calls[c].op \in {"join", "leave"}
  BY Placed DEF Tear, Shape
<1>2. CASE calls[c].op = "join"
  BY <1>2, GotoMoves DEF Tear
<1>3. CASE calls[c].op = "leave" /\ calls[c].room = None
  BY <1>3, FinishMoves DEF Tear
<1>4. CASE calls[c].op = "leave" /\ calls[c].room # None
  BY <1>4, GotoMoves DEF Tear
<1> QED
  BY <1>1, <1>2, <1>3, <1>4

LEMMA StartLeaveMoves ==
  ASSUME TypeInv, NEW c \in Calls, NEW hidden \in BOOLEAN, StartLeave(c, hidden)
  PROVE  Moves(c, [op |-> "leave", pc |-> IF engine # None THEN "tear" ELSE "save",
                   room |-> session, torn |-> engine, lines |-> conversation.enabled,
                   hidden |-> hidden])
BY DEF StartLeave, Moves, CallType, Shape, TypeInv, CallsTypeOK, ConversationType

-----------------------------------------------------------------------------
(* Every step keeps the types *)

LEMMA CallsTypeInitially == CallsInit => TypeInv
<1> SUFFICES ASSUME CallsInit PROVE TypeInv
  OBVIOUS
<1>1. Idle \in CallType /\ Shape(Idle) /\ Idle.pc # "tear"
  BY DEF Idle, CallType, Shape
<1>2. Silent \in ConversationType /\ Silent.exchange = 0
  BY RtcAssumption DEF Silent, ConversationType
<1>3. calls = [c \in Calls |-> Idle] /\ conversation = Silent
  BY DEF CallsInit
<1>4. /\ calls \in [Calls -> CallType]
      /\ \A c \in Calls : Shape(calls[c])
      /\ \A c \in Calls : calls[c].pc = "tear" => calls[c].torn \in Rooms
  BY <1>1, <1>3
<1>5. conversation \in ConversationType /\ conversation.exchange <= Len(said)
  BY <1>2, <1>3 DEF CallsInit
<1>6. <<>> \in Seq(Nat) /\ Len(<<>>) = 0
  OBVIOUS
<1>7. said \in Seq(Nat) /\ Len(said) <= MaxExchanges /\ faults \in 0 .. MaxFaults
  BY <1>6, RtcAssumption DEF CallsInit
<1>8. /\ engines \in [Rooms -> EngineState] /\ busy \in [Rooms -> BOOLEAN]
      /\ stored \in [Exchanges -> Nat]
  BY DEF CallsInit, EngineState
<1> QED
  BY <1>4, <1>5, <1>7, <1>8 DEF CallsInit, TypeInv, CallsTypeOK, Phases

\* What a step of join or leave does to the rest.
Around ==
  /\ calls' \in [Calls -> CallType]
  /\ \A d \in Calls : Shape(calls'[d])
  /\ \A d \in Calls : calls'[d].pc = "tear" => calls'[d].torn \in Rooms
  /\ UNCHANGED <<posts, busy, said, stored, claimRaced>>
  /\ faults' \in 0 .. MaxFaults

LEMMA FaultsCounted ==
  ASSUME TypeInv, (UNCHANGED faults) \/ Fault PROVE faults' \in 0 .. MaxFaults
BY RtcAssumption DEF TypeInv, CallsTypeOK, Fault

LEMMA Conversations ==
  ASSUME TypeInv
  PROVE  /\ Silent \in ConversationType /\ Silent.exchange <= Len(said)
         /\ [Silent EXCEPT !.posted = conversation.posted] \in ConversationType
         /\ [Silent EXCEPT !.posted = conversation.posted].exchange <= Len(said)
         /\ [conversation EXCEPT !.enabled = TRUE] \in ConversationType
         /\ [conversation EXCEPT !.enabled = TRUE].exchange <= Len(said)
<1>1. /\ Len(said) \in Nat /\ conversation \in ConversationType /\ 0 \in 0 .. MaxExchanges
      /\ conversation.exchange <= Len(said)
  BY RtcAssumption DEF TypeInv, CallsTypeOK
<1>2. Silent \in ConversationType /\ Silent.exchange = 0
  BY <1>1 DEF Silent, ConversationType
<1>3. /\ [Silent EXCEPT !.posted = conversation.posted] \in ConversationType
      /\ [Silent EXCEPT !.posted = conversation.posted].exchange = 0
  BY <1>1, <1>2 DEF ConversationType
<1>4. /\ [conversation EXCEPT !.enabled = TRUE] \in ConversationType
      /\ [conversation EXCEPT !.enabled = TRUE].exchange = conversation.exchange
  BY <1>1 DEF ConversationType
<1> QED
  BY <1>1, <1>2, <1>3, <1>4

LEMMA JoinType ==
  ASSUME TypeInv, NEW c \in Calls, Join(c)
  PROVE  TypeInv'
<1>1. CASE StartJoin(c)
  <2>1. Around
    BY <1>1, StartJoinMoves, Moved, FaultsCounted DEF StartJoin, Around, backend
  <2> QED
    BY <1>1, <2>1, Conversations
       DEF StartJoin, Around, TypeInv, CallsTypeOK, Phases
<1>2. CASE Prepare(c)
  <2>1. PICK r \in Rooms :
           /\ engines[r] = "none" /\ engine' = r
           /\ engines' = [engines EXCEPT ![r] = "created"]
           /\ Moves(c, [calls[c] EXCEPT !.pc = "enter", !.room = r])
    BY <1>2, PrepareMoves
  <2>2. Around
    BY <1>2, <2>1, Moved, FaultsCounted DEF Prepare, Around, backend
  <2>3. engines' \in [Rooms -> EngineState]
    BY <2>1 DEF TypeInv, CallsTypeOK, EngineState
  <2> QED
    BY <1>2, <2>1, <2>2, <2>3, Conversations
       DEF Prepare, Around, TypeInv, CallsTypeOK, history
<1>3. CASE EnterRoom(c)
  <2>1. calls[c].op = "join" /\ calls[c].room \in Rooms
    BY <1>3, Placed DEF EnterRoom, At, Shape
  <2>2. Around
    BY <1>3, <2>1, GotoMoves, Moved, FaultsCounted DEF EnterRoom, Around, backend
  <2>3. engines' \in [Rooms -> EngineState]
    BY <1>3, <2>1 DEF EnterRoom, TypeInv, CallsTypeOK, EngineState
  <2> QED
    BY <1>3, <2>2, <2>3 DEF EnterRoom, Around, TypeInv, CallsTypeOK, history
<1>4. CASE StartLocalMicrophone(c)
  <2>1. calls[c].op = "join" /\ calls[c].room \in Rooms
    BY <1>4, Placed DEF StartLocalMicrophone, At, Shape
  <2>2. Around
    BY <1>4, <2>1, GotoMoves, Moved, FaultsCounted DEF StartLocalMicrophone, Around, backend
  <2> QED
    BY <1>4, <2>2 DEF StartLocalMicrophone, Around, TypeInv, CallsTypeOK, history
<1>5. CASE StartAgent(c)
  <2>1. calls[c].room \in Rooms
    BY <1>5, Placed DEF StartAgent, At, Shape
  <2>2. Around
    BY <1>5, FinishMoves, Moved, FaultsCounted DEF StartAgent, Around, backend
  <2> QED
    BY <1>5, <2>1, <2>2, Conversations DEF StartAgent, Around, TypeInv, CallsTypeOK, history, Phases
<1>6. CASE JoinThrows(c)
  <2>1. Around /\ session' = None /\ tearing' \in BOOLEAN
    BY <1>6, GiveUpMoves, Moved, FaultsCounted DEF JoinThrows, Around, backend
  <2> QED
    BY <1>6, <2>1 DEF JoinThrows, Around, TypeInv, CallsTypeOK, history
<1>7. CASE AgentStartFails(c)
  <2>1. calls[c].room \in Rooms /\ calls[c].op = "join"
    BY <1>7, Placed DEF AgentStartFails, At, Shape
  <2>2. Around /\ session' = None /\ tearing' \in BOOLEAN
    BY <1>7, <2>1, GiveUpMoves, Moved, FaultsCounted DEF AgentStartFails, Around, backend
  <2>3. agents' \subseteq Rooms
    BY <1>7, <2>1 DEF AgentStartFails, TypeInv, CallsTypeOK
  <2> QED
    BY <1>7, <2>2, <2>3 DEF AgentStartFails, Around, TypeInv, CallsTypeOK, history
<1>8. CASE CleanUp(c)
  <2>1. Around
    BY <1>8, FinishMoves, Moved, FaultsCounted DEF CleanUp, Around, backend
  <2>2. agents' \subseteq Rooms /\ unstopped' \subseteq Rooms
    BY <1>8, Placed DEF CleanUp, TypeInv, CallsTypeOK
  <2> QED
    BY <1>8, <2>1, <2>2 DEF CleanUp, Around, TypeInv, CallsTypeOK, Phases
<1> QED
  BY <1>1, <1>2, <1>3, <1>4, <1>5, <1>6, <1>7, <1>8 DEF Join

LEMMA LeaveType ==
  ASSUME TypeInv, NEW c \in Calls, Leave(c)
  PROVE  TypeInv'
<1>1. ASSUME NEW hidden \in BOOLEAN, StartLeave(c, hidden) PROVE TypeInv'
  <2>1. Around
    BY <1>1, StartLeaveMoves, Moved, FaultsCounted DEF StartLeave, Around, backend
  <2>2. tearing' \in BOOLEAN /\ screen' \in Phases /\ overlapped' \in BOOLEAN
    BY <1>1 DEF StartLeave, TypeInv, CallsTypeOK, Phases
  <2> QED
    BY <1>1, <2>1, <2>2 DEF StartLeave, Around, TypeInv, CallsTypeOK
<1>2. CASE Tear(c)
  <2>1. Around
    <3>1. UNCHANGED <<posts, busy, said, stored, claimRaced, faults>>
      BY <1>2 DEF Tear, backend
    <3>2. \E k : Moves(c, k)
      BY <1>2, TearMoves
    <3> QED
      BY <3>1, <3>2, Moved, FaultsCounted DEF Around
  <2>2. engines' \in [Rooms -> EngineState]
    BY <1>2 DEF Tear, TypeInv, CallsTypeOK, EngineState
  <2>3. engine' = None /\ tearing' = FALSE
        /\ UNCHANGED <<screen, session, conversation, agents, overlapped, unstopped>>
    BY <1>2 DEF Tear, history
  <2> QED
    BY <2>1, <2>2, <2>3 DEF Around, TypeInv, CallsTypeOK
<1>3. CASE SaveMemory(c)
  <2>1. Around
    BY <1>3, GotoMoves, Moved, FaultsCounted DEF SaveMemory, At, Around, backend
  <2> QED
    BY <1>3, <2>1 DEF SaveMemory, Around, TypeInv, CallsTypeOK, history
<1>4. CASE SaveFails(c)
  <2>1. Around
    BY <1>4, GotoMoves, FinishMoves, Moved, FaultsCounted DEF SaveFails, At, Around, backend
  <2>2. screen' \in Phases
    BY <1>4 DEF SaveFails, TypeInv, CallsTypeOK, Phases
  <2> QED
    BY <1>4, <2>1, <2>2 DEF SaveFails, Around, TypeInv, CallsTypeOK, history
<1>5. CASE StopAgent(c)
  <2>1. Around
    BY <1>5, FinishMoves, Moved, FaultsCounted DEF StopAgent, Around, backend
  <2> QED
    BY <1>5, <2>1, Conversations DEF StopAgent, Around, TypeInv, CallsTypeOK, history, Phases
<1>6. CASE StopFails(c)
  <2>1. Around
    BY <1>6, FinishMoves, Moved, FaultsCounted DEF StopFails, Around, backend
  <2>2. agents' \subseteq Rooms
    BY <1>6 DEF StopFails, TypeInv, CallsTypeOK
  <2> QED
    BY <1>6, <2>1, <2>2 DEF StopFails, Around, TypeInv, CallsTypeOK, history, Phases
<1> QED
  BY <1>1, <1>2, <1>3, <1>4, <1>5, <1>6 DEF Leave

\* Speaking opens an exchange or lengthens the open one.
LEMMA SpeechType ==
  ASSUME TypeInv, UserLine \/ BotSegment
  PROVE  TypeInv'
<1>1. /\ conversation \in ConversationType /\ said \in Seq(Nat)
      /\ Len(said) \in Nat /\ MaxExchanges \in Nat
  BY RtcAssumption DEF TypeInv, CallsTypeOK
<1>2. CASE UserLine
  <2> DEFINE k == conversation.key + 1
             v == [conversation EXCEPT !.key = k, !.exchange = Len(said) + 1, !.segments = 0]
  <2>1. Len(said) + 1 \in 0 .. MaxExchanges
    BY <1>1, <1>2 DEF UserLine
  <2>2. v \in ConversationType /\ v.exchange = Len(said) + 1
    <3>1. k \in Nat
      BY <1>1 DEF ConversationType
    <3> HIDE DEF k
    <3> QED
      BY <1>1, <2>1, <3>1 DEF ConversationType
  <2>3. conversation' = v
    BY <1>2 DEF UserLine
  <2> HIDE DEF v
  <2>4. said' \in Seq(Nat) /\ Len(said') = Len(said) + 1
    BY <1>1, <1>2 DEF UserLine
  <2> QED
    BY <1>2, <2>1, <2>2, <2>3, <2>4 DEF UserLine, TypeInv, CallsTypeOK, backend, history
<1>3. CASE BotSegment
  <2> DEFINE e == conversation.exchange
             n == conversation.segments + 1
  <2>1. e \in 1 .. Len(said) /\ e \in Exchanges /\ n \in Nat /\ conversation.key \in Nat
        /\ conversation.posted \subseteq Nat
    BY <1>1, <1>3 DEF BotSegment, TypeInv, CallsTypeOK, ConversationType, Exchanges
  <2>2. said' = [said EXCEPT ![e] = @ + 1]
    BY <1>3 DEF BotSegment
  <2>3. said' \in Seq(Nat) /\ Len(said') = Len(said)
    BY <1>1, <2>1, <2>2
  <2>4. /\ conversation' \in ConversationType /\ conversation'.exchange = e
        /\ posts' \subseteq PostType
    <3>1. CASE Completed(conversation.key)
      <4>1. /\ conversation' = [conversation EXCEPT !.segments = n, !.posted = @ \cup {conversation.key}]
            /\ posts' = posts \cup {[exchange |-> e, segments |-> n, room |-> session, pc |-> "sent"]}
        BY <1>3, <3>1 DEF BotSegment
      <4>2. session \in Rooms /\ posts \subseteq PostType
        BY <3>1 DEF Completed, TypeInv, CallsTypeOK
      <4>3. [exchange |-> e, segments |-> n, room |-> session, pc |-> "sent"] \in PostType
        BY <2>1, <4>2 DEF PostType
      <4> QED
        BY <1>1, <2>1, <4>1, <4>2, <4>3 DEF ConversationType
    <3>2. CASE ~Completed(conversation.key)
      <4>1. conversation' = [conversation EXCEPT !.segments = n] /\ UNCHANGED posts
        BY <1>3, <3>2 DEF BotSegment
      <4> QED
        BY <1>1, <2>1, <4>1 DEF ConversationType, TypeInv, CallsTypeOK
    <3> QED
      BY <3>1, <3>2
  <2> QED
    BY <1>3, <2>1, <2>3, <2>4 DEF BotSegment, TypeInv, CallsTypeOK, history
<1> QED
  BY <1>2, <1>3

\* A request goes on, and the rest of them stays.
LEMMA AdvanceType ==
  ASSUME TypeInv, NEW p \in posts, NEW pc \in {"sent", "free", "claimed", "analyzed", "over"},
         Advance(p, pc)
  PROVE  posts' \subseteq PostType
<1>1. p \in PostType /\ posts \subseteq PostType
  BY DEF TypeInv, CallsTypeOK
<1>2. [p EXCEPT !.pc = pc] \in PostType
  BY <1>1 DEF PostType
<1> QED
  BY <1>1, <1>2 DEF Advance

LEMMA ExchangeType ==
  ASSUME TypeInv, NEW p \in posts, Exchange(p)
  PROVE  TypeInv'
<1>1. p \in PostType /\ p.room \in Rooms /\ p.exchange \in Exchanges
  BY DEF TypeInv, CallsTypeOK, PostType
<1>2. CASE ClaimRead(p)
  BY <1>2, AdvanceType DEF ClaimRead, client, history, TypeInv, CallsTypeOK
<1>3. CASE ClaimWrite(p)
  BY <1>1, <1>3, AdvanceType DEF ClaimWrite, client, history, TypeInv, CallsTypeOK
<1>4. CASE Analyze(p)
  BY <1>1, <1>4, AdvanceType DEF Analyze, client, history, TypeInv, CallsTypeOK
<1>5. CASE ReleaseRoom(p)
  BY <1>1, <1>5, AdvanceType DEF ReleaseRoom, client, history, TypeInv, CallsTypeOK
<1>6. CASE PostFails(p)
  BY <1>6, AdvanceType, FaultsCounted DEF PostFails, client, history, TypeInv, CallsTypeOK
<1> QED
  BY <1>2, <1>3, <1>4, <1>5, <1>6 DEF Exchange

LEMMA CallsTypeStep == TypeInv /\ [CallsNext]_callsVars => TypeInv'
<1> SUFFICES ASSUME TypeInv, [CallsNext]_callsVars PROVE TypeInv'
  OBVIOUS
<1>1. CASE UNCHANGED callsVars
  BY <1>1 DEF callsVars, client, backend, history, TypeInv, CallsTypeOK
<1>2. CASE EngineError
  BY <1>2, FaultsCounted DEF EngineError, backend, history, TypeInv, CallsTypeOK, Phases
<1>3. CASE Restart
  <2>1. posts' \subseteq PostType
    <3>1. \A p \in posts : p \in PostType /\ [p EXCEPT !.pc = "over"] \in PostType
      BY DEF TypeInv, CallsTypeOK, PostType
    <3> QED
      BY <1>3, <3>1 DEF Restart
  <2> QED
    BY <1>3, <2>1, FaultsCounted DEF Restart, client, history, TypeInv, CallsTypeOK
<1> QED
  BY <1>1, <1>2, <1>3, JoinType, LeaveType, SpeechType, ExchangeType DEF CallsNext

LEMMA CallsTypeInductive == CallsSpec => []TypeInv
BY CallsTypeInitially, CallsTypeStep, PTL DEF CallsSpec

\* Every reachable state of the client, the service and the backend is well typed,
\* and a call that waits for an engine to be torn down has one.
THEOREM CallsTypeCorrect == CallsSpec => []CallsTypeOK
<1>1. TypeInv => CallsTypeOK
  BY DEF TypeInv
<1> QED
  BY <1>1, CallsTypeInductive, PTL

-----------------------------------------------------------------------------
(* Every exchange is posted and stored at most once *)

\* An exchange has one request, which has not stored it before its analysis is
\* over; the open exchange has none unless its key has been posted.
OnceInv ==
  /\ \A p, q \in posts : p.exchange = q.exchange => p = q
  /\ \A p \in posts : p.exchange <= Len(said)
  /\ \A p \in posts : p.pc \in {"sent", "free", "claimed"} => stored[p.exchange] = 0
  /\ \A e \in Exchanges : stored[e] # 0 => stored[e] = 1 /\ \E p \in posts : p.exchange = e
  /\ conversation.exchange # 0 =>
       \/ conversation.key \in conversation.posted
       \/ \A p \in posts : p.exchange # conversation.exchange

Held == {"free", "claimed", "analyzed"}

\* As long as no two claims have overlapped, a room has one request that has
\* claimed it or is about to, and its key is set for the one that has.
FlightInv ==
  ~claimRaced =>
    /\ \A p, q \in posts : p.pc \in Held /\ q.pc \in Held /\ p.room = q.room => p = q
    /\ \A p \in posts : p.pc \in {"claimed", "analyzed"} => busy[p.room]

PostInv == OnceInv /\ FlightInv

LEMMA Advanced ==
  ASSUME TypeInv, NEW p \in posts, NEW pc, Advance(p, pc)
  PROVE  \E d : /\ posts' = (posts \ {p}) \cup {d}
                /\ d.exchange = p.exchange /\ d.room = p.room /\ d.pc = pc
<1>1. p \in PostType
  BY DEF TypeInv, CallsTypeOK
<1>2. /\ [p EXCEPT !.pc = pc].exchange = p.exchange
      /\ [p EXCEPT !.pc = pc].room = p.room
      /\ [p EXCEPT !.pc = pc].pc = pc
  BY <1>1 DEF PostType
<1> QED
  BY <1>2 DEF Advance

LEMMA ExchangeOnce ==
  ASSUME TypeInv, PostInv, NEW p \in posts, Exchange(p)
  PROVE  OnceInv'
<1>1. /\ p.exchange \in Exchanges /\ UNCHANGED <<conversation, said>>
      /\ stored \in [Exchanges -> Nat]
      /\ \A q \in posts : q.exchange \in Exchanges
  BY DEF TypeInv, CallsTypeOK, PostType, Exchange, ClaimRead, ClaimWrite, Analyze, ReleaseRoom,
         PostFails, client
<1>2. PICK pc : /\ Advance(p, pc)
                /\ pc \in {"sent", "free", "claimed"} => p.pc \in {"sent", "free", "claimed"}
                /\ \/ UNCHANGED stored
                   \/ /\ p.pc = "claimed" /\ pc = "analyzed"
                      /\ stored' = [stored EXCEPT ![p.exchange] = @ + 1]
  BY DEF Exchange, ClaimRead, ClaimWrite, Analyze, ReleaseRoom, PostFails
<1>3. PICK d : /\ posts' = (posts \ {p}) \cup {d}
               /\ d.exchange = p.exchange /\ d.room = p.room /\ d.pc = pc
  BY <1>2, Advanced
<1>4. /\ \A q, r \in posts' : q.exchange = r.exchange => q = r
      /\ \A q \in posts' : q.exchange <= Len(said')
  BY <1>1, <1>3 DEF PostInv, OnceInv
<1>5. conversation'.exchange # 0 =>
        \/ conversation'.key \in conversation'.posted
        \/ \A q \in posts' : q.exchange # conversation'.exchange
  BY <1>1, <1>3 DEF PostInv, OnceInv
<1>6. CASE UNCHANGED stored
  <2>1. \A q \in posts' : q.pc \in {"sent", "free", "claimed"} => stored'[q.exchange] = 0
    BY <1>2, <1>3, <1>6 DEF PostInv, OnceInv
  <2>2. \A e \in Exchanges : stored'[e] # 0 => stored'[e] = 1 /\ \E q \in posts' : q.exchange = e
    BY <1>3, <1>6 DEF PostInv, OnceInv
  <2> QED
    BY <1>4, <1>5, <2>1, <2>2 DEF OnceInv
<1>7. CASE /\ p.pc = "claimed" /\ pc = "analyzed"
           /\ stored' = [stored EXCEPT ![p.exchange] = @ + 1]
  <2>1. stored[p.exchange] = 0
    BY <1>7 DEF PostInv, OnceInv
  <2>2. stored'[p.exchange] = 1 /\ \A e \in Exchanges \ {p.exchange} : stored'[e] = stored[e]
    BY <1>1, <1>7, <2>1
  <2>3. \A q \in posts' : q.pc \in {"sent", "free", "claimed"} => stored'[q.exchange] = 0
    <3>1. SUFFICES ASSUME NEW q \in posts', q.pc \in {"sent", "free", "claimed"}
                   PROVE  stored'[q.exchange] = 0
      OBVIOUS
    <3>2. q \in posts /\ q # p
      BY <1>3, <1>7, <3>1
    <3>3. q.exchange # p.exchange
      BY <3>2 DEF PostInv, OnceInv
    <3> QED
      BY <1>1, <2>2, <3>1, <3>2, <3>3 DEF PostInv, OnceInv
  <2>4. \A e \in Exchanges : stored'[e] # 0 => stored'[e] = 1 /\ \E q \in posts' : q.exchange = e
    BY <1>3, <2>2 DEF PostInv, OnceInv
  <2> QED
    BY <1>4, <1>5, <2>3, <2>4 DEF OnceInv
<1> QED
  BY <1>2, <1>6, <1>7

LEMMA ExchangeFlight ==
  ASSUME TypeInv, PostInv, NEW p \in posts, Exchange(p)
  PROVE  FlightInv'
<1> SUFFICES ASSUME ~claimRaced'
             PROVE  /\ \A q, r \in posts' :
                          q.pc \in Held /\ r.pc \in Held /\ q.room = r.room => q = r
                    /\ \A q \in posts' : q.pc \in {"claimed", "analyzed"} => busy'[q.room]
  BY DEF FlightInv, Held
<1>1. /\ claimRaced \in BOOLEAN /\ busy \in [Rooms -> BOOLEAN]
      /\ \A q \in posts : q.room \in Rooms
  BY DEF TypeInv, CallsTypeOK, PostType
<1>2. ~claimRaced /\ (ClaimRead(p) => ~Claiming(p.room))
  BY <1>1 DEF Exchange, ClaimRead, ClaimWrite, Analyze, ReleaseRoom, PostFails
<1>3. /\ \A q, r \in posts : q.pc \in Held /\ r.pc \in Held /\ q.room = r.room => q = r
      /\ \A q \in posts : q.pc \in {"claimed", "analyzed"} => busy[q.room]
  BY <1>2 DEF PostInv, FlightInv
<1>4. CASE ClaimRead(p)
  <2>1. PICK d : /\ posts' = (posts \ {p}) \cup {d} /\ d.room = p.room
                 /\ d.pc = IF busy[p.room] THEN "over" ELSE "free"
    BY <1>4, Advanced DEF ClaimRead
  <2>2. UNCHANGED busy
    BY <1>4 DEF ClaimRead
  <2>3. ~busy[p.room] => \A q \in posts : q.room = p.room => q.pc \notin Held
    BY <1>2, <1>3, <1>4 DEF Held, Claiming
  <2>4. CASE busy[p.room]
    BY <1>3, <2>1, <2>2, <2>4 DEF Held
  <2>5. CASE ~busy[p.room]
    BY <1>3, <2>1, <2>2, <2>3, <2>5 DEF Held
  <2> QED
    BY <2>4, <2>5
<1>5. CASE ClaimWrite(p)
  <2>1. PICK d : /\ posts' = (posts \ {p}) \cup {d} /\ d.room = p.room /\ d.pc = "claimed"
    BY <1>5, Advanced DEF ClaimWrite
  <2>2. p.pc \in Held /\ busy'[p.room] /\ \A r \in Rooms : busy[r] => busy'[r]
    BY <1>1, <1>5 DEF ClaimWrite, Held
  <2>3. \A q, r \in posts' : q.pc \in Held /\ r.pc \in Held /\ q.room = r.room => q = r
    BY <1>3, <2>1, <2>2 DEF Held
  <2>4. \A q \in posts' : q.pc \in {"claimed", "analyzed"} => busy'[q.room]
    BY <1>1, <1>3, <2>1, <2>2
  <2> QED
    BY <2>3, <2>4
<1>6. CASE Analyze(p)
  <2>1. PICK d : /\ posts' = (posts \ {p}) \cup {d} /\ d.room = p.room /\ d.pc = "analyzed"
    BY <1>6, Advanced DEF Analyze
  <2>2. p.pc = "claimed" /\ UNCHANGED busy
    BY <1>6 DEF Analyze
  <2> QED
    BY <1>3, <2>1, <2>2 DEF Held
<1>7. CASE ReleaseRoom(p)
  <2>1. PICK d : /\ posts' = (posts \ {p}) \cup {d} /\ d.room = p.room /\ d.pc = "over"
    BY <1>7, Advanced DEF ReleaseRoom
  <2>2. p.pc \in Held /\ \A r \in Rooms \ {p.room} : busy'[r] = busy[r]
    BY <1>1, <1>7 DEF ReleaseRoom, Held
  <2>3. \A q \in posts \ {p} : q.pc \in Held => q.room # p.room
    BY <1>3, <2>2
  <2> QED
    BY <1>1, <1>3, <2>1, <2>2, <2>3 DEF Held
<1>8. CASE PostFails(p)
  <2>1. PICK d : /\ posts' = (posts \ {p}) \cup {d} /\ d.room = p.room
                 /\ d.pc = IF p.pc = "claimed" THEN "analyzed" ELSE "over"
    BY <1>8, Advanced DEF PostFails
  <2>2. UNCHANGED busy
    BY <1>8 DEF PostFails
  <2> QED
    BY <1>3, <2>1, <2>2 DEF Held
<1> QED
  BY <1>4, <1>5, <1>6, <1>7, <1>8 DEF Exchange

\* A final segment posts the exchange, unless its key has been posted.
LEMMA BotSegmentPosts ==
  ASSUME TypeInv, PostInv, BotSegment
  PROVE  PostInv'
<1> DEFINE e == conversation.exchange
           k == conversation.key
           n == conversation.segments + 1
<1>1. /\ UNCHANGED <<busy, stored, claimRaced>> /\ e # 0 /\ e \in Exchanges
      /\ e <= Len(said) /\ Len(said') = Len(said)
      /\ conversation \in ConversationType /\ posts \subseteq PostType
  BY DEF BotSegment, TypeInv, CallsTypeOK, ConversationType, Exchanges
<1>2. CASE Completed(k)
  <2> DEFINE p == [exchange |-> e, segments |-> n, room |-> session, pc |-> "sent"]
  <2>1. posts' = posts \cup {p} /\ k \notin conversation.posted
        /\ conversation' = [conversation EXCEPT !.segments = n, !.posted = @ \cup {k}]
    BY <1>2 DEF BotSegment, Completed
  <2>2. p.exchange = e /\ p.pc = "sent"
    OBVIOUS
  <2> HIDE DEF p
  <2>3. conversation'.key \in conversation'.posted
    BY <1>1, <2>1 DEF ConversationType
  <2>4. \A q \in posts : q.exchange # e
    BY <1>1, <2>1 DEF PostInv, OnceInv
  <2>5. stored[e] = 0
    BY <1>1, <2>4 DEF PostInv, OnceInv
  <2>6. OnceInv'
    BY <1>1, <2>1, <2>2, <2>3, <2>4, <2>5 DEF PostInv, OnceInv
  <2>7. FlightInv'
    BY <1>1, <2>1, <2>2 DEF PostInv, FlightInv, Held
  <2> QED
    BY <2>6, <2>7 DEF PostInv
<1>3. CASE ~Completed(k)
  <2>1. UNCHANGED posts /\ conversation' = [conversation EXCEPT !.segments = n]
    BY <1>3 DEF BotSegment
  <2>2. /\ conversation'.exchange = e /\ conversation'.key = k
        /\ conversation'.posted = conversation.posted
    BY <1>1, <2>1 DEF ConversationType
  <2> QED
    BY <1>1, <2>1, <2>2 DEF PostInv, OnceInv, FlightInv
<1> QED
  BY <1>2, <1>3

\* A line of the user opens an exchange that nobody has posted.
LEMMA UserLinePosts ==
  ASSUME TypeInv, PostInv, UserLine
  PROVE  PostInv'
<1>1. /\ UNCHANGED <<posts, busy, stored, claimRaced>>
      /\ conversation \in ConversationType /\ Len(said) \in Nat /\ Len(said') = Len(said) + 1
      /\ \A p \in posts : p.exchange \in Nat
  BY DEF UserLine, TypeInv, CallsTypeOK, backend, PostType, Exchanges
<1>2. conversation'.exchange = Len(said) + 1
  BY <1>1 DEF UserLine, ConversationType
<1>3. \A p \in posts' : p.exchange # conversation'.exchange /\ p.exchange <= Len(said')
  BY <1>1, <1>2 DEF PostInv, OnceInv
<1> QED
  BY <1>1, <1>3 DEF PostInv, OnceInv, FlightInv

LEMMA RestartPosts ==
  ASSUME TypeInv, PostInv, Restart
  PROVE  PostInv'
<1>1. UNCHANGED <<conversation, said, busy, stored, claimRaced>>
  BY DEF Restart, client
<1> DEFINE After(p) == IF p.pc = "sent" THEN p ELSE [p EXCEPT !.pc = "over"]
<1>2. ASSUME NEW p \in posts
      PROVE  /\ After(p).exchange = p.exchange /\ After(p).room = p.room
             /\ After(p).pc \in {"sent", "over"} /\ (After(p).pc = "sent" => p.pc = "sent")
  <2>1. p \in PostType
    BY DEF TypeInv, CallsTypeOK
  <2> QED
    BY <2>1 DEF PostType
<1>3. posts' = {After(p) : p \in posts}
  BY DEF Restart
<1> HIDE DEF After
<1>4. OnceInv'
  <2>1. \A q, r \in posts' : q.exchange = r.exchange => q = r
    BY <1>2, <1>3 DEF PostInv, OnceInv
  <2>2. /\ \A q \in posts' : q.exchange <= Len(said')
        /\ \A q \in posts' : q.pc \in {"sent", "free", "claimed"} => stored'[q.exchange] = 0
    BY <1>1, <1>2, <1>3 DEF PostInv, OnceInv
  <2>3. \A e \in Exchanges : stored'[e] # 0 => stored'[e] = 1 /\ \E q \in posts' : q.exchange = e
    BY <1>1, <1>2, <1>3 DEF PostInv, OnceInv
  <2>4. conversation'.exchange # 0 =>
          \/ conversation'.key \in conversation'.posted
          \/ \A q \in posts' : q.exchange # conversation'.exchange
    BY <1>1, <1>2, <1>3 DEF PostInv, OnceInv
  <2> QED
    BY <2>1, <2>2, <2>3, <2>4 DEF OnceInv
<1>5. FlightInv'
  BY <1>1, <1>2, <1>3 DEF PostInv, FlightInv, Held
<1> QED
  BY <1>4, <1>5 DEF PostInv

\* Joining and leaving do not touch what has been posted; they may forget the
\* open exchange.
LEMMA CallPosts ==
  ASSUME TypeInv, PostInv, UNCHANGED <<posts, busy, said, stored, claimRaced>>,
         \/ conversation'.exchange = 0
         \/ /\ conversation'.exchange = conversation.exchange
            /\ conversation'.key = conversation.key
            /\ conversation'.posted = conversation.posted
  PROVE  PostInv'
BY DEF PostInv, OnceInv, FlightInv

LEMMA JoiningForgets ==
  ASSUME TypeInv, NEW c \in Calls, Join(c) \/ Leave(c)
  PROVE  /\ UNCHANGED <<posts, busy, said, stored, claimRaced>>
         /\ \/ conversation'.exchange = 0
            \/ /\ conversation'.exchange = conversation.exchange
               /\ conversation'.key = conversation.key
               /\ conversation'.posted = conversation.posted
<1>1. UNCHANGED <<posts, busy, said, stored, claimRaced>>
  BY DEF Join, Leave, backend, StartJoin, Prepare, EnterRoom, StartLocalMicrophone,
         StartAgent, JoinThrows, AgentStartFails, CleanUp, StartLeave, Tear, SaveMemory, SaveFails,
         StopAgent, StopFails
<1>2. \/ UNCHANGED conversation
      \/ conversation' = Silent
      \/ conversation' = [Silent EXCEPT !.posted = conversation.posted]
      \/ conversation' = [conversation EXCEPT !.enabled = TRUE]
  BY DEF Join, Leave, StartJoin, Prepare, EnterRoom, StartLocalMicrophone,
         StartAgent, JoinThrows, AgentStartFails, CleanUp, StartLeave, Tear, SaveMemory, SaveFails,
         StopAgent, StopFails
<1>3. conversation \in ConversationType
  BY DEF TypeInv, CallsTypeOK
<1>4. Silent.exchange = 0 /\ [Silent EXCEPT !.posted = conversation.posted].exchange = 0
  BY DEF Silent
<1> QED
  BY <1>1, <1>2, <1>3, <1>4 DEF ConversationType

LEMMA PostStep == TypeInv /\ PostInv /\ [CallsNext]_callsVars => PostInv'
<1> SUFFICES ASSUME TypeInv, PostInv, [CallsNext]_callsVars PROVE PostInv'
  OBVIOUS
<1>1. CASE UNCHANGED callsVars
  BY <1>1 DEF callsVars, client, backend, PostInv, OnceInv, FlightInv
<1>2. CASE EngineError
  BY <1>2, CallPosts DEF EngineError, backend
<1>3. ASSUME NEW c \in Calls, Join(c) \/ Leave(c) PROVE PostInv'
  BY <1>3, JoiningForgets, CallPosts
<1>4. ASSUME NEW p \in posts, Exchange(p) PROVE PostInv'
  BY <1>4, ExchangeOnce, ExchangeFlight DEF PostInv
<1> QED
  BY <1>1, <1>2, <1>3, <1>4, BotSegmentPosts, UserLinePosts, RestartPosts DEF CallsNext

LEMMA PostInductive == CallsSpec => []PostInv
<1>1. CallsInit => PostInv
  BY DEF CallsInit, PostInv, OnceInv, FlightInv, Silent
<1> QED
  BY <1>1, CallsTypeInductive, PostStep, PTL DEF CallsSpec

\* However joins, leaves, claims and restarts overlap, an exchange of any number of
\* segments is committed to the store at most once.
THEOREM StoredOnceHolds == CallsSpec => []StoredOnce
<1>1. TypeInv /\ PostInv => StoredOnce
  BY DEF PostInv, OnceInv, StoredOnce, TypeInv, CallsTypeOK
<1> QED
  BY <1>1, CallsTypeInductive, PostInductive, PTL

\* A room is analyzed by one task at a time, for any number of posts, unless a
\* claim read the key between another's read and write.
THEOREM SingleFlightHolds == CallsSpec => []AnalysisSingleFlightUnlessRaced
<1>1. PostInv => AnalysisSingleFlightUnlessRaced
  BY DEF PostInv, FlightInv, Held, AnalysisSingleFlightUnlessRaced
<1> QED
  BY <1>1, PostInductive, PTL

-----------------------------------------------------------------------------
(* Nothing is left behind *)

Alive  == {r \in Rooms : engines[r] \in {"created", "joined"}}
Strays == agents \ unstopped

\* The only call is a join: there is no session yet, and until it throws no agent.
Joining(k) ==
  /\ session = None
  /\ k.pc = "prepare" => k.room = None
  /\ k.pc \in {"prepare", "enter", "microphone", "agent"} => engine = k.room /\ Strays = {}
  /\ k.pc = "tear" => engine = k.torn /\ Strays \subseteq {k.room}
  /\ k.pc = "cleanup" => engine = None /\ Strays \subseteq {k.room}

\* The only call is a leave: it knows the session, and the engine until that is
\* torn down.
Leaving(k) ==
  /\ session # None /\ k.room = session /\ Strays \subseteq {session}
  /\ engine = IF k.pc = "tear" THEN k.torn ELSE None

Settled == Strays \subseteq {session} /\ engine \in {session, None}

\* As long as no calls have overlapped, one is in flight at most, the one engine
\* that is alive is in engineRef, and the call, or the session when there is
\* none, accounts for the agents.
CallInv ==
  ~overlapped =>
    /\ Alive \subseteq {engine}
    /\ \A c, d \in Calls : Running(c) /\ Running(d) => c = d
    /\ Quiet => Settled
    /\ \A c \in Calls : calls[c].op = "join" => Joining(calls[c])
    /\ \A c \in Calls : calls[c].op = "leave" => Leaving(calls[c])

\* One call moves, alone.
LEMMA AloneStep ==
  ASSUME TypeInv, CallInv, ~overlapped, NEW c \in Calls, Running(c) \/ Quiet,
         \A d \in Calls \ {c} : calls'[d] = calls[d],
         Alive' \subseteq {engine'},
         Running(c)' \/ Settled',
         calls'[c].op = "join" => Joining(calls[c])',
         calls'[c].op = "leave" => Leaving(calls[c])'
  PROVE  CallInv'
<1>1. \A d \in Calls \ {c} : ~Running(d)
  BY DEF CallInv, Quiet
<1>2. \A d \in Calls \ {c} : ~Running(d)' /\ calls'[d].op = "none"
  BY <1>1 DEF Running
<1>3. Quiet' => Settled'
  BY DEF Quiet
<1>4. \A d \in Calls : calls'[d].op = "join" => Joining(calls[d])'
  BY <1>2
<1>5. \A d \in Calls : calls'[d].op = "leave" => Leaving(calls[d])'
  BY <1>2
<1> QED
  BY <1>2, <1>3, <1>4, <1>5 DEF CallInv

\* What the invariant says of the one call in flight.
LEMMA Only ==
  ASSUME TypeInv, CallInv, ~overlapped, NEW c \in Calls, Running(c)
  PROVE  /\ Alive \subseteq {engine}
         /\ calls[c].op = "join" => Joining(calls[c])
         /\ calls[c].op = "leave" => Leaving(calls[c])
         /\ agents \subseteq Rooms /\ None \notin Rooms
BY RtcAssumption DEF CallInv, TypeInv, CallsTypeOK

LEMMA RunningNow ==
  ASSUME TypeInv, NEW c \in Calls, calls[c].op # "none" \/ calls[c].pc # "idle"
  PROVE  Running(c)
BY Placed DEF Running, Shape

LEMMA StartJoinAlone ==
  ASSUME TypeInv, CallInv, ~overlapped', NEW c \in Calls, StartJoin(c)
  PROVE  CallInv'
<1>1. /\ ~overlapped /\ Quiet /\ session = None
      /\ UNCHANGED <<session, engine, engines, agents, unstopped>>
  BY DEF StartJoin, TypeInv, CallsTypeOK
<1>2. Alive \subseteq {engine} /\ Strays = {} /\ engine = None
  BY <1>1, RtcAssumption DEF CallInv, Settled, Strays, TypeInv, CallsTypeOK
<1>3. /\ calls'[c] = [Idle EXCEPT !.op = "join", !.pc = "prepare"]
      /\ \A d \in Calls \ {c} : calls'[d] = calls[d]
  BY StartJoinMoves, Moved
<1>4. calls'[c].op = "join" /\ calls'[c].pc = "prepare" /\ calls'[c].room = None
  BY <1>3 DEF Idle
<1>5. Joining(calls[c])' /\ Running(c)' /\ Alive' \subseteq {engine'}
  BY <1>1, <1>2, <1>4 DEF Joining, Running, Strays, Alive
<1> QED
  BY <1>1, <1>3, <1>4, <1>5, AloneStep

LEMMA PrepareAlone ==
  ASSUME TypeInv, CallInv, ~overlapped', NEW c \in Calls, Prepare(c)
  PROVE  CallInv'
<1>1. /\ ~overlapped /\ calls[c].op = "join" /\ calls[c].pc = "prepare" /\ Running(c)
      /\ UNCHANGED <<session, agents, unstopped>>
  BY RunningNow DEF Prepare, At, history
<1>2. Alive \subseteq {engine} /\ Joining(calls[c]) /\ None \notin Rooms
  BY <1>1, Only
<1>3. PICK r \in Rooms :
        /\ engines[r] = "none" /\ engine' = r
        /\ engines' = [engines EXCEPT ![r] = "created"]
        /\ Moves(c, [calls[c] EXCEPT !.pc = "enter", !.room = r])
  BY PrepareMoves
<1>4. /\ calls'[c] = [calls[c] EXCEPT !.pc = "enter", !.room = r]
      /\ \A d \in Calls \ {c} : calls'[d] = calls[d]
  BY <1>3, Moved
<1>5. calls'[c].op = "join" /\ calls'[c].pc = "enter" /\ calls'[c].room = r
  BY <1>1, <1>4, Placed DEF CallType
<1>6. Alive' \subseteq {engine'}
  BY <1>1, <1>2, <1>3 DEF Joining, Alive, TypeInv, CallsTypeOK
<1>7. Joining(calls[c])' /\ Running(c)'
  BY <1>1, <1>2, <1>3, <1>5 DEF Joining, Running, Strays
<1> QED
  BY <1>1, <1>4, <1>5, <1>6, <1>7, AloneStep

\* The awaits of a join up to the agent.
LEMMA EnteringAlone ==
  ASSUME TypeInv, CallInv, ~overlapped', NEW c \in Calls, EnterRoom(c) \/ StartLocalMicrophone(c)
  PROVE  CallInv'
<1>1. /\ ~overlapped /\ calls[c].op = "join" /\ calls[c].pc \in {"enter", "microphone"} /\ Running(c)
      /\ calls[c].room \in Rooms
      /\ UNCHANGED <<session, engine, agents, unstopped>>
  BY RunningNow, Placed DEF EnterRoom, StartLocalMicrophone, At, history, Shape
<1>2. Alive \subseteq {engine} /\ Joining(calls[c])
  BY <1>1, Only
<1>3. PICK pc \in {"microphone", "agent"} : Goto(c, pc)
  BY DEF EnterRoom, StartLocalMicrophone
<1>4. Moves(c, [calls[c] EXCEPT !.pc = pc])
  BY <1>1, <1>3, GotoMoves
<1>5. /\ calls'[c] = [calls[c] EXCEPT !.pc = pc]
      /\ \A d \in Calls \ {c} : calls'[d] = calls[d]
  BY <1>4, Moved
<1>6. calls'[c].op = "join" /\ calls'[c].pc = pc /\ calls'[c].room = calls[c].room
  BY <1>1, <1>5, Placed DEF CallType
<1>7. Alive' \subseteq {engine'}
  BY <1>1, <1>2 DEF EnterRoom, StartLocalMicrophone, Joining, Alive, TypeInv, CallsTypeOK
<1>8. Joining(calls[c])' /\ Running(c)'
  BY <1>1, <1>2, <1>3, <1>6 DEF Joining, Running, Strays
<1> QED
  BY <1>1, <1>5, <1>6, <1>7, <1>8, AloneStep

LEMMA StartAgentAlone ==
  ASSUME TypeInv, CallInv, ~overlapped', NEW c \in Calls, StartAgent(c)
  PROVE  CallInv'
<1>1. /\ ~overlapped /\ calls[c].op = "join" /\ calls[c].pc = "agent" /\ Running(c)
      /\ agents' = agents \cup {calls[c].room} /\ session' = calls[c].room
      /\ UNCHANGED <<engine, engines, unstopped>>
  BY RunningNow DEF StartAgent, At, history
<1>2. Alive \subseteq {engine} /\ Joining(calls[c])
  BY <1>1, Only
<1>3. calls'[c] = Idle /\ \A d \in Calls \ {c} : calls'[d] = calls[d]
  BY FinishMoves, Moved DEF StartAgent
<1>4. calls'[c].op = "none"
  BY <1>3 DEF Idle
<1>5. Alive' \subseteq {engine'}
  BY <1>1, <1>2 DEF Alive
<1>6. Settled'
  BY <1>1, <1>2 DEF Settled, Strays, Joining
<1> QED
  BY <1>1, <1>3, <1>4, <1>5, <1>6, AloneStep

\* A join throws: what it has is torn down next.
LEMMA ThrowAlone ==
  ASSUME TypeInv, CallInv, ~overlapped', NEW c \in Calls, JoinThrows(c) \/ AgentStartFails(c)
  PROVE  CallInv'
<1>1. /\ ~overlapped /\ calls[c].op = "join" /\ Running(c) /\ GiveUp(c)
      /\ calls[c].pc \in {"prepare", "enter", "microphone", "agent"}
      /\ agents' \subseteq agents \cup {calls[c].room}
      /\ (calls[c].pc = "prepare" => UNCHANGED agents)
      /\ UNCHANGED <<engine, engines, unstopped>>
  BY RunningNow DEF JoinThrows, AgentStartFails, At, history
<1>2. Alive \subseteq {engine} /\ Joining(calls[c]) /\ agents \subseteq Rooms /\ None \notin Rooms
  BY <1>1, Only
<1>3. session' = None /\ Strays' \subseteq {calls[c].room}
  BY <1>1, <1>2, GiveUpMoves DEF Joining, Strays
<1>4. Alive' \subseteq {engine'}
  BY <1>1, <1>2 DEF Alive
<1>5. CASE engine = None
  <2>1. /\ calls'[c] = [calls[c] EXCEPT !.pc = "cleanup"]
        /\ \A d \in Calls \ {c} : calls'[d] = calls[d]
    BY <1>1, <1>5, GiveUpMoves, Moved
  <2>2. calls'[c].op = "join" /\ calls'[c].pc = "cleanup" /\ calls'[c].room = calls[c].room
    BY <1>1, <2>1, Placed DEF CallType
  <2>3. Joining(calls[c])' /\ Running(c)'
    BY <1>1, <1>3, <1>5, <2>2 DEF Joining, Running
  <2> QED
    BY <1>1, <1>4, <2>1, <2>2, <2>3, AloneStep
<1>6. CASE engine # None
  <2>1. /\ calls'[c] = [calls[c] EXCEPT !.pc = "tear", !.torn = engine]
        /\ \A d \in Calls \ {c} : calls'[d] = calls[d]
    BY <1>1, <1>6, GiveUpMoves, Moved
  <2>2. /\ calls'[c].op = "join" /\ calls'[c].pc = "tear" /\ calls'[c].room = calls[c].room
        /\ calls'[c].torn = engine
    BY <1>1, <2>1, Placed DEF CallType
  <2>3. Joining(calls[c])' /\ Running(c)'
    BY <1>1, <1>3, <1>6, <2>2 DEF Joining, Running
  <2> QED
    BY <1>1, <1>4, <2>1, <2>2, <2>3, AloneStep
<1> QED
  BY <1>5, <1>6

LEMMA CleanUpAlone ==
  ASSUME TypeInv, CallInv, ~overlapped', NEW c \in Calls, CleanUp(c)
  PROVE  CallInv'
<1>1. /\ ~overlapped /\ calls[c].op = "join" /\ calls[c].pc = "cleanup" /\ Running(c)
      /\ UNCHANGED <<session, engine, engines>>
      /\ agents' \ unstopped' \subseteq (agents \ unstopped) \ {calls[c].room}
  BY RunningNow DEF CleanUp, At
<1>2. Alive \subseteq {engine} /\ Joining(calls[c])
  BY <1>1, Only
<1>3. calls'[c] = Idle /\ \A d \in Calls \ {c} : calls'[d] = calls[d]
  BY FinishMoves, Moved DEF CleanUp
<1>4. calls'[c].op = "none"
  BY <1>3 DEF Idle
<1>5. Alive' \subseteq {engine'}
  BY <1>1, <1>2 DEF Alive
<1>6. Settled'
  BY <1>1, <1>2 DEF Settled, Strays, Joining
<1> QED
  BY <1>1, <1>3, <1>4, <1>5, <1>6, AloneStep

\* The engine that was captured is the one that is alive.
LEMMA TearAlone ==
  ASSUME TypeInv, CallInv, ~overlapped', NEW c \in Calls, Tear(c)
  PROVE  CallInv'
<1>1. /\ ~overlapped /\ calls[c].pc = "tear" /\ Running(c) /\ engine' = None
      /\ UNCHANGED <<session, agents, unstopped>>
      /\ engines' = [engines EXCEPT ![calls[c].torn] = "destroyed"]
  BY RunningNow DEF Tear, history
<1>2. /\ Alive \subseteq {engine}
      /\ calls[c].op = "join" => Joining(calls[c])
      /\ calls[c].op = "leave" => Leaving(calls[c])
  BY <1>1, Only
<1>3. calls[c].op \in {"join", "leave"} /\ engine = calls[c].torn
  BY <1>1, <1>2, Placed DEF Running, Joining, Leaving
<1>4. Alive' \subseteq {engine'} /\ Strays' = Strays
  BY <1>1, <1>2, <1>3 DEF Alive, TypeInv, CallsTypeOK, Strays
<1>5. CASE calls[c].op = "join"
  <2>1. /\ calls'[c] = [calls[c] EXCEPT !.pc = "cleanup"]
        /\ \A d \in Calls \ {c} : calls'[d] = calls[d]
    BY <1>5, TearMoves, Moved
  <2>2. calls'[c].op = "join" /\ calls'[c].pc = "cleanup" /\ calls'[c].room = calls[c].room
    BY <1>5, <2>1, Placed DEF CallType
  <2>3. Joining(calls[c])' /\ Running(c)'
    BY <1>1, <1>2, <1>4, <1>5, <2>2 DEF Joining, Running
  <2> QED
    BY <1>1, <1>4, <2>1, <2>2, <2>3, AloneStep
<1>6. CASE calls[c].op = "leave"
  <2>1. calls[c].room # None
    BY <1>2, <1>6 DEF Leaving
  <2>2. /\ calls'[c] = [calls[c] EXCEPT !.pc = "save"]
        /\ \A d \in Calls \ {c} : calls'[d] = calls[d]
    BY <1>6, <2>1, TearMoves, Moved
  <2>3. calls'[c].op = "leave" /\ calls'[c].pc = "save" /\ calls'[c].room = calls[c].room
    BY <1>6, <2>2, Placed DEF CallType
  <2>4. Leaving(calls[c])' /\ Running(c)'
    BY <1>1, <1>2, <1>4, <1>6, <2>3 DEF Leaving, Running
  <2> QED
    BY <1>1, <1>4, <2>2, <2>3, <2>4, AloneStep
<1> QED
  BY <1>3, <1>5, <1>6

LEMMA StartLeaveAlone ==
  ASSUME TypeInv, CallInv, ~overlapped', NEW c \in Calls, NEW hidden \in BOOLEAN,
         StartLeave(c, hidden)
  PROVE  CallInv'
<1>1. /\ ~overlapped /\ Quiet /\ (session # None \/ engine # None)
      /\ UNCHANGED <<session, engine, engines, agents, unstopped>>
  BY DEF StartLeave, TypeInv, CallsTypeOK
<1>2. Alive \subseteq {engine} /\ Settled
  BY <1>1 DEF CallInv
<1>3. /\ calls'[c] = [op |-> "leave", pc |-> IF engine # None THEN "tear" ELSE "save",
                      room |-> session, torn |-> engine, lines |-> conversation.enabled,
                      hidden |-> hidden]
      /\ \A d \in Calls \ {c} : calls'[d] = calls[d]
  BY StartLeaveMoves, Moved
<1>4. Leaving(calls[c])' /\ Running(c)' /\ calls'[c].op = "leave"
  BY <1>1, <1>2, <1>3 DEF Settled, Leaving, Running, Strays
<1>5. Alive' \subseteq {engine'}
  BY <1>1, <1>2 DEF Alive
<1> QED
  BY <1>1, <1>3, <1>4, <1>5, AloneStep

\* The rest of a leave ends with the session given up or kept.
LEMMA LeavingAlone ==
  ASSUME TypeInv, CallInv, ~overlapped', NEW c \in Calls,
         SaveMemory(c) \/ SaveFails(c) \/ StopAgent(c) \/ StopFails(c)
  PROVE  CallInv'
<1>1. /\ ~overlapped /\ calls[c].op = "leave" /\ calls[c].pc \in {"save", "stop"} /\ Running(c)
      /\ UNCHANGED <<engine, engines, unstopped>>
      /\ agents' \subseteq agents
      /\ \/ UNCHANGED session
         \/ session' = None /\ agents' = agents \ {calls[c].room} /\ Finish(c)
      /\ Goto(c, "stop") \/ Finish(c)
  BY RunningNow DEF SaveMemory, SaveFails, StopAgent, StopFails, At, history
<1>2. Alive \subseteq {engine} /\ Leaving(calls[c])
  BY <1>1, Only
<1>3. Alive' \subseteq {engine'}
  BY <1>1, <1>2 DEF Alive
<1>4. CASE Finish(c)
  <2>1. calls'[c] = Idle /\ \A d \in Calls \ {c} : calls'[d] = calls[d]
    BY <1>4, FinishMoves, Moved
  <2>2. calls'[c].op = "none"
    BY <2>1 DEF Idle
  <2>3. Settled'
    BY <1>1, <1>2 DEF Settled, Strays, Leaving
  <2> QED
    BY <1>1, <1>3, <2>1, <2>2, <2>3, AloneStep
<1>5. CASE Goto(c, "stop") /\ UNCHANGED session
  <2>1. /\ calls'[c] = [calls[c] EXCEPT !.pc = "stop"]
        /\ \A d \in Calls \ {c} : calls'[d] = calls[d]
    BY <1>1, <1>5, GotoMoves, Moved
  <2>2. calls'[c].op = "leave" /\ calls'[c].pc = "stop" /\ calls'[c].room = calls[c].room
    BY <1>1, <2>1, Placed DEF CallType
  <2>3. Leaving(calls[c])' /\ Running(c)'
    BY <1>1, <1>2, <1>5, <2>2 DEF Leaving, Running, Strays
  <2> QED
    BY <1>1, <1>3, <2>1, <2>2, <2>3, AloneStep
<1> QED
  BY <1>1, <1>4, <1>5

LEMMA CallsStep == TypeInv /\ CallInv /\ [CallsNext]_callsVars => CallInv'
<1> SUFFICES ASSUME TypeInv, CallInv, [CallsNext]_callsVars, ~overlapped' PROVE CallInv'
  BY DEF CallInv
<1>1. CASE UNCHANGED <<session, engine, calls, engines, agents, overlapped, unstopped>>
  BY <1>1 DEF CallInv, Alive, Strays, Settled, Quiet, Running, Joining, Leaving
<1>2. ASSUME UNCHANGED callsVars \/ EngineError \/ UserLine \/ BotSegment \/ Restart
             \/ \E p \in posts : Exchange(p)
      PROVE  UNCHANGED <<session, engine, calls, engines, agents, overlapped, unstopped>>
  BY <1>2 DEF callsVars, EngineError, UserLine, BotSegment, Restart, Exchange, ClaimRead, ClaimWrite,
              Analyze, ReleaseRoom, PostFails, client, history
<1>3. ASSUME NEW c \in Calls, Join(c) PROVE CallInv'
  BY <1>3, StartJoinAlone, PrepareAlone, EnteringAlone, StartAgentAlone, ThrowAlone, CleanUpAlone DEF Join
<1>4. ASSUME NEW c \in Calls, Leave(c) PROVE CallInv'
  BY <1>4, StartLeaveAlone, TearAlone, LeavingAlone DEF Leave
<1> QED
  BY <1>1, <1>2, <1>3, <1>4 DEF CallsNext

\* For any number of rooms, calls and faults: when nothing is in flight the client
\* holds every agent and every engine that is alive, unless calls have overlapped
\* or the stop that cleans up a failed join has failed itself.
THEOREM NothingLeftBehindHolds == CallsSpec => []NothingLeftBehindUnlessOverlapped
<1>1. CallsInit => CallInv
  BY DEF CallsInit, CallInv, Alive, Strays, Settled, Running, Idle
<1>2. CallInv => NothingLeftBehindUnlessOverlapped
  BY DEF CallInv, Settled, Strays, Alive, NothingLeftBehindUnlessOverlapped
<1> QED
  BY <1>1, <1>2, CallsTypeInductive, CallsStep, PTL DEF CallsSpec

-----------------------------------------------------------------------------
(* The feelings: what each rule makes of the rows *)

\* A clamped step up, down or either way ends in the interval.
LEMMA Up == ASSUME NEW x \in Level, NEW d \in Nat PROVE Clamp(x + d) \in Level
  BY DEF Clamp, Level
LEMMA Down == ASSUME NEW x \in Level, NEW d \in Nat PROVE Clamp(x - d) \in Level
  BY DEF Clamp, Level
LEMMA Either == ASSUME NEW x \in Level, NEW d \in Int PROVE Clamp(x + d) \in Level
  BY DEF Clamp, Level

\* A step down does not raise a value, and one up does not lower it.
LEMMA Eased == ASSUME NEW x \in Level, NEW d \in Nat PROVE Clamp(x - d) <= x
  BY DEF Clamp, Level
LEMMA Raised == ASSUME NEW x \in Level, NEW d \in Nat PROVE Clamp(x + d) >= x
  BY DEF Clamp, Level

LEMMA Numbers == ASSUME NEW x \in Level PROVE x \in Nat
  BY DEF Level

\* A share of at most the whole stays in the interval.
LEMMA NineTenths == ASSUME NEW x \in Level PROVE Rounded(9 * x, 10) \in Level
  BY DEF Rounded, Level
LEMMA NineteenTwentieths == ASSUME NEW x \in Level PROVE Rounded(95 * x, 100) \in Level
  BY DEF Rounded, Level

LEMMA MoodFields ==
  ASSUME NEW m \in Mood
  PROVE  /\ m.label \in Labels /\ m.energy \in Level /\ m.annoyance \in Level
         /\ m.boredom \in Level /\ m.worry \in Level /\ m.loneliness \in Level
  BY DEF Mood

LEMMA BondFields ==
  ASSUME NEW b \in Bond
  PROVE  /\ b.trust \in Level /\ b.closeness \in Level /\ b.familiarity \in Level
         /\ b.tension \in Level
  BY DEF Bond

\* A message leaves a mood.
LEMMA MessageMood ==
  ASSUME NEW m \in Mood, NEW msg PROVE AfterMessage(m, msg) \in Mood
<1>1. {"annoyed", "worried", "angry"} \subseteq Labels
  BY DEF Labels
<1>2. /\ Clamp(m.annoyance + 120) \in Level /\ Clamp(m.boredom + 80) \in Level
      /\ Clamp(m.annoyance + 80) \in Level /\ Clamp(m.boredom + 50) \in Level
      /\ Clamp(m.worry + 150) \in Level /\ Clamp(m.energy + 20) \in Level
  BY MoodFields, Up
<1>3. /\ Clamp(m.annoyance - 120) \in Level /\ Clamp(m.annoyance - 50) \in Level
      /\ Clamp(m.loneliness - 40) \in Level /\ Clamp(m.boredom - 50) \in Level
  BY MoodFields, Down
<1>4. QED
  BY <1>1, <1>2, <1>3, ZenonT(40) DEF AfterMessage, Mood

\* A message leaves a relationship.
LEMMA WordsBond ==
  ASSUME NEW b \in Bond, NEW msg PROVE AfterWords(b, msg) \in Bond
<1>1. /\ Clamp(b.tension + 80) \in Level /\ Clamp(b.trust - 50) \in Level
      /\ Clamp(b.trust + 40) \in Level
  BY BondFields, Up, Down
<1>2. QED
  BY <1>1 DEF AfterWords, Bond

\* A tick leaves a mood.
LEMMA TickMood ==
  ASSUME NEW m \in Mood, NEW b \in Bond PROVE AfterTick(m, b) \in Mood
<1> DEFINE boredom == Clamp(m.boredom + 50)
           energy == Clamp(m.energy - 20)
           loneliness == Clamp(m.loneliness + Rounded(30 * (1000 - b.closeness), 1000))
           n == [m EXCEPT !.boredom = boredom, !.energy = energy, !.loneliness = loneliness]
<1>1. Rounded(30 * (1000 - b.closeness), 1000) \in Int
  <2>1. b.closeness \in 0 .. 1000
    BY BondFields DEF Level
  <2>2. 30 * (1000 - b.closeness) \in Int
    BY <2>1, SMTT(20)
  <2>3. ASSUME NEW x \in Int PROVE Rounded(x, 1000) \in Int
    BY SMTT(20) DEF Rounded
  <2> QED
    BY <2>2, <2>3
<1>2. boredom \in Level /\ energy \in Level
  BY MoodFields, Up, Down
<1>3. loneliness \in Level
  BY <1>1, MoodFields, Either
<1>4. AfterTick(m, b) =
        [n EXCEPT !.label = IF n.boredom >= 550 \/ n.loneliness >= 550 THEN "annoyed"
                            ELSE IF n.boredom >= 400 \/ n.energy <= 350 THEN "sleepy" ELSE @]
  BY DEF AfterTick
<1> HIDE DEF boredom, energy, loneliness
<1>5. n \in Mood
  BY <1>2, <1>3 DEF Mood
<1> HIDE DEF n
<1>6. {"annoyed", "sleepy"} \subseteq Labels
  BY DEF Labels
<1>7. QED
  BY <1>4, <1>5, <1>6 DEF Mood

\* An appraisal leaves a mood.
LEMMA AppraisedMood ==
  ASSUME NEW m \in Mood, NEW a \in Appraisal PROVE MoodAppraised(m, a) \in Mood
<1> DEFINE worry == IF a.valence < 0
                      THEN Clamp(m.worry + Rounded((-a.valence) * a.relevance, 10000))
                      ELSE IF a.valence > 0 THEN Rounded(9 * m.worry, 10) ELSE m.worry
           boredom == IF a.valence > 0 THEN Rounded(95 * m.boredom, 100) ELSE m.boredom
           loneliness == IF Meaningful(a) THEN Clamp(m.loneliness - 100) ELSE m.loneliness
<1>1. a.valence \in Int /\ a.relevance \in Int
  BY DEF Appraisal, Level
<1>2. (-a.valence) * a.relevance \in Int
  BY <1>1
<1>3. Rounded((-a.valence) * a.relevance, 10000) \in Int
  BY <1>2 DEF Rounded
<1>4. worry \in Level
  BY <1>3, MoodFields, Either, NineTenths
<1>5. boredom \in Level
  BY MoodFields, NineteenTwentieths
<1>6. loneliness \in Level
  BY MoodFields, Down
<1>7. MoodAppraised(m, a) =
        [m EXCEPT !.worry = worry, !.boredom = boredom, !.loneliness = loneliness]
  BY DEF MoodAppraised
<1> HIDE DEF worry, boredom, loneliness
<1>8. QED
  BY <1>4, <1>5, <1>6, <1>7 DEF Mood

\* An appraisal leaves a relationship.
LEMMA AppraisedBond ==
  ASSUME NEW b \in Bond, NEW a \in Appraisal PROVE BondAppraised(b, a) \in Bond
<1> DEFINE tension == Clamp(b.tension + Limit(a.tension, 100))
           trust == Clamp(b.trust + Limit(a.trust, 100))
           closeness == Clamp(b.closeness + Limit(a.closeness, 100))
           warmer == a.valence > 0 /\ a.relevance > 0
<1>1. a.trust \in Int /\ a.closeness \in Int /\ a.tension \in Int
  BY DEF Appraisal
<1>2. /\ Limit(a.trust, 100) \in Int /\ Limit(a.closeness, 100) \in Int
      /\ Limit(a.tension, 100) \in Int
  BY <1>1 DEF Limit
<1>3. trust \in Level /\ closeness \in Level /\ tension \in Level
  BY <1>2, BondFields, Either
<1>4. BondAppraised(b, a) =
        [trust |-> Clamp(trust + IF warmer THEN 10 ELSE 0),
         closeness |-> Clamp(closeness + IF warmer THEN 20 ELSE 0),
         familiarity |-> Clamp(b.familiarity + 10),
         tension |-> IF a.tension > 0 THEN tension ELSE Rounded(9 * tension, 10)]
  BY DEF BondAppraised
<1> HIDE DEF trust, closeness, tension, warmer
<1>5. /\ Clamp(trust + IF warmer THEN 10 ELSE 0) \in Level
      /\ Clamp(closeness + IF warmer THEN 20 ELSE 0) \in Level
  BY <1>3, Up
<1>6. Clamp(b.familiarity + 10) \in Level
  BY BondFields, Up
<1>7. Rounded(9 * tension, 10) \in Level
  BY <1>3, NineTenths
<1>8. QED
  BY <1>3, <1>4, <1>5, <1>6, <1>7 DEF Bond

\* The tone is one of six.
LEMMA ToneRegister ==
  ASSUME NEW m, NEW b, NEW overwhelmed, NEW armed
  PROVE  ProjectTone(m, b, overwhelmed, armed) \in Registers
  BY DEF ProjectTone, Registers

-----------------------------------------------------------------------------
(* The rows keep their type *)

\* What a turn has decided, as it is built.
LEMMA DecisionTyped ==
  ASSUME NEW msg \in AllMessages, mood \in Mood, bond \in Bond, NEW s \in Nat,
         NEW r \in Registers
  PROVE  [at |-> "deciding", msg |-> msg, mood |-> AfterMessage(mood, msg),
          bond |-> AfterWords(bond, msg), streak |-> s, crossed |-> FALSE,
          register |-> r] \in Decision
  BY MessageMood, WordsBond DEF Decision

\* A turn that hands on the rows, and the others that are left with old ones.
LEMMA HandOnTyped ==
  ASSUME FeelTypeOK, NEW t \in Talks, NEW stage \in {"idle", "answering"}, HandOn(t, stage)
  PROVE  talk' \in [Talks -> Stage \cup Decision]
<1>1. [at |-> stage] \in Stage
  BY DEF Stage
<1>2. ASSUME NEW u \in Talks, Deciding(u) PROVE [talk[u] EXCEPT !.crossed = TRUE] \in Decision
  <2>1. talk[u] \in Decision
    BY <1>2 DEF FeelTypeOK, Deciding, Stage, Decision
  <2>2. QED
    BY <2>1 DEF Decision
<1>3. QED
  BY <1>1, <1>2 DEF HandOn, FeelTypeOK

LEMMA FeelTypeStep == FeelTypeOK /\ [FeelNext]_feelVars => FeelTypeOK'
<1> SUFFICES ASSUME FeelTypeOK, [FeelNext]_feelVars PROVE FeelTypeOK'
  OBVIOUS
<1>1. ASSUME NEW t \in Talks, NEW msg \in Messages, Decide(t, msg) PROVE FeelTypeOK'
  <2> DEFINE s == NextStreak(streak, msg, msg = {} /\ InPositiveZone(mood, bond, "overwhelmed" \in msg))
             r == ProjectTone(mood, bond, "overwhelmed" \in msg, Armed(s))
  <2>1. msg \in AllMessages
    BY MessagesAssumption
  <2>2. s \in Nat
    BY DEF FeelTypeOK, NextStreak
  <2>3. r \in Registers
    BY ToneRegister
  <2>4. talk' = [talk EXCEPT ![t] =
          [at |-> "deciding", msg |-> msg, mood |-> AfterMessage(mood, msg),
           bond |-> AfterWords(bond, msg), streak |-> s, crossed |-> FALSE, register |-> r]]
    BY <1>1 DEF Decide
  <2> HIDE DEF s, r
  <2>5. talk' \in [Talks -> Stage \cup Decision]
    BY <2>1, <2>2, <2>3, <2>4, DecisionTyped DEF FeelTypeOK
  <2>6. QED
    BY <1>1, <2>5 DEF Decide, FeelTypeOK
<1>2. ASSUME NEW t \in Talks, Settle(t) PROVE FeelTypeOK'
  <2>1. talk[t] \in Decision
    BY <1>2 DEF Settle, Deciding, FeelTypeOK, Stage, Decision
  <2>2. /\ talk[t].mood \in Mood /\ talk[t].bond \in Bond /\ talk[t].streak \in Nat
        /\ talk[t].register \in Registers /\ talk[t].msg \in AllMessages
    BY <2>1 DEF Decision
  <2>3. bond' \in Bond
    <3>1. talk[t].bond.tension \in Level /\ talk[t].bond.trust \in Level /\ bond \in Bond
      BY <2>2, BondFields DEF FeelTypeOK
    <3>2. QED
      BY <1>2, <3>1 DEF Settle, Bond
  <2>4. talk' \in [Talks -> Stage \cup Decision]
    BY <1>2, HandOnTyped DEF Settle
  <2>5. decided' = NoDecision \/ decided' \in [register : Registers, msg : AllMessages]
    BY <1>2, <2>2 DEF Settle
  <2>6. plain' \in Nat /\ crossing' \in BOOLEAN /\ writes' \in Nat
    BY <1>2 DEF Settle, FeelTypeOK
  <2>7. QED
    BY <1>2, <2>2, <2>3, <2>4, <2>5, <2>6 DEF Settle, FeelTypeOK, NoDecision
<1>3. ASSUME NEW t \in Talks, NEW a \in Appraisals, Appraise(t, a) PROVE FeelTypeOK'
  <2>1. a \in Appraisal
    BY AppraisalsAssumption
  <2>2. mood' \in Mood /\ bond' \in Bond
    BY <1>3, <2>1, AppraisedMood, AppraisedBond DEF Appraise, FeelTypeOK
  <2>3. talk' \in [Talks -> Stage \cup Decision]
    BY <1>3, HandOnTyped DEF Appraise
  <2>4. QED
    BY <1>3, <2>2, <2>3 DEF Appraise, FeelTypeOK, NoDecision
<1>4. CASE IdleTick
  <2>1. mood' \in Mood
    BY <1>4, TickMood DEF IdleTick, FeelTypeOK
  <2>2. ASSUME NEW u \in Talks, Deciding(u) PROVE [talk[u] EXCEPT !.crossed = TRUE] \in Decision
    <3>1. talk[u] \in Decision
      BY <2>2 DEF FeelTypeOK, Deciding, Stage, Decision
    <3>2. QED
      BY <3>1 DEF Decision
  <2>3. talk' \in [Talks -> Stage \cup Decision]
    BY <1>4, <2>2 DEF IdleTick, FeelTypeOK
  <2>4. QED
    BY <1>4, <2>1, <2>3 DEF IdleTick, FeelTypeOK, NoDecision
<1>5. CASE UNCHANGED feelVars
  BY <1>5 DEF feelVars, FeelTypeOK, NoDecision
<1>6. QED
  BY <1>1, <1>2, <1>3, <1>4, <1>5 DEF FeelNext

\* Type correctness: however far messages, ticks and appraisals push, every value
\* of the two rows stays in the interval its thresholds are about.
THEOREM FeelTypeCorrect == FeelSpec => []FeelTypeOK
<1>1. FeelInit => FeelTypeOK
  <2> SUFFICES ASSUME FeelInit PROVE FeelTypeOK
    OBVIOUS
  <2>1. mood \in Mood /\ bond \in Bond
    BY StartsAssumption DEF FeelInit
  <2>2. talk \in [Talks -> Stage \cup Decision]
    BY DEF FeelInit, Stage
  <2>3. QED
    BY <2>1, <2>2 DEF FeelInit, FeelTypeOK
<1>2. QED
  BY <1>1, FeelTypeStep, PTL DEF FeelSpec

-----------------------------------------------------------------------------
(* The surfaces agree *)

\* The register of a turn that has read the rows m and b with a streak of s, and
\* the streak it leaves.
StreakAfter(m, b, msg, s) ==
  NextStreak(s, msg, msg = {} /\ InPositiveZone(m, b, "overwhelmed" \in msg))
RegisterOf(m, b, msg, s) ==
  ProjectTone(m, b, "overwhelmed" \in msg, Armed(StreakAfter(m, b, msg, s)))

\* A turn nobody has crossed still holds what the rows give; the streak it will
\* write is the next one, or none, unless another turn has settled meanwhile.
HeldInv ==
  \A t \in Talks : Deciding(t) =>
     /\ ~talk[t].crossed =>
          /\ talk[t].mood = AfterMessage(mood, talk[t].msg)
          /\ talk[t].streak = StreakAfter(mood, bond, talk[t].msg, streak)
          /\ talk[t].register = RegisterOf(mood, bond, talk[t].msg, streak)
     /\ ~crossing =>
          \/ talk[t].streak = 0
          \/ talk[t].streak = streak + 1 /\ talk[t].msg = {}

\* The streak counts plain messages only.
StreakInv == ~crossing => streak <= plain

TonesInv == FeelTypeOK /\ HeldInv /\ StreakInv /\ SurfacesAgree

\* A plain message does not take a companion out of the positive zone.
LEMMA ZoneKept ==
  ASSUME NEW m \in Mood, NEW b \in Bond, InPositiveZone(m, b, FALSE)
  PROVE  InPositiveZone(AfterMessage(m, {}), b, FALSE)
<1> DEFINE n == AfterMessage(m, {})
<1>1. /\ n.label = m.label /\ n.worry = m.worry
      /\ n.annoyance = Clamp(m.annoyance - 50) /\ n.energy = Clamp(m.energy + 20)
  BY DEF AfterMessage, Mood
<1>2. Clamp(m.annoyance - 50) <= m.annoyance /\ Clamp(m.energy + 20) >= m.energy
  BY MoodFields, Eased, Raised
<1>5. Clamp(m.annoyance - 50) \in Level /\ Clamp(m.energy + 20) \in Level
  BY MoodFields, Up, Down
<1> HIDE DEF n
<1>3. /\ n.annoyance \in Int /\ n.energy \in Int /\ m.annoyance \in Int /\ m.energy \in Int
      /\ n.annoyance <= m.annoyance /\ n.energy >= m.energy
  <2>1. m.annoyance \in Level /\ m.energy \in Level
    BY MoodFields
  <2>2. m.annoyance \in Nat /\ m.energy \in Nat
    BY <2>1, Numbers
  <2>3. n.annoyance \in Level /\ n.energy \in Level
    BY <1>1, <1>5
  <2>4. n.annoyance \in Nat /\ n.energy \in Nat
    BY <2>3, Numbers
  <2>5. QED
    BY <1>1, <1>2, <2>2, <2>4
<1>4. QED
  BY <1>1, <1>3 DEF InPositiveZone, IsWorried, IsRealSharp, n

\* A companion that comforts over a message that does not annoy is worried in the
\* rows the message leaves.
LEMMA WorryKept ==
  ASSUME NEW m \in Mood, NEW msg \in AllMessages,
         "refused" \notin msg, "low" \notin msg, "rambling" \notin msg,
         IsWorried(m, "overwhelmed" \in msg)
  PROVE  IsWorried(AfterMessage(m, msg), FALSE)
<1>1. CASE "overwhelmed" \in msg
  <2>1. AfterMessage(m, msg).label = "worried"
    BY <1>1 DEF AfterMessage, Mood
  <2>2. QED
    BY <2>1 DEF IsWorried
<1>2. CASE "overwhelmed" \notin msg
  <2>1. AfterMessage(m, msg).label = m.label /\ AfterMessage(m, msg).worry = m.worry
    BY <1>2 DEF AfterMessage, Mood
  <2>2. QED
    BY <1>2, <2>1 DEF IsWorried
<1>3. QED
  BY <1>1, <1>2

\* What a turn decides and what the rows it leaves say; c is the relationship as
\* the turn leaves it, which no message without a refusal moves where the tone
\* looks.
LEMMA Agree ==
  ASSUME NEW m \in Mood, NEW b \in Bond, NEW c \in Bond, NEW msg \in AllMessages,
         NEW s \in Nat, "refused" \notin msg,
         c.tension = b.tension, c.closeness = b.closeness,
         NEW shown,
         shown = ProjectTone(AfterMessage(m, msg), c, FALSE, Armed(StreakAfter(m, b, msg, s)))
  PROVE  /\ RegisterOf(m, b, msg, s) = "playful" <=> shown = "playful"
         /\ RegisterOf(m, b, msg, s) = "comfort" /\ "low" \notin msg /\ "rambling" \notin msg
              => shown = "comfort"
<1>1. CASE msg = {} /\ InPositiveZone(m, b, FALSE)
  <2>1. InPositiveZone(AfterMessage(m, msg), b, FALSE)
    BY <1>1, ZoneKept
  <2>2. InPositiveZone(AfterMessage(m, msg), c, FALSE)
    BY <2>1 DEF InPositiveZone, IsRealSharp
  <2>3. ("overwhelmed" \in msg) = FALSE
    BY <1>1
  <2>4. shown = RegisterOf(m, b, msg, s)
    BY <1>1, <2>2, <2>3 DEF RegisterOf, ProjectTone, InPositiveZone
  <2>5. QED
    BY <2>4
<1>2. CASE ~(msg = {} /\ InPositiveZone(m, b, FALSE))
  <2>1. StreakAfter(m, b, msg, s) = 0
    <3>1. CASE msg = {}
      <4>1. ("overwhelmed" \in msg) = FALSE
        BY <3>1
      <4>2. QED
        BY <1>2, <3>1, <4>1 DEF StreakAfter, NextStreak
    <3>2. CASE msg # {}
      BY <3>2 DEF StreakAfter, NextStreak
    <3>3. QED
      BY <3>1, <3>2
  <2>2. ~Armed(StreakAfter(m, b, msg, s))
    BY <2>1 DEF Armed
  <2>3. RegisterOf(m, b, msg, s) # "playful" /\ shown # "playful"
    BY <2>2 DEF RegisterOf, ProjectTone
  <2>4. RegisterOf(m, b, msg, s) = "comfort" => IsWorried(m, "overwhelmed" \in msg)
    BY DEF RegisterOf, ProjectTone
  <2>5. IsWorried(AfterMessage(m, msg), FALSE) => shown = "comfort"
    BY DEF ProjectTone
  <2>6. QED
    BY <2>3, <2>4, <2>5, WorryKept
<1>3. QED
  BY <1>1, <1>2

\* Whoever comforts speaks more slowly.
LEMMA ComfortSlows == FeelTypeOK => SpeechRate("comfort") < 0
<1> SUFFICES ASSUME FeelTypeOK PROVE SpeechRate("comfort") < 0
  OBVIOUS
<1> DEFINE i == Intensity("comfort")
<1>1. i \in Nat
  <2>1. mood.worry \in Nat
    BY MoodFields, Numbers DEF FeelTypeOK
  <2>2. i = IF mood.label \in {"sad", "worried"} /\ mood.worry < 800 THEN 800 ELSE mood.worry
    BY DEF Intensity
  <2>3. QED
    BY <2>1, <2>2
<1>2. SpeechRate("comfort") = -(6 + Rounded(14 * i, 1000))
  BY DEF SpeechRate
<1> HIDE DEF i
<1>3. Rounded(14 * i, 1000) \in Nat
  BY <1>1 DEF Rounded
<1>4. QED
  BY <1>2, <1>3

\* A call that is told nothing hides no tone.
LEMMA SilenceHolds == FeelTypeOK => SilenceIsNeutral
<1> SUFFICES ASSUME FeelTypeOK, FullyNeutral PROVE Shown \in {"neutral", "comfort"}
  BY DEF SilenceIsNeutral
<1>1. /\ mood.annoyance \in Nat /\ mood.loneliness \in Nat
      /\ bond.tension \in Nat /\ bond.closeness \in Nat
  BY MoodFields, BondFields, Numbers DEF FeelTypeOK
<1>2. /\ mood.annoyance < 500 /\ mood.loneliness < 500
      /\ bond.closeness < 670 /\ bond.tension < 400
  BY <1>1 DEF FullyNeutral, Troubled
<1>3. ~IsRealSharp(mood, bond)
  BY <1>1, <1>2 DEF IsRealSharp
<1>4. ~InPositiveZone(mood, bond, FALSE)
  <2>1. ~(bond.closeness >= 670)
    BY <1>1, <1>2
  <2>2. QED
    BY <2>1 DEF InPositiveZone
<1>5. ~(mood.loneliness >= 500)
  BY <1>1, <1>2
<1>6. QED
  BY <1>3, <1>4, <1>5 DEF Shown, ProjectTone

\* The turns that are left with rows another write has replaced: crossed, and as
\* they were otherwise.
LEMMA LeftBehind ==
  ASSUME FeelTypeOK, NEW u \in Talks, Deciding(u),
         talk'[u] = [talk[u] EXCEPT !.crossed = TRUE]
  PROVE  talk'[u].crossed /\ talk'[u].streak = talk[u].streak /\ talk'[u].msg = talk[u].msg
<1>1. talk[u] \in Decision
  BY DEF FeelTypeOK, Deciding, Stage, Decision
<1>2. QED
  BY <1>1 DEF Decision

\* A streak counts this message or starts again.
LEMMA StreakCounts ==
  ASSUME NEW m, NEW b, NEW msg, NEW s
  PROVE  \/ StreakAfter(m, b, msg, s) = 0
         \/ StreakAfter(m, b, msg, s) = s + 1 /\ msg = {}
<1> DEFINE zone == InPositiveZone(m, b, "overwhelmed" \in msg)
<1>1. StreakAfter(m, b, msg, s) = IF msg = {} /\ zone THEN s + 1 ELSE 0
  BY DEF StreakAfter, NextStreak
<1> HIDE DEF zone
<1>2. QED
  BY <1>1

\* As long as the rows stay, so does what every surface shows.
LEMMA Steady ==
  ASSUME UNCHANGED <<mood, bond, streak>>
  PROVE  Shown' = Shown /\ SpeechRate(Shown)' = SpeechRate(Shown)
<1>1. Shown' = Shown
  BY DEF Shown
<1>2. SpeechRate(Shown)' = SpeechRate(Shown)
  BY <1>1 DEF SpeechRate, Intensity
<1>3. QED
  BY <1>1, <1>2

\* A turn that decides.
LEMMA DecideKeeps ==
  ASSUME TonesInv, NEW t \in Talks, NEW msg \in Messages, Decide(t, msg)
  PROVE  HeldInv' /\ StreakInv' /\ SurfacesAgree'
<1>1. UNCHANGED <<mood, bond, streak, decided, plain, crossing>>
  BY DEF Decide
<1>2. StreakInv' /\ SurfacesAgree'
  BY <1>1, Steady DEF TonesInv, StreakInv, SurfacesAgree, NoDecision
<1>3. ASSUME NEW u \in Talks, Deciding(u)'
      PROVE  /\ ~talk'[u].crossed =>
                  /\ talk'[u].mood = AfterMessage(mood, talk'[u].msg)
                  /\ talk'[u].streak = StreakAfter(mood, bond, talk'[u].msg, streak)
                  /\ talk'[u].register = RegisterOf(mood, bond, talk'[u].msg, streak)
             /\ ~crossing =>
                  \/ talk'[u].streak = 0
                  \/ talk'[u].streak = streak + 1 /\ talk'[u].msg = {}
  <2>1. CASE u = t
    <3>1. /\ talk'[u].msg = msg /\ talk'[u].mood = AfterMessage(mood, msg)
          /\ talk'[u].streak = StreakAfter(mood, bond, msg, streak)
          /\ talk'[u].register = RegisterOf(mood, bond, msg, streak)
      BY <2>1 DEF Decide, TonesInv, FeelTypeOK, StreakAfter, RegisterOf
    <3>2. QED
      BY <3>1, StreakCounts
  <2>2. CASE u # t
    <3>1. talk'[u] = talk[u]
      BY <2>2 DEF Decide, TonesInv, FeelTypeOK
    <3>2. Deciding(u)
      BY <1>3, <3>1 DEF Deciding
    <3>3. QED
      BY <3>1, <3>2 DEF TonesInv, HeldInv
  <2>3. QED
    BY <2>1, <2>2
<1>4. HeldInv'
  BY <1>1, <1>3 DEF HeldInv
<1>5. QED
  BY <1>2, <1>4

\* A turn that writes what it has decided.
LEMMA SettleKeeps ==
  ASSUME TonesInv, FeelTypeOK', NEW t \in Talks, Settle(t)
  PROVE  HeldInv' /\ StreakInv' /\ SurfacesAgree'
<1> DEFINE d == talk[t]
<1>1. d \in Decision /\ Deciding(t) /\ FeelTypeOK
  BY DEF Settle, Deciding, TonesInv, FeelTypeOK, Stage, Decision
<1>2. /\ d.msg \in AllMessages /\ d.streak \in Nat /\ d.register \in Registers
      /\ d.mood \in Mood /\ d.bond \in Bond /\ d.crossed \in BOOLEAN
  BY <1>1 DEF Decision
<1>3. HeldInv'
  <2>1. ASSUME NEW u \in Talks, Deciding(u)' PROVE talk'[u].crossed /\ crossing'
    <3>1. u # t
      BY <2>1 DEF Deciding, Settle, HandOn
    <3>2. Deciding(u)
      BY <2>1, <3>1 DEF Deciding, Settle, HandOn
    <3>3. talk'[u] = [talk[u] EXCEPT !.crossed = TRUE]
      BY <3>1, <3>2 DEF Settle, HandOn
    <3>4. crossing'
      BY <3>1, <3>2 DEF Settle
    <3>5. QED
      BY <1>1, <3>2, <3>3, <3>4, LeftBehind
  <2>2. QED
    BY <2>1 DEF HeldInv
<1>4. StreakInv'
  <2> SUFFICES ASSUME ~crossing' PROVE streak' <= plain'
    BY DEF StreakInv
  <2>1. ~crossing
    BY DEF Settle
  <2>2. streak <= plain /\ streak \in Nat /\ plain \in Nat
    BY <1>1, <2>1 DEF TonesInv, StreakInv, FeelTypeOK
  <2>3. d.streak = 0 \/ (d.streak = streak + 1 /\ d.msg = {})
    BY <1>1, <2>1 DEF TonesInv, HeldInv
  <2>4. streak' = d.streak /\ plain' = IF d.msg = {} THEN plain + 1 ELSE 0
    BY DEF Settle
  <2> HIDE DEF d
  <2>5. QED
    BY <2>2, <2>3, <2>4
<1>5. SurfacesAgree'
  <2>1. CASE d.crossed \/ "refused" \in d.msg
    <3>1. decided' = NoDecision
      BY <2>1 DEF Settle
    <3>2. QED
      BY <3>1 DEF SurfacesAgree, NoDecision
  <2>2. CASE ~d.crossed /\ "refused" \notin d.msg
    <3>1. decided' = [register |-> d.register, msg |-> d.msg]
      BY <2>2 DEF Settle
    <3>2. /\ d.mood = AfterMessage(mood, d.msg)
          /\ d.streak = StreakAfter(mood, bond, d.msg, streak)
          /\ d.register = RegisterOf(mood, bond, d.msg, streak)
      BY <1>1, <2>2 DEF TonesInv, HeldInv
    <3>3. bond'.tension = bond.tension /\ bond'.closeness = bond.closeness
      <4>1. bond' = bond \/ bond' = [bond EXCEPT !.trust = d.bond.trust]
        BY <2>2 DEF Settle
      <4>2. QED
        BY <1>1, <4>1 DEF FeelTypeOK, Bond
    <3>4. Shown' = ProjectTone(AfterMessage(mood, d.msg), bond', FALSE,
                               Armed(StreakAfter(mood, bond, d.msg, streak)))
      BY <3>2 DEF Shown, Settle
    <3>5. mood \in Mood /\ bond \in Bond /\ bond' \in Bond /\ streak \in Nat
      BY <1>1 DEF FeelTypeOK
    <3>6. /\ d.register = "playful" <=> Shown' = "playful"
          /\ d.register = "comfort" /\ "low" \notin d.msg /\ "rambling" \notin d.msg
               => Shown' = "comfort"
      <4> DEFINE msg == d.msg
                 shown == Shown'
                 c == bond'
      <4>1. /\ msg \in AllMessages /\ "refused" \notin msg /\ c \in Bond
            /\ c.tension = bond.tension /\ c.closeness = bond.closeness
            /\ shown = ProjectTone(AfterMessage(mood, msg), c, FALSE,
                                   Armed(StreakAfter(mood, bond, msg, streak)))
            /\ d.register = RegisterOf(mood, bond, msg, streak)
        BY <1>2, <2>2, <3>2, <3>3, <3>4, <3>5
      <4> HIDE DEF msg, shown, c
      <4>2. /\ RegisterOf(mood, bond, msg, streak) = "playful" <=> shown = "playful"
            /\ RegisterOf(mood, bond, msg, streak) = "comfort" /\ "low" \notin msg
                 /\ "rambling" \notin msg => shown = "comfort"
        BY <4>1, <3>5, Agree, ZenonT(40)
      <4>3. QED
        BY <4>1, <4>2 DEF msg, shown
    <3>7. Shown' = "comfort" => SpeechRate(Shown)' < 0
      <4>1. (FeelTypeOK => SpeechRate("comfort") < 0)'
        BY ComfortSlows, PTL
      <4>2. QED
        BY <4>1 DEF SpeechRate, Intensity
    <3>8. decided' # NoDecision /\ decided'.register = d.register /\ decided'.msg = d.msg
      BY <1>2, <3>1 DEF NoDecision, Registers
    <3>9. NoDecision' = NoDecision
      BY DEF NoDecision
    <3> HIDE DEF d
    <3>10. QED
      BY <3>6, <3>7, <3>8, <3>9 DEF SurfacesAgree
  <2>3. QED
    BY <1>2, <2>1, <2>2
<1>6. QED
  BY <1>3, <1>4, <1>5

\* A write that is not a decision's: an appraisal, or a tick.
LEMMA OtherWriteKeeps ==
  ASSUME TonesInv, decided' = NoDecision, UNCHANGED <<streak, plain, crossing>>,
         \A u \in Talks : Deciding(u)' =>
           Deciding(u) /\ talk'[u] = [talk[u] EXCEPT !.crossed = TRUE]
  PROVE  HeldInv' /\ StreakInv' /\ SurfacesAgree'
<1>1. StreakInv' /\ SurfacesAgree'
  BY DEF TonesInv, StreakInv, SurfacesAgree, NoDecision
<1>2. ASSUME NEW u \in Talks, Deciding(u)'
      PROVE  /\ talk'[u].crossed
             /\ ~crossing' => \/ talk'[u].streak = 0
                              \/ talk'[u].streak = streak' + 1 /\ talk'[u].msg = {}
  <2>1. talk'[u].crossed /\ talk'[u].streak = talk[u].streak /\ talk'[u].msg = talk[u].msg
    BY <1>2, LeftBehind DEF TonesInv
  <2>2. ~crossing => talk[u].streak = 0 \/ (talk[u].streak = streak + 1 /\ talk[u].msg = {})
    BY <1>2 DEF TonesInv, HeldInv
  <2>3. QED
    BY <2>1, <2>2
<1>3. HeldInv'
  BY <1>2 DEF HeldInv
<1>4. QED
  BY <1>1, <1>3

LEMMA TonesStep == TonesInv /\ [FeelNext]_feelVars => TonesInv'
<1> SUFFICES ASSUME TonesInv, [FeelNext]_feelVars PROVE TonesInv'
  OBVIOUS
<1>1. FeelTypeOK'
  BY FeelTypeStep DEF TonesInv
<1> SUFFICES HeldInv' /\ StreakInv' /\ SurfacesAgree'
  BY <1>1 DEF TonesInv
<1>2. ASSUME NEW t \in Talks, NEW msg \in Messages, Decide(t, msg)
      PROVE  HeldInv' /\ StreakInv' /\ SurfacesAgree'
  BY <1>2, DecideKeeps
<1>3. ASSUME NEW t \in Talks, Settle(t)
      PROVE  HeldInv' /\ StreakInv' /\ SurfacesAgree'
  BY <1>1, <1>3, SettleKeeps
<1>4. ASSUME NEW t \in Talks, NEW a \in Appraisals, Appraise(t, a)
      PROVE  HeldInv' /\ StreakInv' /\ SurfacesAgree'
  <2>1. \A u \in Talks : Deciding(u)' =>
          Deciding(u) /\ talk'[u] = [talk[u] EXCEPT !.crossed = TRUE]
    BY <1>4 DEF Appraise, HandOn, Deciding
  <2>2. QED
    BY <1>4, <2>1, OtherWriteKeeps DEF Appraise
<1>5. CASE IdleTick
  <2>1. \A u \in Talks : Deciding(u)' =>
          Deciding(u) /\ talk'[u] = [talk[u] EXCEPT !.crossed = TRUE]
    BY <1>5 DEF IdleTick, Deciding
  <2>2. QED
    BY <1>5, <2>1, OtherWriteKeeps DEF IdleTick
<1>6. CASE UNCHANGED feelVars
  <2>1. UNCHANGED <<mood, bond, streak, talk, decided, plain, crossing>>
    BY <1>6 DEF feelVars
  <2>2. StreakInv' /\ SurfacesAgree'
    BY <2>1, Steady DEF TonesInv, StreakInv, SurfacesAgree, NoDecision
  <2>3. HeldInv'
    BY <2>1 DEF TonesInv, HeldInv, Deciding
  <2>4. QED
    BY <2>2, <2>3
<1>7. QED
  BY <1>2, <1>3, <1>4, <1>5, <1>6 DEF FeelNext

\* The companion teases only after two plain messages in a row, surfaces and
\* decision tease and comfort together, and silence hides no tone.
THEOREM TonesTrue == FeelSpec => []TonesHonest
<1>1. FeelInit => TonesInv
  <2> SUFFICES ASSUME FeelInit PROVE TonesInv
    OBVIOUS
  <2>1. FeelTypeOK
    BY StartsAssumption DEF FeelInit, FeelTypeOK, Stage
  <2>2. HeldInv
    BY DEF FeelInit, HeldInv, Deciding
  <2>3. StreakInv
    BY DEF FeelInit, StreakInv
  <2>4. SurfacesAgree
    BY DEF FeelInit, SurfacesAgree, NoDecision
  <2>5. QED
    BY <2>1, <2>2, <2>3, <2>4 DEF TonesInv
<1>2. TonesInv => TonesHonest
  <2> SUFFICES ASSUME TonesInv PROVE TonesHonest
    OBVIOUS
  <2>1. FeelTypeOK
    BY DEF TonesInv
  <2>2. SilenceIsNeutral
    BY <2>1, SilenceHolds
  <2>3. Shown = "playful" => streak >= 2
    BY DEF Shown, ProjectTone, Armed
  <2>4. streak \in Nat /\ plain \in Nat
    BY <2>1 DEF FeelTypeOK
  <2>5. TeasingIsEarnedUnlessRaced
    BY <2>3, <2>4 DEF TonesInv, StreakInv, TeasingIsEarnedUnlessRaced
  <2>6. QED
    BY <2>2, <2>5 DEF TonesInv, TonesHonest
<1>3. QED
  BY <1>1, <1>2, TonesStep, PTL DEF FeelSpec

-----------------------------------------------------------------------------
(* The requests to the services: where they are, and what they have by then *)

Places == {"unasked", "route", "prepare", "done"} \cup Finding \cup Using \cup Ended

RequestType ==
  [pc : Places, of : Adapters, whole : BOOLEAN, client : Nat,
   sent : 0 .. MaxPieces + 1, got : 0 .. MaxPieces + 1, odd : BOOLEAN]

\* What came is what was sent but for the piece the event loop has yet to carry;
\* nothing comes before the request is sent; and only a streamed reply goes on
\* after an error of the service.
RequestShape(k) ==
  /\ k.pc \in {"unasked", "route", "prepare", "send"} \cup Finding =>
       k.sent = 0 /\ k.got = 0 /\ ~k.odd
  /\ k.pc \in {"read", "done", "answered"} => k.got = k.sent
  /\ k.pc = "pass" => k.sent = k.got + 1 /\ ~k.whole
  /\ k.odd /\ k.pc \notin {"failed", "broken"} => k.of = "reply" /\ ~k.whole
  /\ k.pc = "answered" /\ k.whole => k.got > 0
  /\ k.of = "transcript" => k.whole
  /\ k.pc = "done" => k.of = "speech"

RequestsInv ==
  /\ asked \in [Requests -> RequestType]
  /\ \A r \in Requests : RequestShape(asked[r])

PoolInv ==
  /\ shared \in [Adapters -> [client : Nat, timed : BOOLEAN]]
  /\ made \in [Adapters -> Nat]
  /\ open \in [Adapters -> SUBSET Nat]
  /\ \A a \in Adapters : open[a] \subseteq 1 .. made[a] /\ shared[a].client \in 0 .. made[a]
  /\ crossed \subseteq Adapters

\* A step of a request that leaves the clients alone, and does not look for one.
Plain(r) ==
  \/ AskReply(r) \/ AskSpeech(r) \/ AskTranscript(r)
  \/ RouteSpeech(r) \/ RouteTranscript(r) \/ PrepareAudio(r)
  \/ Send(r) \/ Cut(r) \/ Pass(r) \/ ReplyLine(r) \/ SpeechLine(r)
  \/ FinishSpeech(r) \/ WholeReply(r) \/ Transcript(r)

\* A request goes on as k; the others stay where they are.
GoesOnAs(r, k) ==
  /\ k \in RequestType /\ RequestShape(k)
  /\ asked' = [asked EXCEPT ![r] = k]

LEMMA WentOn ==
  ASSUME RequestsInv, NEW r \in Requests, NEW k, GoesOnAs(r, k)
  PROVE  RequestsInv' /\ \A s \in Requests : asked'[s] = IF s = r THEN k ELSE asked[s]
BY DEF GoesOnAs, RequestsInv, RequestShape

\* The place to which Goes takes a request suits it.
LEMMA GoesSuits ==
  ASSUME RequestsInv, NEW r \in Requests, NEW pc \in Places, Goes(r, pc),
         RequestShape([asked[r] EXCEPT !.pc = pc])
  PROVE  GoesOnAs(r, [asked[r] EXCEPT !.pc = pc])
<1>1. asked[r] \in RequestType
  BY DEF RequestsInv
<1>2. [asked[r] EXCEPT !.pc = pc] \in RequestType
  BY <1>1 DEF RequestType
<1>3. asked' = [asked EXCEPT ![r] = [asked[r] EXCEPT !.pc = pc]]
  BY DEF Goes
<1> QED
  BY <1>2, <1>3 DEF GoesOnAs

\* What a plain step does to its request: k is how it goes on.
PlainMove(r, k) ==
  /\ GoesOnAs(r, k)
  /\ asked[r].pc \notin Finding /\ k.pc \notin Finding \ {"find"}
  /\ k.pc \in Using => asked[r].pc \in Using /\ k.client = asked[r].client
  /\ k.of = asked[r].of \/ asked[r].pc = "unasked"
  /\ k.pc \notin Ended /\ k.of = "transcript" =>
       (asked[r].of = "transcript" /\ Under(r)) \/ LoopFree
  /\ k.pc = "broken" => asked[r].pc \in Using /\ (k.odd \/ ~Usable(r))

LEMMA PlainMoves ==
  ASSUME ServicesAssumption, RequestsInv, NEW r \in Requests, Plain(r)
  PROVE  /\ UNCHANGED <<pool, crossed>>
         /\ \E k : PlainMove(r, k)
<1> USE DEF PlainMove, GoesOnAs
<1>0. asked[r] \in RequestType /\ RequestShape(asked[r])
  BY DEF RequestsInv
<1>a. ASSUME NEW a \in Adapters, NEW whole \in BOOLEAN, NEW pc \in {"failed", "find", "route"},
             Asks(r, a, whole, pc), a = "transcript" => whole /\ LoopFree
      PROVE  \E k : PlainMove(r, k)
  <2> DEFINE k == [asked[r] EXCEPT !.of = a, !.whole = whole, !.pc = pc]
  <2>1. asked[r] = Unasked /\ asked' = [asked EXCEPT ![r] = k]
    BY <1>a DEF Asks
  <2>0. /\ k.pc = pc /\ k.of = a /\ k.whole = whole /\ asked[r].pc = "unasked"
        /\ k.sent = 0 /\ k.got = 0 /\ k.odd = FALSE
    BY <1>0, <2>1 DEF Unasked, RequestType
  <2>b. 0 \in 0 .. MaxPieces + 1 /\ pc \in Places
    BY ServicesAssumption DEF Places, Finding, Ended
  <2>c. k \in RequestType
    BY <1>0, <2>b DEF RequestType
  <2>2. k \in RequestType /\ RequestShape(k)
    BY <1>a, <2>0, <2>c DEF RequestShape, Finding, Replacing
  <2>3. PlainMove(r, k)
    BY <1>a, <2>0, <2>1, <2>2 DEF Finding, Replacing, Using, Ended
  <2> QED
    BY <2>3
<1>b. ASSUME NEW pc \in Places, Goes(r, pc), asked[r].pc \notin Finding \cup {"unasked"},
             asked[r].pc \notin Ended, pc \notin Finding \ {"find"},
             RequestShape([asked[r] EXCEPT !.pc = pc]),
             pc \in Using => asked[r].pc \in Using,
             pc = "broken" => asked[r].pc \in Using /\ ~Usable(r)
      PROVE  \E k : PlainMove(r, k)
  <2> DEFINE k == [asked[r] EXCEPT !.pc = pc]
  <2>1. GoesOnAs(r, k)
    BY <1>b, GoesSuits
  <2>2. k.pc = pc /\ k.of = asked[r].of /\ k.client = asked[r].client
    BY <1>0 DEF RequestType
  <2>3. PlainMove(r, k)
    BY <1>b, <2>1, <2>2 DEF Under
  <2> QED
    BY <2>3
<1>1. CASE AskReply(r)
  BY <1>1, <1>a DEF AskReply, Asks, Adapters
<1>2. CASE AskSpeech(r)
  BY <1>2, <1>a DEF AskSpeech, Asks, Adapters
<1>3. CASE AskTranscript(r)
  BY <1>3, <1>a DEF AskTranscript, Asks, Adapters
<1>4. CASE RouteSpeech(r) \/ RouteTranscript(r) \/ PrepareAudio(r)
  <2>1. PICK pc \in {"silent", "failed", "find", "prepare"} :
          Goes(r, pc) /\ asked[r].pc \in {"route", "prepare"}
    BY <1>4 DEF RouteSpeech, RouteTranscript, PrepareAudio
  <2>2. RequestShape([asked[r] EXCEPT !.pc = pc]) /\ pc \in Places
    BY <1>0, <2>1 DEF RequestType, RequestShape, Places, Finding, Replacing, Using, Ended
  <2>3. \E k : PlainMove(r, k)
    BY <1>b, <2>1, <2>2 DEF Finding, Replacing, Using, Ended
  <2> QED
    BY <1>4, <2>3 DEF RouteSpeech, RouteTranscript, PrepareAudio
<1>5. CASE Send(r)
  <2>1. PICK pc \in {"failed", "read", "broken"} :
          Goes(r, pc) /\ asked[r].pc = "send" /\ (pc = "broken" => ~Usable(r))
    BY <1>5 DEF Send
  <2>2. RequestShape([asked[r] EXCEPT !.pc = pc]) /\ pc \in Places
    BY <1>0, <2>1 DEF RequestType, RequestShape, Places, Finding, Replacing, Using, Ended
  <2>3. \E k : PlainMove(r, k)
    BY <1>b, <2>1, <2>2 DEF Finding, Replacing, Using, Ended
  <2> QED
    BY <1>5, <2>3 DEF Send
<1>6. CASE Cut(r)
  <2>1. PICK pc \in {"failed", "broken"} :
          Goes(r, pc) /\ asked[r].pc = "read" /\ (pc = "broken" => ~Usable(r))
    BY <1>6 DEF Cut
  <2>2. RequestShape([asked[r] EXCEPT !.pc = pc]) /\ pc \in Places
    BY <1>0, <2>1 DEF RequestType, RequestShape, Places, Finding, Replacing, Using, Ended
  <2>3. \E k : PlainMove(r, k)
    BY <1>b, <2>1, <2>2 DEF Finding, Replacing, Using, Ended
  <2> QED
    BY <1>6, <2>3 DEF Cut
<1>c. ASSUME NEW k \in RequestType, RequestShape(k), asked' = [asked EXCEPT ![r] = k],
             asked[r].pc \in Using \cup {"done"}, k.pc \notin Finding,
             k.pc \in Using => asked[r].pc \in Using,
             k.client = asked[r].client, k.of = asked[r].of, k.pc = "broken" => k.odd,
             k.pc = "broken" => asked[r].pc \in Using
      PROVE  PlainMove(r, k)
  BY <1>c DEF Under, Finding, Replacing, Using, Ended
<1>d. ASSUME Piece(r), asked[r].pc = "read", asked[r].of # "transcript"
      PROVE  \E k : PlainMove(r, k)
  <2> DEFINE k == [asked[r] EXCEPT !.sent = @ + 1,
                                   !.got = IF asked[r].whole THEN @ + 1 ELSE @,
                                   !.pc = IF asked[r].whole THEN "read" ELSE "pass"]
  <2>1. asked' = [asked EXCEPT ![r] = k] /\ asked[r].sent < MaxPieces
    BY <1>d DEF Piece
  <2>a. asked[r].got = asked[r].sent /\ asked[r].sent \in Nat
    BY <1>0, <1>d DEF RequestType, RequestShape
  <2>b. asked[r].sent + 1 \in 0 .. MaxPieces + 1 /\ asked[r].got + 1 \in 0 .. MaxPieces + 1
    BY <2>1, <2>a, ServicesAssumption
  <2>c. {"read", "pass"} \subseteq Places
    BY DEF Places, Using
  <2>2. k \in RequestType
    BY <1>0, <2>b, <2>c DEF RequestType
  <2>3. RequestShape(k)
    BY <1>0, <1>d, <2>1, ServicesAssumption DEF RequestType, RequestShape, Places, Finding, Replacing, Using, Ended
  <2>4. k.client = asked[r].client /\ k.of = asked[r].of /\ k.pc \in {"read", "pass"}
    BY <1>0 DEF RequestType
  <2>5. PlainMove(r, k)
    BY <1>c, <1>d, <2>1, <2>2, <2>3, <2>4 DEF Finding, Replacing, Using, Ended
  <2> HIDE DEF k
  <2> QED
    BY <2>5
<1>7. CASE Pass(r)
  <2>1. CASE Goes(r, "left")
    <3>1. RequestShape([asked[r] EXCEPT !.pc = "left"]) /\ "left" \in Places
      BY <1>0, <1>7 DEF Pass, RequestType, RequestShape, Places, Finding, Replacing, Using, Ended
    <3> QED
      BY <1>b, <1>7, <2>1, <3>1 DEF Pass, Finding, Replacing, Using, Ended
  <2>2. CASE asked' = [asked EXCEPT ![r].got = @ + 1, ![r].pc = "read"]
    <3> DEFINE k == [asked[r] EXCEPT !.got = @ + 1, !.pc = "read"]
    <3>1. k \in RequestType
      BY <1>0, <1>7, ServicesAssumption DEF Pass, RequestType, RequestShape, Places, Using
    <3>2. RequestShape(k)
      BY <1>0, <1>7, ServicesAssumption DEF Pass, RequestType, RequestShape, Finding, Replacing
    <3>3. k.client = asked[r].client /\ k.of = asked[r].of /\ k.pc = "read"
      BY <1>0 DEF RequestType
    <3>4. PlainMove(r, k)
      BY <1>c, <1>7, <2>2, <3>1, <3>2, <3>3 DEF Pass, Finding, Replacing, Using
    <3> QED
      BY <3>4, <1>7 DEF Pass
  <2> QED
    BY <1>7, <2>1, <2>2 DEF Pass
<1>8. CASE ReplyLine(r)
  <2>1. ASSUME NEW pc \in {"read", "broken"},
               asked' = [asked EXCEPT ![r].odd = TRUE, ![r].pc = pc]
        PROVE  \E k : PlainMove(r, k)
    <3> DEFINE k == [asked[r] EXCEPT !.odd = TRUE, !.pc = pc]
    <3>1. k \in RequestType /\ RequestShape(k)
      BY <1>0, <1>8 DEF ReplyLine, RequestType, RequestShape, Places, Finding, Replacing, Using, Ended
    <3>2. k.client = asked[r].client /\ k.of = asked[r].of /\ k.pc = pc /\ k.odd
      BY <1>0 DEF RequestType
    <3>3. PlainMove(r, k)
      BY <1>c, <1>8, <2>1, <3>1, <3>2 DEF ReplyLine, Finding, Replacing, Using
    <3> HIDE DEF k
    <3> QED
      BY <3>3
  <2>2. ASSUME NEW pc \in {"failed", "answered"}, Goes(r, pc)
        PROVE  \E k : PlainMove(r, k)
    <3>1. RequestShape([asked[r] EXCEPT !.pc = pc]) /\ pc \in Places
      BY <1>0, <1>8, <2>2 DEF ReplyLine, RequestType, RequestShape, Places, Finding, Replacing, Using, Ended
    <3> QED
      BY <1>b, <1>8, <2>2, <3>1 DEF ReplyLine, Finding, Replacing, Using, Ended
  <2> QED
    BY <1>8, <2>1, <2>2, <1>d DEF ReplyLine
<1>9. CASE SpeechLine(r)
  <2>1. ASSUME NEW odd \in BOOLEAN, asked' = [asked EXCEPT ![r].odd = odd, ![r].pc = "failed"]
        PROVE  \E k : PlainMove(r, k)
    <3> DEFINE k == [asked[r] EXCEPT !.odd = odd, !.pc = "failed"]
    <3>1. k \in RequestType /\ RequestShape(k)
      BY <1>0, <1>9 DEF SpeechLine, RequestType, RequestShape, Places, Finding, Replacing, Ended
    <3>2. k.client = asked[r].client /\ k.of = asked[r].of /\ k.pc = "failed"
      BY <1>0 DEF RequestType
    <3>3. PlainMove(r, k)
      BY <1>c, <1>9, <2>1, <3>1, <3>2 DEF SpeechLine, Finding, Replacing, Using
    <3> QED
      BY <3>3
  <2>2. CASE Goes(r, "done")
    <3>1. RequestShape([asked[r] EXCEPT !.pc = "done"]) /\ "done" \in Places
      BY <1>0, <1>9 DEF SpeechLine, RequestType, RequestShape, Places, Finding, Replacing
    <3> QED
      BY <1>b, <1>9, <2>2, <3>1 DEF SpeechLine, Finding, Replacing, Using, Ended
  <2> QED
    BY <1>9, <2>1, <2>2, <1>d DEF SpeechLine
<1>10. CASE FinishSpeech(r)
  <2> DEFINE pc == IF asked[r].whole /\ asked[r].got = 0 THEN "failed" ELSE "answered"
  <2>1. RequestShape([asked[r] EXCEPT !.pc = pc]) /\ pc \in Places
    BY <1>0, <1>10 DEF FinishSpeech, RequestType, RequestShape, Places, Finding, Replacing, Ended
  <2>2. \E k : PlainMove(r, k)
    BY <1>b, <1>10, <2>1 DEF FinishSpeech, Finding, Replacing, Using, Ended
  <2> QED
    BY <2>2, <1>10 DEF FinishSpeech
<1>e. ASSUME asked' = [asked EXCEPT ![r].sent = 1, ![r].got = 1, ![r].pc = "answered"],
             asked[r].pc = "read", asked[r].whole, asked[r].of # "speech"
      PROVE  \E k : PlainMove(r, k)
  <2> DEFINE k == [asked[r] EXCEPT !.sent = 1, !.got = 1, !.pc = "answered"]
  <2>a. 1 \in 0 .. MaxPieces + 1 /\ "answered" \in Places
    BY ServicesAssumption DEF Places, Ended
  <2>b. k \in RequestType
    BY <1>0, <2>a DEF RequestType
  <2>1. k \in RequestType /\ RequestShape(k)
    BY <1>0, <1>e, <2>b DEF RequestType, RequestShape, Finding, Replacing
  <2>2. k.client = asked[r].client /\ k.of = asked[r].of /\ k.pc = "answered"
    BY <1>0 DEF RequestType
  <2>3. PlainMove(r, k)
    BY <1>c, <1>e, <2>1, <2>2 DEF Finding, Replacing, Using
  <2> QED
    BY <2>3
<1>f. ASSUME Goes(r, "failed"), asked[r].pc = "read"
      PROVE  \E k : PlainMove(r, k)
  <2>1. RequestShape([asked[r] EXCEPT !.pc = "failed"]) /\ "failed" \in Places
    BY <1>0, <1>f DEF RequestType, RequestShape, Places, Finding, Replacing, Ended
  <2> QED
    BY <1>b, <1>f, <2>1 DEF Finding, Replacing, Using, Ended
<1>11. CASE WholeReply(r)
  <2>1. ASSUME asked' = [asked EXCEPT ![r].odd = TRUE, ![r].pc = "broken"]
        PROVE  \E k : PlainMove(r, k)
    <3> DEFINE k == [asked[r] EXCEPT !.odd = TRUE, !.pc = "broken"]
    <3>1. k \in RequestType /\ RequestShape(k)
      BY <1>0, <1>11 DEF WholeReply, RequestType, RequestShape, Places, Finding, Replacing, Ended
    <3>2. k.client = asked[r].client /\ k.of = asked[r].of /\ k.pc = "broken" /\ k.odd
      BY <1>0 DEF RequestType
    <3>3. PlainMove(r, k)
      BY <1>c, <1>11, <2>1, <3>1, <3>2 DEF WholeReply, Finding, Replacing, Using
    <3> HIDE DEF k
    <3> QED
      BY <3>3
  <2>2. \E k : PlainMove(r, k)
    BY <1>11, <2>1, <1>e, <1>f DEF WholeReply
  <2> QED
    BY <1>11, <2>2 DEF WholeReply
<1>12. CASE Transcript(r)
  <2>1. asked[r].whole
    BY <1>0, <1>12 DEF Transcript, RequestShape
  <2> QED
    BY <1>12, <2>1, <1>e, <1>f DEF Transcript
<1> QED
  BY <1>1, <1>2, <1>3, <1>4, <1>5, <1>6, <1>7, <1>8, <1>9, <1>10, <1>11, <1>12
  DEF Plain

-----------------------------------------------------------------------------
(* The steps of get_shared_http_client *)

\* A step of a request that looks for its client or replaces it.
Seeks(r) ==
  \/ FindClient(r) \/ CompareTimeout(r) \/ TestClient(r) \/ CloseClient(r)
  \/ ForgetClient(r) \/ ForgetTimeout(r) \/ CreateClient(r) \/ SetTimeout(r)
  \/ TakeClient(r)

LEMMA SeeksMoves ==
  ASSUME RequestsInv, PoolInv, NEW r \in Requests, Seeks(r)
  PROVE  /\ \E k : GoesOnAs(r, k) /\ k.of = asked[r].of /\ asked[r].pc # "unasked"
         /\ asked[r].pc \in Finding /\ asked'[r].pc \notin {"read", "pass"}
         /\ PoolInv'
<1>0. asked[r] \in RequestType /\ RequestShape(asked[r]) /\ asked[r].of \in Adapters
  BY DEF RequestsInv, RequestType
<1>1. asked[r].pc \in Finding
  BY DEF Seeks, FindClient, CompareTimeout, TestClient, CloseClient, ForgetClient,
         ForgetTimeout, CreateClient, SetTimeout, TakeClient, Finding, Replacing
<1>2. CASE TakeClient(r)
  <2> DEFINE found == shared[asked[r].of].client
             k == [asked[r] EXCEPT !.client = found,
                                   !.pc = IF found = 0 THEN "broken" ELSE "send"]
  <2>1. asked' = [asked EXCEPT ![r] = k]
    BY <1>2 DEF TakeClient
  <2>2. found \in Nat
    BY <1>0 DEF PoolInv
  <2>3. k \in RequestType /\ RequestShape(k) /\ k.of = asked[r].of
    BY <1>0, <1>1, <2>2 DEF RequestType, RequestShape, Places, Using, Ended, Finding, Replacing
  <2>4. k.pc \in {"broken", "send"}
    BY <1>0 DEF RequestType
  <2>5. asked'[r].pc \notin {"read", "pass"}
    BY <2>1, <2>4 DEF RequestsInv
  <2>6. PoolInv'
    BY <1>2 DEF TakeClient, PoolInv, pool
  <2>7. GoesOnAs(r, k)
    BY <2>1, <2>3 DEF GoesOnAs
  <2> HIDE DEF k
  <2> QED
    BY <1>1, <2>3, <2>5, <2>6, <2>7 DEF Finding, Replacing
<1>3. CASE ~TakeClient(r)
  <2>1. PICK pc \in Finding \cup {"broken"} : Goes(r, pc)
    BY <1>3 DEF Seeks, FindClient, CompareTimeout, TestClient, CloseClient, ForgetClient,
         ForgetTimeout, CreateClient, SetTimeout, Replace, Finding, Replacing
  <2>2. pc \in Places /\ RequestShape([asked[r] EXCEPT !.pc = pc])
    BY <1>0, <1>1, <2>1 DEF RequestType, RequestShape, Places, Ended, Finding, Replacing
  <2> DEFINE k == [asked[r] EXCEPT !.pc = pc]
  <2>3. GoesOnAs(r, k)
    BY <2>1, <2>2, GoesSuits
  <2>4. k.of = asked[r].of /\ k.pc = pc
    BY <1>0 DEF RequestType
  <2>5. asked'[r].pc \notin {"read", "pass"}
    BY <2>1, <2>3, <2>4, WentOn DEF Finding, Replacing
  <2>6. PoolInv'
    <3>1. CASE UNCHANGED pool
      <4>1. crossed' \in {crossed, crossed \cup {asked[r].of}}
        BY <1>3 DEF Seeks, FindClient, CompareTimeout, TestClient, CloseClient, ForgetClient,
           ForgetTimeout, CreateClient, SetTimeout, Replace
      <4>2. crossed' \subseteq Adapters
        BY <1>0, <4>1 DEF PoolInv
      <4>3. shared' = shared /\ made' = made /\ open' = open
        BY <3>1 DEF pool
      <4> QED
        BY <4>2, <4>3, Zenon DEF PoolInv
    <3>2. CASE CloseClient(r)
      BY <1>0, <3>2 DEF CloseClient, PoolInv
    <3>3. CASE ForgetClient(r)
      BY <1>0, <3>3 DEF ForgetClient, PoolInv
    <3>4. CASE ForgetTimeout(r)
      BY <1>0, <3>4 DEF ForgetTimeout, PoolInv
    <3>5. CASE CreateClient(r)
      BY <1>0, <3>5 DEF CreateClient, PoolInv
    <3>6. CASE SetTimeout(r)
      BY <1>0, <3>6 DEF SetTimeout, PoolInv
    <3> QED
      BY <1>3, <3>1, <3>2, <3>3, <3>4, <3>5, <3>6
      DEF Seeks, FindClient, CompareTimeout, TestClient, Replace
  <2> HIDE DEF k
  <2> QED
    BY <1>1, <2>3, <2>4, <2>5, <2>6 DEF Finding, Replacing
<1> QED
  BY <1>2, <1>3

-----------------------------------------------------------------------------
(* Every variable has its type, and an answer is what was sent *)
TypesInv == RequestsInv /\ PoolInv

LEMMA TypesKept ==
  ASSUME ServicesAssumption, TypesInv, [ServicesNext]_servicesVars
  PROVE  TypesInv'
<1> USE DEF TypesInv
<1>1. ASSUME NEW r \in Requests, Plain(r)
      PROVE  TypesInv'
  <2>1. UNCHANGED <<pool, crossed>> /\ \E k : PlainMove(r, k)
    BY <1>1, PlainMoves
  <2>2. PICK k : GoesOnAs(r, k)
    BY <2>1 DEF PlainMove
  <2>3. RequestsInv'
    BY <2>2, WentOn
  <2>4. PoolInv'
    BY <2>1 DEF PoolInv, pool
  <2> QED
    BY <2>3, <2>4
<1>2. ASSUME NEW r \in Requests, Seeks(r)
      PROVE  TypesInv'
  <2>1. PICK k : GoesOnAs(r, k)
    BY <1>2, SeeksMoves
  <2> QED
    BY <1>2, <2>1, SeeksMoves, WentOn
<1>3. CASE UNCHANGED servicesVars
  BY <1>3 DEF servicesVars, RequestsInv, RequestShape, PoolInv, pool
<1> QED
  BY <1>1, <1>2, <1>3 DEF ServicesNext, Plain, Seeks

-----------------------------------------------------------------------------
(* The client that is there when nobody replaces it *)

\* A closed client is still forgotten by the request that closed it, a forgotten
\* one or its timeout is still set by the request that forgot it; and until there
\* is a client, requests only look for it.
SettlingInv ==
  \A a \in Adapters :
    /\ \/ shared[a].client = 0
       \/ shared[a].client \in open[a]
       \/ Some(a, {"forget"})
    /\ made[a] > 0 =>
         /\ shared[a].client = 0 => Some(a, {"untime", "create"})
         /\ ~shared[a].timed => Some(a, {"create", "time"})
    /\ made[a] = 0 =>
         /\ shared[a].client = 0 /\ ~shared[a].timed
         /\ ~Some(a, (Finding \cup Using) \ {"find", "stale", "create"})

\* Who is somewhere stays there, but for the request that moves.
LEMMA SomeElse ==
  ASSUME NEW r \in Requests, NEW k, NEW a, NEW pcs,
         \A s \in Requests : asked'[s] = IF s = r THEN k ELSE asked[s]
  PROVE  /\ Some(a, pcs)' => Some(a, pcs) \/ (k.of = a /\ k.pc \in pcs)
         /\ Some(a, pcs) => Some(a, pcs)' \/ (asked[r].of = a /\ asked[r].pc \in pcs)
         /\ k.of = a /\ k.pc \in pcs => Some(a, pcs)'
BY DEF Some

LEMMA Settling ==
  ASSUME ServicesAssumption, TypesInv, SettlingInv, [ServicesNext]_servicesVars
  PROVE  SettlingInv'
<1>1. ASSUME NEW r \in Requests, Plain(r)
      PROVE  SettlingInv'
  <2>1. UNCHANGED <<pool, crossed>> /\ \E k : PlainMove(r, k)
    BY <1>1, PlainMoves DEF TypesInv
  <2>2. PICK k : PlainMove(r, k)
    BY <2>1
  <2>3. \A s \in Requests : asked'[s] = IF s = r THEN k ELSE asked[s]
    BY <2>2, WentOn DEF PlainMove, TypesInv
  <2> SUFFICES ASSUME NEW a \in Adapters
               PROVE  SettlingInv!(a)'
    BY DEF SettlingInv
  <2>4. \A pcs \in SUBSET Replacing : Some(a, pcs) => Some(a, pcs)'
    BY <2>2, <2>3, SomeElse DEF PlainMove, Finding
  <2>5. ~Some(a, (Finding \cup Using) \ {"find", "stale", "create"})
        => ~Some(a, (Finding \cup Using) \ {"find", "stale", "create"})'
    <3>1. k.of = a /\ k.pc \in (Finding \cup Using) \ {"find", "stale", "create"}
          => asked[r].of = a /\ asked[r].pc \in (Finding \cup Using) \ {"find", "stale", "create"}
      BY <2>2 DEF PlainMove, Finding, Using, Replacing
    <3> QED
      BY <2>3, <3>1, SomeElse DEF Some
  <2>6. shared'[a] = shared[a] /\ open'[a] = open[a] /\ made'[a] = made[a]
    BY <2>1 DEF pool
  <2> QED
    BY <2>4, <2>5, <2>6 DEF SettlingInv, Replacing
<1>2. ASSUME NEW r \in Requests, Seeks(r)
      PROVE  SettlingInv'
  <2>1. PICK k : GoesOnAs(r, k) /\ k.of = asked[r].of
    BY <1>2, SeeksMoves DEF TypesInv
  <2>2. \A s \in Requests : asked'[s] = IF s = r THEN k ELSE asked[s]
    BY <2>1, WentOn DEF TypesInv
  <2>3. /\ asked[r].of \in Adapters /\ asked[r] \in RequestType
        /\ \A b \in Adapters : made[b] \in Nat /\ shared[b].client \in 0 .. made[b]
        /\ \A b \in Adapters : shared[b] \in [client : Nat, timed : BOOLEAN]
    BY DEF TypesInv, RequestsInv, RequestType, PoolInv
  <2>t. /\ shared \in [Adapters -> [client : Nat, timed : BOOLEAN]]
        /\ made \in [Adapters -> Nat] /\ open \in [Adapters -> SUBSET Nat]
    BY DEF TypesInv, PoolInv
  <2> SUFFICES ASSUME NEW a \in Adapters
               PROVE  SettlingInv!(a)'
    BY DEF SettlingInv
  <2>4. CASE asked[r].of # a
    <3>1. shared'[a] = shared[a] /\ open'[a] = open[a] /\ made'[a] = made[a]
      BY <1>2, <2>3, <2>t, <2>4 DEF Seeks, FindClient, CompareTimeout, TestClient, CloseClient,
         ForgetClient, ForgetTimeout, CreateClient, SetTimeout, TakeClient, pool
    <3>2. \A pcs : Some(a, pcs)' <=> Some(a, pcs)
      BY <2>1, <2>2, <2>4, SomeElse
    <3> QED
      BY <3>1, <3>2 DEF SettlingInv
  <2>5. CASE asked[r].of = a
    <3> DEFINE Far == (Finding \cup Using) \ {"find", "stale", "create"}
    <3>0. /\ SettlingInv!(a)
          /\ k.pc = asked'[r].pc /\ k.of = a
          /\ \A pcs : asked[r].pc \notin pcs /\ Some(a, pcs) => Some(a, pcs)'
          /\ \A pcs : k.pc \in pcs => Some(a, pcs)'
          /\ \A pcs : k.pc \notin pcs /\ ~Some(a, pcs) => ~Some(a, pcs)'
          /\ \A pcs : asked[r].pc \in pcs => Some(a, pcs)
      BY <2>1, <2>2, <2>5, SomeElse DEF SettlingInv, Some
    <3>k. ASSUME NEW pc, Goes(r, pc)
          PROVE  k.pc = pc
      BY <2>2, <2>3, <3>k DEF Goes, RequestType, TypesInv, RequestsInv
    <3>w. /\ "forget" \in Far /\ "close" \in Far /\ "untime" \in Far /\ "time" \in Far
          /\ "compare" \in Far /\ "take" \in Far
      BY DEF Finding, Replacing
    <3>1. CASE FindClient(r) \/ CompareTimeout(r) \/ TestClient(r)
      <4>1. /\ k.pc \in {"stale", "compare", "take", "create", "close"}
            /\ k.pc \in {"compare", "take", "close"} => made[a] # 0
            /\ asked[r].pc \in {"find", "compare", "stale"}
        BY <3>1, <2>5, <3>0, <3>k, <3>w DEF FindClient, CompareTimeout, TestClient, Replace
      <4>2. made[a] = 0 => k.pc \notin Far
        BY <4>1 DEF Finding, Replacing, Using
      <4>3. shared'[a] = shared[a] /\ open'[a] = open[a] /\ made'[a] = made[a]
        BY <3>1 DEF FindClient, CompareTimeout, TestClient, pool
      <4>4. /\ Some(a, {"forget"}) => Some(a, {"forget"})'
            /\ Some(a, {"untime", "create"}) => Some(a, {"untime", "create"})'
            /\ Some(a, {"create", "time"}) => Some(a, {"create", "time"})'
        BY <3>0, <4>1
      <4>5. made[a] = 0 => ~Some(a, Far)'
        BY <3>0, <4>2
      <4> QED
        BY <3>0, <4>3, <4>4, <4>5
    <3>2. CASE CloseClient(r)
      <4>1. asked[r].pc = "close" /\ made[a] # 0 /\ made'[a] = made[a] /\ shared'[a] = shared[a]
        BY <3>2, <3>0, <3>w DEF CloseClient
      <4>2. /\ Some(a, {"untime", "create"}) => Some(a, {"untime", "create"})'
            /\ Some(a, {"create", "time"}) => Some(a, {"create", "time"})'
        BY <3>0, <4>1
      <4>3. shared[a].client # 0 => Some(a, {"forget"})'
        BY <3>0, <3>2, <3>k, <2>5 DEF CloseClient
      <4> QED
        BY <3>0, <4>1, <4>2, <4>3, <2>3
    <3>3. CASE ForgetClient(r)
      <4>1. /\ asked[r].pc = "forget" /\ k.pc = "untime" /\ made[a] # 0 /\ made'[a] = made[a]
            /\ shared'[a].client = 0 /\ shared'[a].timed = shared[a].timed
        BY <3>3, <3>0, <3>k, <3>w, <2>5, <2>t DEF ForgetClient
      <4> QED
        BY <3>0, <4>1, <2>3
    <3>4. CASE ForgetTimeout(r)
      <4>1. /\ asked[r].pc = "untime" /\ k.pc = "create" /\ made[a] # 0 /\ made'[a] = made[a]
            /\ shared'[a].client = shared[a].client /\ open'[a] = open[a]
        BY <3>4, <3>0, <3>k, <3>w, <2>5, <2>t DEF ForgetTimeout
      <4>2. Some(a, {"forget"}) => Some(a, {"forget"})'
        BY <3>0, <4>1
      <4> QED
        BY <3>0, <4>1, <4>2, <2>3
    <3>5. CASE CreateClient(r)
      <4>1. /\ k.pc = "time" /\ made'[a] = made[a] + 1 /\ shared'[a].client = made[a] + 1
            /\ shared'[a].client \in open'[a]
        BY <3>5, <3>0, <3>k, <2>5, <2>t DEF CreateClient
      <4> QED
        BY <3>0, <4>1, <2>3
    <3>6. CASE SetTimeout(r)
      <4>1. /\ asked[r].pc = "time" /\ made[a] # 0 /\ made'[a] = made[a]
            /\ shared'[a].client = shared[a].client /\ open'[a] = open[a] /\ shared'[a].timed
        BY <3>6, <3>0, <3>w, <2>5, <2>t DEF SetTimeout
      <4>2. /\ Some(a, {"untime", "create"}) => Some(a, {"untime", "create"})'
            /\ Some(a, {"forget"}) => Some(a, {"forget"})'
        BY <3>0, <4>1
      <4> QED
        BY <3>0, <4>1, <4>2, <2>3
    <3>7. CASE TakeClient(r)
      <4>1. /\ asked[r].pc = "take" /\ made[a] # 0 /\ made'[a] = made[a]
            /\ shared'[a] = shared[a] /\ open'[a] = open[a]
        BY <3>7, <3>0, <3>w DEF TakeClient, pool
      <4>2. /\ Some(a, {"untime", "create"}) => Some(a, {"untime", "create"})'
            /\ Some(a, {"forget"}) => Some(a, {"forget"})'
            /\ Some(a, {"create", "time"}) => Some(a, {"create", "time"})'
        BY <3>0, <4>1
      <4> QED
        BY <3>0, <4>1, <4>2
    <3> QED
      BY <1>2, <3>1, <3>2, <3>3, <3>4, <3>5, <3>6, <3>7 DEF Seeks
  <2> QED
    BY <2>4, <2>5
<1>3. CASE UNCHANGED servicesVars
  BY <1>3 DEF servicesVars, pool, SettlingInv, Some
<1> QED
  BY <1>1, <1>2, <1>3 DEF ServicesNext, Plain, Seeks

\* Of an adapter whose client is there and being replaced by nobody, a step only
\* finds the client.
Settles(a) == ~Some(a, Replacing) /\ made[a] > 0
Stays(a) == shared'[a] = shared[a] /\ open'[a] = open[a] /\ ~Some(a, Replacing)'

LEMMA SettledStep ==
  ASSUME ServicesAssumption, TypesInv, SettlingInv, [ServicesNext]_servicesVars,
         NEW a \in Adapters, Settles(a)
  PROVE  Stays(a)
<1> USE DEF Settles, Stays
<1>0. shared[a].client \in open[a] /\ shared[a].client # 0 /\ shared[a].timed
  <2>1. ~Some(a, {"forget"}) /\ ~Some(a, {"untime", "create"}) /\ ~Some(a, {"create", "time"})
    BY DEF Some, Replacing
  <2>2. made[a] \in Nat /\ open[a] \subseteq 1 .. made[a] /\ shared[a].client \in 0 .. made[a]
    BY DEF TypesInv, PoolInv
  <2> QED
    BY <2>1, <2>2 DEF SettlingInv
<1>1. ASSUME NEW r \in Requests, Plain(r)
      PROVE  Stays(a)
  <2>1. UNCHANGED <<pool, crossed>> /\ \E k : PlainMove(r, k)
    BY <1>1, PlainMoves DEF TypesInv
  <2>2. PICK k : PlainMove(r, k)
    BY <2>1
  <2>3. \A s \in Requests : asked'[s] = IF s = r THEN k ELSE asked[s]
    BY <2>2, WentOn DEF PlainMove, TypesInv
  <2>4. k.pc \notin Replacing
    BY <2>2 DEF PlainMove, Finding, Replacing
  <2> QED
    BY <2>1, <2>3, <2>4, SomeElse DEF pool
<1>2. ASSUME NEW r \in Requests, Seeks(r)
      PROVE  Stays(a)
  <2>1. PICK k : GoesOnAs(r, k) /\ k.of = asked[r].of
    BY <1>2, SeeksMoves DEF TypesInv
  <2>2. \A s \in Requests : asked'[s] = IF s = r THEN k ELSE asked[s]
    BY <2>1, WentOn DEF TypesInv
  <2>3. asked[r].of \in Adapters /\ asked[r] \in RequestType
    BY DEF TypesInv, RequestsInv, RequestType
  <2>t. /\ shared \in [Adapters -> [client : Nat, timed : BOOLEAN]]
        /\ made \in [Adapters -> Nat] /\ open \in [Adapters -> SUBSET Nat]
    BY DEF TypesInv, PoolInv
  <2>4. CASE asked[r].of # a
    <3>1. shared'[a] = shared[a] /\ open'[a] = open[a]
      BY <1>2, <2>3, <2>t, <2>4 DEF Seeks, FindClient, CompareTimeout, TestClient, CloseClient,
         ForgetClient, ForgetTimeout, CreateClient, SetTimeout, TakeClient, pool
    <3>2. ~Some(a, Replacing)'
      BY <2>1, <2>2, <2>4 DEF Some
    <3> QED
      BY <3>1, <3>2
  <2>5. CASE asked[r].of = a
    <3>k. ASSUME NEW pc, Goes(r, pc)
          PROVE  k.pc = pc
      BY <2>2, <2>3, <3>k DEF Goes, RequestType, TypesInv, RequestsInv
    <3>1. asked[r].pc \notin Replacing
      BY <2>5 DEF Some
    <3>2. CASE FindClient(r) \/ CompareTimeout(r)
      <4>1. UNCHANGED pool /\ k.pc \in {"compare", "take"}
        BY <1>0, <2>5, <3>2, <3>k DEF FindClient, CompareTimeout
      <4> QED
        BY <4>1, <2>2, SomeElse DEF pool, Replacing
    <3>3. CASE TakeClient(r)
      <4>1. UNCHANGED pool /\ k.pc \in {"broken", "send"}
        BY <2>2, <2>3, <3>3 DEF TakeClient, RequestType, TypesInv, RequestsInv
      <4> QED
        BY <4>1, <2>2, SomeElse DEF pool, Replacing
    <3> QED
      BY <1>2, <3>1, <3>2, <3>3 DEF Seeks, TestClient, CloseClient, ForgetClient,
         ForgetTimeout, CreateClient, SetTimeout, Replacing
  <2> QED
    BY <2>4, <2>5
<1>3. CASE UNCHANGED servicesVars
  BY <1>3 DEF servicesVars, pool, Some
<1> QED
  BY <1>1, <1>2, <1>3 DEF ServicesNext, Plain, Seeks

-----------------------------------------------------------------------------
(* Requests that cross *)

\* One request at most of an adapter is replacing its client.
OneReplaces(a) ==
  \A r, s \in Requests :
    asked[r].of = a /\ asked[r].pc \in Replacing
    /\ asked[s].of = a /\ asked[s].pc \in Replacing => r = s

\* It stays so when the request that moves did replace the client, or nobody did.
LEMMA StillOne ==
  ASSUME NEW r \in Requests, NEW k, NEW a, OneReplaces(a), k.of = asked[r].of,
         \A s \in Requests : asked'[s] = IF s = r THEN k ELSE asked[s],
         k.pc \in Replacing => asked[r].pc \in Replacing \/ ~Some(a, Replacing)
  PROVE  OneReplaces(a)'
<1> SUFFICES ASSUME NEW u \in Requests, NEW s \in Requests,
                    asked'[u].of = a, asked'[u].pc \in Replacing,
                    asked'[s].of = a, asked'[s].pc \in Replacing
             PROVE  u = s
  BY DEF OneReplaces
<1>1. CASE u = r /\ s # r
  BY <1>1 DEF OneReplaces, Some
<1>2. CASE u # r /\ s = r
  BY <1>2 DEF OneReplaces, Some
<1>3. CASE u # r /\ s # r
  BY <1>3 DEF OneReplaces
<1> QED
  BY <1>1, <1>2, <1>3

\* Of an adapter of which no two requests replaced the client at once, one request
\* at most replaces it, and only before there is a client; nobody closes one.
CrossingInv ==
  \A a \in Adapters \ crossed :
    /\ made[a] > 0 => shared[a].client \in open[a] /\ ~Some(a, {"stale", "create"})
    /\ made[a] > 0 /\ ~shared[a].timed => Some(a, {"time"})
    /\ ~Some(a, {"close", "forget", "untime"})
    /\ OneReplaces(a)
    /\ \A r \in Requests : asked[r].of = a =>
         /\ asked[r].pc \in Using => Usable(r)
         /\ asked[r].pc = "broken" => asked[r].odd

\* One transcription at most is under way.
OneTranscript ==
  /\ "transcript" \notin crossed
  /\ \A r, s \in Requests :
       asked[r].of = "transcript" /\ Under(r)
       /\ asked[s].of = "transcript" /\ Under(s) => r = s

LEMMA TranscriptsOne ==
  ASSUME ServicesAssumption, TypesInv, OneTranscript, [ServicesNext]_servicesVars
  PROVE  OneTranscript'
<1>1. ASSUME NEW r \in Requests, Plain(r)
      PROVE  OneTranscript'
  <2>1. UNCHANGED <<pool, crossed>> /\ \E k : PlainMove(r, k)
    BY <1>1, PlainMoves DEF TypesInv
  <2>2. PICK k : PlainMove(r, k)
    BY <2>1
  <2>3. \A s \in Requests : asked'[s] = IF s = r THEN k ELSE asked[s]
    BY <2>2, WentOn DEF PlainMove, TypesInv
  <2>4. \A s \in Requests \ {r} : Under(s)' <=> Under(s)
    BY <2>3 DEF Under
  <2>5. k.of = "transcript" /\ Under(r)' =>
          (asked[r].of = "transcript" /\ Under(r)) \/ LoopFree
    BY <2>2, <2>3 DEF PlainMove, Under
  <2> SUFFICES ASSUME NEW u \in Requests, NEW s \in Requests,
                      asked'[u].of = "transcript", Under(u)',
                      asked'[s].of = "transcript", Under(s)'
               PROVE  u = s
    BY <2>1 DEF OneTranscript
  <2>6. CASE asked[r].of = "transcript" /\ Under(r)
    BY <2>3, <2>4, <2>6 DEF OneTranscript
  <2>7. CASE ~(asked[r].of = "transcript" /\ Under(r))
    BY <2>3, <2>4, <2>5, <2>7 DEF OneTranscript, LoopFree
  <2> QED
    BY <2>6, <2>7
<1>2. ASSUME NEW r \in Requests, Seeks(r)
      PROVE  OneTranscript'
  <2>1. PICK k : GoesOnAs(r, k) /\ k.of = asked[r].of /\ asked[r].pc \in Finding
    BY <1>2, SeeksMoves DEF TypesInv
  <2>2. \A s \in Requests : asked'[s] = IF s = r THEN k ELSE asked[s]
    BY <2>1, WentOn DEF TypesInv
  <2>3. Under(r) /\ \A s \in Requests \ {r} : Under(s)' <=> Under(s)
    BY <2>1, <2>2 DEF Under, Finding, Replacing, Ended
  <2>4. \A s \in Requests : asked[s].pc \in Replacing => Under(s)
    BY DEF Under, Replacing, Ended
  <2>5. "transcript" \notin crossed'
    <3>1. CASE FindClient(r) \/ CompareTimeout(r)
      <4>1. asked[r].pc \notin Replacing
        BY <3>1 DEF FindClient, CompareTimeout, Replacing
      <4>2. asked[r].of = "transcript" => ~Some("transcript", Replacing)
        BY <2>3, <2>4, <4>1 DEF OneTranscript, Some
      <4> QED
        BY <3>1, <4>2 DEF FindClient, CompareTimeout, Replace, OneTranscript
    <3>2. CASE ~(FindClient(r) \/ CompareTimeout(r))
      BY <1>2, <3>2 DEF Seeks, TestClient, CloseClient, ForgetClient, ForgetTimeout,
         CreateClient, SetTimeout, TakeClient, OneTranscript
    <3> QED
      BY <3>1, <3>2
  <2>6. \A s \in Requests : asked'[s].of = "transcript" /\ Under(s)' =>
          asked[s].of = "transcript" /\ Under(s)
    BY <2>1, <2>2, <2>3
  <2> QED
    BY <2>5, <2>6 DEF OneTranscript
<1>3. CASE UNCHANGED servicesVars
  BY <1>3 DEF servicesVars, OneTranscript, Under
<1> QED
  BY <1>1, <1>2, <1>3 DEF ServicesNext, Plain, Seeks

LEMMA Crossing ==
  ASSUME ServicesAssumption, TypesInv, SettlingInv, CrossingInv, [ServicesNext]_servicesVars
  PROVE  CrossingInv'
<1>1. ASSUME NEW r \in Requests, Plain(r)
      PROVE  CrossingInv'
  <2>1. UNCHANGED <<pool, crossed>> /\ \E k : PlainMove(r, k)
    BY <1>1, PlainMoves DEF TypesInv
  <2>2. PICK k : PlainMove(r, k)
    BY <2>1
  <2>3. \A s \in Requests : asked'[s] = IF s = r THEN k ELSE asked[s]
    BY <2>2, WentOn DEF PlainMove, TypesInv
  <2>4. k.pc \notin Replacing /\ asked[r].pc \notin Replacing
    BY <2>2 DEF PlainMove, Finding, Replacing
  <2> SUFFICES ASSUME NEW a \in Adapters \ crossed
               PROVE  CrossingInv!(a)'
    BY <2>1 DEF CrossingInv
  <2>5. \A pcs \in SUBSET Replacing : Some(a, pcs)' <=> Some(a, pcs)
    BY <2>3, <2>4, SomeElse
  <2>6. \A s \in Requests : s # r => (Usable(s)' <=> Usable(s))
    BY <2>1, <2>3 DEF Usable, pool
  <2>7. k.pc \in Using /\ k.of = a => Usable(r)'
    <3>1. asked[r].pc \in Using => k.of = asked[r].of
      BY <2>2 DEF PlainMove, Using
    <3> QED
      BY <2>1, <2>2, <2>3, <3>1 DEF PlainMove, CrossingInv, Usable, pool
  <2>8. k.pc = "broken" /\ k.of = a => k.odd
    BY <2>2 DEF PlainMove, CrossingInv, Using
  <2>9. OneReplaces(a)'
    BY <2>3, <2>4 DEF OneReplaces, CrossingInv
  <2>a. \A s \in Requests : asked'[s].of = a =>
          /\ asked'[s].pc \in Using => Usable(s)'
          /\ asked'[s].pc = "broken" => asked'[s].odd
    BY <2>3, <2>6, <2>7, <2>8 DEF CrossingInv
  <2>b. shared'[a] = shared[a] /\ open'[a] = open[a] /\ made'[a] = made[a]
    BY <2>1 DEF pool
  <2> QED
    BY <2>5, <2>9, <2>a, <2>b DEF CrossingInv, Replacing
<1>2. ASSUME NEW r \in Requests, Seeks(r)
      PROVE  CrossingInv'
  <2>1. PICK k : GoesOnAs(r, k) /\ k.of = asked[r].of
    BY <1>2, SeeksMoves DEF TypesInv
  <2>2. \A s \in Requests : asked'[s] = IF s = r THEN k ELSE asked[s]
    BY <2>1, WentOn DEF TypesInv
  <2>3. /\ asked[r].of \in Adapters /\ asked[r] \in RequestType
    BY DEF TypesInv, RequestsInv, RequestType
  <2>t. /\ shared \in [Adapters -> [client : Nat, timed : BOOLEAN]]
        /\ made \in [Adapters -> Nat] /\ open \in [Adapters -> SUBSET Nat]
        /\ crossed \subseteq crossed'
    BY <1>2 DEF TypesInv, PoolInv, Seeks, FindClient, CompareTimeout, TestClient, CloseClient,
         ForgetClient, ForgetTimeout, CreateClient, SetTimeout, TakeClient, Replace
  <2> SUFFICES ASSUME NEW a \in Adapters, a \notin crossed'
               PROVE  CrossingInv!(a)'
    BY DEF CrossingInv
  <2>c. CrossingInv!(a)
    BY <2>t DEF CrossingInv
  <2>4. CASE asked[r].of # a
    <3>1. shared'[a] = shared[a] /\ open'[a] = open[a] /\ made'[a] = made[a]
      BY <1>2, <2>3, <2>t, <2>4 DEF Seeks, FindClient, CompareTimeout, TestClient, CloseClient,
         ForgetClient, ForgetTimeout, CreateClient, SetTimeout, TakeClient, pool
    <3>2. \A pcs : Some(a, pcs)' <=> Some(a, pcs)
      BY <2>1, <2>2, <2>4 DEF Some
    <3>4. OneReplaces(a)'
      BY <2>c, <2>1, <2>2, <2>4 DEF OneReplaces
    <3>3. \A s \in Requests : asked[s].of = a => (Usable(s)' <=> Usable(s))
      BY <2>2, <2>4, <3>1 DEF Usable
    <3> QED
      BY <2>c, <2>1, <2>2, <2>4, <3>1, <3>2, <3>3, <3>4
  <2>5. CASE asked[r].of = a
    <3>0. /\ k.of = a
          /\ \A pcs : asked[r].pc \notin pcs /\ Some(a, pcs) => Some(a, pcs)'
          /\ \A pcs : k.pc \in pcs => Some(a, pcs)'
          /\ \A pcs : k.pc \notin pcs /\ ~Some(a, pcs) => ~Some(a, pcs)'
          /\ \A pcs : asked[r].pc \in pcs => Some(a, pcs)
      BY <2>1, <2>2, <2>5, SomeElse DEF Some
    <3>k. ASSUME NEW pc, Goes(r, pc)
          PROVE  k.pc = pc
      BY <2>2, <2>3, <3>k DEF Goes, RequestType, TypesInv, RequestsInv
    <3>p. /\ open[a] \subseteq 1 .. made[a] /\ shared[a].client \in 0 .. made[a]
          /\ made[a] \in Nat
          /\ made[a] = 0 => /\ shared[a].client = 0 /\ ~shared[a].timed
                            /\ asked[r].pc \in {"find", "stale", "create"}
      BY <2>5, <3>0, SeeksMoves, <1>2 DEF TypesInv, PoolInv, SettlingInv
    \* The others of this adapter are as they were.
    <3>s. /\ \A s \in Requests : s # r /\ asked[s].of = a /\ asked[s].pc \in Using => Usable(s)
          /\ open[a] \subseteq open'[a] =>
               \A s \in Requests : s # r /\ asked[s].of = a /\ asked[s].pc \in Using => Usable(s)'
      BY <2>c, <2>2 DEF Usable
    <3>1. CASE FindClient(r) \/ CompareTimeout(r)
      <4>1. shared'[a] = shared[a] /\ open'[a] = open[a] /\ made'[a] = made[a]
        BY <3>1 DEF FindClient, CompareTimeout, pool
      <4>2. asked[r].pc \in {"find", "compare"}
        BY <3>1 DEF FindClient, CompareTimeout
      <4>3. \/ k.pc \in {"compare", "take"}
            \/ k.pc = "stale" /\ made[a] = 0 /\ ~Some(a, Replacing)
        <5>1. CASE Replace(r)
          <6>1. k.pc = "stale" /\ ~Some(a, Replacing)
            BY <5>1, <2>5, <3>k DEF Replace
          <6>2. ~Some(a, {"time"})
            BY <6>1 DEF Some, Replacing
          <6>3. shared[a].client = 0 \/ ~shared[a].timed
            BY <3>1, <5>1, <2>5, <6>1, <3>k DEF FindClient, CompareTimeout
          <6> QED
            BY <2>c, <3>p, <6>1, <6>2, <6>3
        <5> QED
          BY <3>1, <3>k, <5>1 DEF FindClient, CompareTimeout
      <4>4. \A pcs \in SUBSET {"close", "forget", "untime", "time", "create"} :
              Some(a, pcs)' <=> Some(a, pcs)
        BY <3>0, <4>2, <4>3
      <4>5. made[a] > 0 => ~Some(a, {"stale", "create"})'
        BY <2>c, <3>0, <4>3
      <4>6. OneReplaces(a)'
        BY <2>c, <2>1, <2>2, <4>2, <4>3, StillOne DEF Replacing
      <4>7. k.pc \notin Using /\ k.pc # "broken"
        BY <4>3 DEF Using
      <4> QED
        BY <2>c, <2>2, <3>s, <4>1, <4>4, <4>5, <4>6, <4>7
    <3>2. CASE TestClient(r)
      <4>1. shared'[a] = shared[a] /\ open'[a] = open[a] /\ made'[a] = made[a]
        BY <3>2 DEF TestClient, pool
      <4>2. asked[r].pc = "stale" /\ made[a] = 0
        BY <2>c, <3>2, <3>0, <3>p DEF TestClient
      <4>3. k.pc = "create"
        BY <3>2, <4>2, <3>p, <3>k, <2>5 DEF TestClient
      <4>4. ~Some(a, {"close", "forget", "untime"})'
        BY <2>c, <3>0, <4>3
      <4>6. OneReplaces(a)'
        BY <2>c, <2>1, <2>2, <4>2, <4>2, StillOne DEF Replacing
      <4>7. k.pc \notin Using /\ k.pc # "broken"
        BY <4>3 DEF Using
      <4> QED
        BY <2>c, <2>2, <3>s, <4>1, <4>2, <4>4, <4>6, <4>7
    <3>3. CASE CloseClient(r) \/ ForgetClient(r) \/ ForgetTimeout(r)
      BY <3>3, <2>c, <3>0 DEF CloseClient, ForgetClient, ForgetTimeout
    <3>4. CASE CreateClient(r)
      <4>1. asked[r].pc = "create" /\ made[a] = 0 /\ k.pc = "time"
        BY <2>c, <3>4, <3>0, <3>p, <3>k DEF CreateClient
      <4>2. /\ made'[a] = 1 /\ shared'[a].client = 1 /\ open'[a] = open[a] \cup {1}
            /\ shared'[a].timed = shared[a].timed
        BY <3>4, <2>5, <2>t, <4>1 DEF CreateClient
      <4>3. ~Some(a, {"stale", "create"})'
        BY <2>c, <2>2, <2>5, <4>1 DEF OneReplaces, Some, Replacing
      <4>4. ~Some(a, {"close", "forget", "untime"})' /\ Some(a, {"time"})'
        BY <2>c, <3>0, <4>1
      <4>6. OneReplaces(a)'
        BY <2>c, <2>1, <2>2, <4>2, <4>1, StillOne DEF Replacing
      <4>7. k.pc \notin Using /\ k.pc # "broken"
        BY <4>1 DEF Using
      <4> QED
        BY <2>c, <2>2, <3>s, <4>2, <4>3, <4>4, <4>6, <4>7
    <3>5. CASE SetTimeout(r)
      <4>1. asked[r].pc = "time" /\ k.pc = "take"
        BY <3>5, <3>k DEF SetTimeout
      <4>2. /\ made'[a] = made[a] /\ shared'[a].client = shared[a].client
            /\ open'[a] = open[a] /\ shared'[a].timed
        BY <3>5, <2>5, <2>t DEF SetTimeout
      <4>3. /\ made[a] > 0 => ~Some(a, {"stale", "create"})'
            /\ ~Some(a, {"close", "forget", "untime"})'
        BY <2>c, <3>0, <4>1
      <4>6. OneReplaces(a)'
        BY <2>c, <2>1, <2>2, <4>2, <4>1, StillOne DEF Replacing
      <4>7. k.pc \notin Using /\ k.pc # "broken"
        BY <4>1 DEF Using
      <4> QED
        BY <2>c, <2>2, <3>s, <4>2, <4>3, <4>6, <4>7
    <3>6. CASE TakeClient(r)
      <4>1. /\ asked[r].pc = "take"
            /\ shared'[a] = shared[a] /\ open'[a] = open[a] /\ made'[a] = made[a]
        BY <3>6 DEF TakeClient, pool
      <4>2. shared[a].client \in open[a] /\ shared[a].client # 0
        BY <2>c, <3>p, <4>1
      <4>3. k.client = shared[a].client /\ k.pc = "send"
        BY <3>6, <2>2, <2>3, <2>5, <4>2 DEF TakeClient, RequestType, TypesInv, RequestsInv
      <4>4. Usable(r)'
        BY <2>2, <3>0, <4>1, <4>2, <4>3 DEF Usable
      <4>5. \A pcs \in SUBSET Replacing : Some(a, pcs)' <=> Some(a, pcs)
        BY <3>0, <4>1, <4>3 DEF Replacing
      <4>6. OneReplaces(a)'
        BY <2>c, <2>1, <2>2, <4>2, <4>3, StillOne DEF Replacing
      <4> QED
        BY <2>c, <2>2, <3>s, <4>1, <4>3, <4>4, <4>5, <4>6 DEF Replacing
    <3> QED
      BY <1>2, <3>1, <3>2, <3>3, <3>4, <3>5, <3>6 DEF Seeks
  <2> QED
    BY <2>4, <2>5
<1>3. CASE UNCHANGED servicesVars
  BY <1>3 DEF servicesVars, pool, CrossingInv, OneReplaces, Some, Usable
<1> QED
  BY <1>1, <1>2, <1>3 DEF ServicesNext, Plain, Seeks

-----------------------------------------------------------------------------
(* The theorems *)
ServicesInv == TypesInv /\ SettlingInv /\ OneTranscript /\ CrossingInv

LEMMA ServicesAlways ==
  ServicesSpec => []ServicesInv
<1> USE ServicesAssumption
<1>1. ServicesInit => ServicesInv
  <2> SUFFICES ASSUME ServicesInit
               PROVE  ServicesInv
    OBVIOUS
  <2>0. \A r \in Requests : asked[r] = Unasked
    BY DEF ServicesInit
  <2>1. Unasked \in RequestType /\ RequestShape(Unasked)
    BY DEF Unasked, RequestType, RequestShape, Places, Adapters, Finding, Replacing, Using, Ended
  <2>2. TypesInv
    BY <2>0, <2>1 DEF ServicesInit, TypesInv, RequestsInv, PoolInv
  <2>3. \A a \in Adapters : /\ ~Some(a, Finding \cup Using) /\ ~Some(a, Replacing)
    BY <2>0 DEF Some, Unasked, Finding, Using, Replacing
  <2>4. \A r \in Requests : ~Under(r) /\ asked[r].pc = "unasked"
    BY <2>0 DEF Under, Unasked
  <2>5. SettlingInv
    BY <2>0 DEF ServicesInit, SettlingInv, Some, Unasked, Finding, Using, Replacing
  <2>6. OneTranscript
    BY <2>4 DEF ServicesInit, OneTranscript, Under
  <2>7. CrossingInv
    BY <2>4 DEF ServicesInit, CrossingInv, OneReplaces, Some, Using, Replacing
  <2> QED
    BY <2>2, <2>5, <2>6, <2>7 DEF ServicesInv
<1>2. ServicesInv /\ [ServicesNext]_servicesVars => ServicesInv'
  BY TypesKept, Settling, TranscriptsOne, Crossing DEF ServicesInv
<1> QED
  BY <1>1, <1>2, PTL DEF ServicesSpec

\* Whatever the threads do, every variable keeps its type (ServicesTypeOK).
THEOREM ServicesTypeCorrect == ServicesSpec => []ServicesTypeOK
<1>1. ServicesInv => ServicesTypeOK
  BY DEF ServicesInv, TypesInv, RequestsInv, PoolInv, RequestType, Places, ServicesTypeOK
<1> QED
  BY <1>1, ServicesAlways, PTL

\* However many requests replace an adapter's client at once
\* (get_shared_http_client): when none does any more, it has one that is open.
THEOREM ClientSettles == ServicesSpec => []ClientSettled
<1>1. ServicesInv => ClientSettled
  <2> SUFFICES ASSUME ServicesInv, NEW a \in Adapters, ~Some(a, Replacing), made[a] > 0
               PROVE  shared[a].client \in open[a] /\ shared[a].timed
    BY DEF ClientSettled
  <2>1. ~Some(a, {"forget"}) /\ ~Some(a, {"untime", "create"}) /\ ~Some(a, {"create", "time"})
    BY DEF Some, Replacing
  <2> QED
    BY <2>1 DEF ServicesInv, SettlingInv
<1> QED
  BY <1>1, ServicesAlways, PTL

\* From then on no step of any request closes or replaces it.
THEOREM ClientStays == ServicesSpec => ClientKept
<1>1. ServicesInv /\ [ServicesNext]_servicesVars
      => [\A a \in Adapters :
           ~Some(a, Replacing) /\ made[a] > 0 =>
             /\ shared'[a] = shared[a] /\ open'[a] = open[a]
             /\ ~Some(a, Replacing)']_servicesVars
  BY ServicesAssumption, SettledStep DEF ServicesInv, Settles, Stays
<1> QED
  BY <1>1, ServicesAlways, PTL DEF ServicesSpec, ClientKept

\* No client is closed under a request, unless two replaced it at once.
THEOREM OpenInUse == ServicesSpec => []OpenInUseUnlessCrossed
<1>1. ServicesInv => OpenInUseUnlessCrossed
  BY DEF ServicesInv, CrossingInv, TypesInv, RequestsInv, RequestType, OpenInUseUnlessCrossed
<1> QED
  BY <1>1, ServicesAlways, PTL

\* A request ends with its adapter's own errors, unless two replaced the client at
\* once or the service's body was not JSON.
THEOREM OwnErrors == ServicesSpec => []OwnErrorsUnlessCrossed
<1>1. ServicesInv => OwnErrorsUnlessCrossed
  BY DEF ServicesInv, CrossingInv, TypesInv, RequestsInv, RequestType, OwnErrorsUnlessCrossed
<1> QED
  BY <1>1, ServicesAlways, PTL

\* Transcriptions never meet at their client (POST /stt/transcribe).
THEOREM TranscriptsKeptApart == ServicesSpec => []TranscriptsApart
<1>1. ServicesInv => TranscriptsApart
  BY DEF ServicesInv, OneTranscript, TranscriptsApart
<1> QED
  BY <1>1, ServicesAlways, PTL

\* What is given for an answer is what the service sent.
THEOREM AnswersAreWhole == ServicesSpec => []AnswersWhole
<1>1. ServicesInv => AnswersWhole
  BY DEF ServicesInv, TypesInv, RequestsInv, RequestShape, AnswersWhole
<1> QED
  BY <1>1, ServicesAlways, PTL

\* However many requests meet at an adapter's client (get_shared_http_client), it
\* is there and open when nobody replaces it, nobody but two that replace it at
\* once closes it under a request, and transcriptions never do.
THEOREM ClientsAlwaysHold == ServicesSpec => []ClientsHold
<1>1. ClientSettled /\ OpenInUseUnlessCrossed /\ TranscriptsApart => ClientsHold
  BY DEF ClientsHold
<1> QED
  BY <1>1, ClientSettles, OpenInUse, TranscriptsKeptApart, PTL

\* What a caller gets of a reply, of speech or of a transcription is the whole
\* answer, or an error it knows.
THEOREM AnswersAlwaysHonest == ServicesSpec => []AnswersHonest
<1>1. AnswersWhole /\ OwnErrorsUnlessCrossed => AnswersHonest
  BY DEF AnswersHonest
<1> QED
  BY <1>1, AnswersAreWhole, OwnErrors, PTL

-----------------------------------------------------------------------------
(* Calls, feelings and requests side by side *)
LEMMA CallsInCompanion == CompanionSpec => CallsSpec
<1>1. CompanionInit => CallsInit
  BY DEF CompanionInit
<1>2. [CallMoves \/ FeelMoves \/ ServiceMoves]_companionVars => [CallsNext]_callsVars
  BY DEF CallMoves, FeelMoves, ServiceMoves, companionVars
<1> QED
  BY <1>1, <1>2, PTL DEF CompanionSpec, CallsSpec

LEMMA FeelInCompanion == CompanionSpec => FeelSpec
<1>1. CompanionInit => FeelInit
  BY DEF CompanionInit
<1>2. [CallMoves \/ FeelMoves \/ ServiceMoves]_companionVars => [FeelNext]_feelVars
  BY DEF CallMoves, FeelMoves, ServiceMoves, companionVars
<1> QED
  BY <1>1, <1>2, PTL DEF CompanionSpec, FeelSpec

LEMMA ServicesInCompanion == CompanionSpec => ServicesSpec
<1>1. CompanionInit => ServicesInit
  BY DEF CompanionInit
<1>2. [CallMoves \/ FeelMoves \/ ServiceMoves]_companionVars => [ServicesNext]_servicesVars
  BY DEF CallMoves, FeelMoves, ServiceMoves, companionVars
<1> QED
  BY <1>1, <1>2, PTL DEF CompanionSpec, ServicesSpec

\* Every value of the calls, of the two rows of feelings and of the requests is one
\* the code can hold, as the run states it.
THEOREM CompanionTypeCorrect == CompanionSpec => []TypesOK
<1>1. CallsTypeOK /\ FeelTypeOK /\ ServicesTypeOK => TypesOK
  BY DEF TypesOK
<1> QED
  BY <1>1, CallsInCompanion, FeelInCompanion, ServicesInCompanion,
     CallsTypeCorrect, FeelTypeCorrect, ServicesTypeCorrect, PTL
=============================================================================
