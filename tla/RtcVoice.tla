------------------------------ MODULE RtcVoice -------------------------------
(* A call through the hosted RTC service: the client hook that joins and    *)
(* leaves (frontend/src/rtc/useRtcVoice.ts), the agent it starts at the     *)
(* service through the backend (backend/app/rtc/routes.py), and the         *)
(* off-path analysis of the exchanges it overhears (POST /rtc/turn).        *)
(*                                                                          *)
(* join and leave are asynchronous: a step is what runs between two awaits. *)
(* The panel shows the join button whenever the phase is not "live", and     *)
(* pagehide leaves at any time, so several of them can be in flight.        *)
EXTENDS Naturals, Sequences

CONSTANTS
  Rooms,          \* the room ids /rtc/prepare will mint (uuid4, never reused)
  Calls,          \* the join() and leave() calls that can be in flight at once
  None,           \* no room
  MaxExchanges,   \* bound: exchanges spoken
  MaxSegments,    \* bound: final segments of one reply
  MaxFaults       \* bound: failed requests, engine errors, backend restarts

ASSUME RtcAssumption ==
  /\ None \notin Rooms
  /\ MaxExchanges \in Nat /\ MaxSegments \in Nat /\ MaxFaults \in Nat

VARIABLES
  screen,       \* the phase the panel shows
  session,      \* sessionRef: the room of the running session
  engine,       \* engineRef: the engine, named by its room
  tearing,      \* tearingDownRef
  conversation, \* messageStateRef and postedTurnKeysRef
  calls,        \* where each call of join or leave is
  engines,      \* the SDK's engines
  agents,       \* rooms in which the service runs an agent
  posts,        \* POST /rtc/turn requests and their background analyses
  busy,         \* schema_meta turn_analyzing:{room}
  said,         \* exchanges spoken: the final segments of each reply
  stored,       \* how often each exchange was committed by the analyzer
  faults,
  overlapped,   \* history: a call began while another, or a session, was on
  unstopped,    \* history: rooms the clean-up of a join could not stop
  claimRaced    \* history: two claims of one room have overlapped

client  == <<screen, session, engine, tearing, conversation, calls, engines>>
backend   == <<posts, busy, stored, claimRaced>>
history == <<overlapped, unstopped>>
callsVars == <<client, agents, backend, said, faults, history>>

Phases      == {"idle", "joining", "live", "leaving", "error"}
EngineState == {"none", "created", "joined", "destroyed"}
Exchanges   == 1 .. MaxExchanges

\* resetConversation, and the message state of a newly prepared session:
\* subtitles are ignored until the agent is enabled.
Silent == [enabled |-> FALSE, key |-> 0, exchange |-> 0, segments |-> 0, posted |-> {}]

Idle == [op |-> "none", pc |-> "idle", room |-> None, torn |-> None,
         lines |-> FALSE, hidden |-> FALSE]

CallsInit ==
  /\ screen = "idle" /\ session = None /\ engine = None /\ tearing = FALSE
  /\ conversation = Silent
  /\ calls = [c \in Calls |-> Idle]
  /\ engines = [r \in Rooms |-> "none"]
  /\ agents = {} /\ unstopped = {}
  /\ posts = {} /\ busy = [r \in Rooms |-> FALSE]
  /\ said = <<>> /\ stored = [e \in Exchanges |-> 0]
  /\ faults = 0 /\ overlapped = FALSE /\ claimRaced = FALSE

Running(c) == calls[c].op # "none"
Quiet      == \A c \in Calls : ~Running(c)
At(c, op, pc) == calls[c].op = op /\ calls[c].pc = pc
Goto(c, pc)   == calls' = [calls EXCEPT ![c].pc = pc]
Finish(c)     == calls' = [calls EXCEPT ![c] = Idle]

\* A request that fails is counted, so that a run ends.
Fault == faults < MaxFaults /\ faults' = faults + 1

-----------------------------------------------------------------------------
(* join() *)

\* The join button: shown in every phase but "live".
StartJoin(c) ==
  /\ ~Running(c) /\ screen # "live"
  /\ screen' = "joining"
  /\ conversation' = Silent
  /\ calls' = [calls EXCEPT ![c] = [Idle EXCEPT !.op = "join", !.pc = "prepare"]]
  /\ overlapped' = (overlapped \/ ~Quiet \/ session # None)
  /\ UNCHANGED <<session, engine, tearing, engines, agents, backend, said, faults, unstopped>>

\* fetchRtcStatus, isSupported, enableDevices and prepareRtcSession succeed;
\* the engine is created in the same step.
Prepare(c) ==
  /\ At(c, "join", "prepare")
  /\ \E r \in Rooms :
       /\ engines[r] = "none"
       /\ engine' = r
       /\ engines' = [engines EXCEPT ![r] = "created"]
       /\ calls' = [calls EXCEPT ![c].pc = "enter", ![c].room = r]
  /\ conversation' = [Silent EXCEPT !.posted = conversation.posted]
  /\ UNCHANGED <<screen, session, tearing, agents, backend, said, faults, history>>

\* joinRoom, on an engine nobody has destroyed meanwhile.
EnterRoom(c) ==
  /\ At(c, "join", "enter") /\ engines[calls[c].room] = "created"
  /\ engines' = [engines EXCEPT ![calls[c].room] = "joined"]
  /\ Goto(c, "microphone")
  /\ UNCHANGED <<screen, session, engine, tearing, conversation, agents, backend, said,
                 faults, history>>

StartLocalMicrophone(c) ==
  /\ At(c, "join", "microphone") /\ engines[calls[c].room] = "joined"
  /\ Goto(c, "agent")
  /\ UNCHANGED <<screen, session, engine, tearing, conversation, engines, agents, backend,
                 said, faults, history>>

\* POST /rtc/agent/start answers: the session is live.
StartAgent(c) ==
  /\ At(c, "join", "agent")
  /\ agents' = agents \cup {calls[c].room}
  /\ session' = calls[c].room
  /\ conversation' = [conversation EXCEPT !.enabled = TRUE]
  /\ screen' = "live"
  /\ Finish(c)
  /\ UNCHANGED <<engine, tearing, engines, backend, said, faults, history>>

\* The catch of join begins: the session is given up and the engine in
\* engineRef, whichever call put it there, is torn down.
GiveUp(c) ==
  /\ session' = None
  /\ IF engine = None
       THEN Goto(c, "cleanup") /\ UNCHANGED tearing
       ELSE /\ calls' = [calls EXCEPT ![c].pc = "tear", ![c].torn = engine]
            /\ tearing' = TRUE

\* A step of join throws: a check or a request fails, or the engine of this
\* call has been destroyed by another one.
JoinThrows(c) ==
  /\ calls[c].op = "join"
  /\ calls[c].pc \in {"prepare", "enter", "microphone"}
  /\ IF calls[c].pc # "prepare" /\ engines[calls[c].room] = "destroyed"
       THEN UNCHANGED faults
       ELSE Fault
  /\ GiveUp(c)
  /\ UNCHANGED <<screen, engine, conversation, engines, agents, backend, said, history>>

\* POST /rtc/agent/start fails; the service may have started the agent.
AgentStartFails(c) ==
  /\ At(c, "join", "agent")
  /\ Fault
  /\ agents' \in {agents, agents \cup {calls[c].room}}
  /\ GiveUp(c)
  /\ UNCHANGED <<screen, engine, conversation, engines, backend, said, history>>

\* The mutated form of CleanUp: the catch of join forgets the agent.
CleanUpWithoutStop(c) ==
  /\ At(c, "join", "cleanup")
  /\ screen' = "error"
  /\ Finish(c)
  /\ UNCHANGED <<session, engine, tearing, conversation, engines, agents, backend, said,
                 faults, history>>

\* The catch of join ends: the prepared room is stopped, best effort.
CleanUp(c) ==
  /\ At(c, "join", "cleanup")
  /\ \/ /\ agents' = agents \ {calls[c].room}
        /\ UNCHANGED <<faults, unstopped>>
     \/ /\ calls[c].room # None /\ Fault
        /\ agents' \in {agents, agents \ {calls[c].room}}
        /\ unstopped' = unstopped \cup {calls[c].room}
  /\ screen' = "error"
  /\ Finish(c)
  /\ UNCHANGED <<session, engine, tearing, conversation, engines, backend, said, overlapped>>

-----------------------------------------------------------------------------
(* teardownEngine() and leave() *)

\* Capture, unpublish and leaveRoom are over: the engine that was captured is
\* destroyed and engineRef is cleared, whatever it names by now.
Tear(c) ==
  /\ calls[c].pc = "tear"
  /\ engines' = [engines EXCEPT ![calls[c].torn] = "destroyed"]
  /\ engine' = None /\ tearing' = FALSE
  /\ CASE calls[c].op = "join" -> Goto(c, "cleanup")
       [] calls[c].op = "leave" /\ calls[c].room = None -> Finish(c)
       [] OTHER -> Goto(c, "save")
  /\ UNCHANGED <<screen, session, conversation, agents, backend, said, faults, history>>

\* The leave button (hidden = FALSE), shown while the phase is "live", or the
\* pagehide listener (hidden = TRUE). Without a session only the engine is
\* torn down.
StartLeave(c, hidden) ==
  /\ ~Running(c) /\ (hidden \/ screen = "live")
  /\ session # None \/ engine # None
  /\ screen' = IF session # None /\ ~hidden THEN "leaving" ELSE screen
  /\ tearing' = (tearing \/ engine # None)
  /\ calls' = [calls EXCEPT ![c] =
       [op |-> "leave", pc |-> IF engine # None THEN "tear" ELSE "save",
        room |-> session, torn |-> engine, lines |-> conversation.enabled, hidden |-> hidden]]
  /\ overlapped' = (overlapped \/ ~Quiet)
  /\ UNCHANGED <<session, engine, conversation, engines, agents, backend, said, faults, unstopped>>

\* The subtitles are saved, or there is nothing to save, or nowhere to.
SaveMemory(c) ==
  /\ At(c, "leave", "save")
  /\ Goto(c, "stop")
  /\ UNCHANGED <<screen, session, engine, tearing, conversation, engines, agents, backend,
                 said, faults, history>>

\* Saving the subtitles there were when leave began fails. A hidden page goes
\* on; the button's leave returns here, with the session still held and the
\* agent running.
SaveFails(c) ==
  /\ At(c, "leave", "save") /\ calls[c].lines
  /\ Fault
  /\ IF calls[c].hidden
       THEN Goto(c, "stop") /\ UNCHANGED screen
       ELSE Finish(c) /\ screen' = "error"
  /\ UNCHANGED <<session, engine, tearing, conversation, engines, agents, backend, said, history>>

\* POST /rtc/stop answers: the session and the conversation are forgotten.
StopAgent(c) ==
  /\ At(c, "leave", "stop")
  /\ agents' = agents \ {calls[c].room}
  /\ session' = None /\ conversation' = Silent
  /\ screen' = IF calls[c].hidden THEN screen ELSE "idle"
  /\ Finish(c)
  /\ UNCHANGED <<engine, tearing, engines, backend, said, faults, history>>

\* POST /rtc/stop fails, whether or not the service has stopped the agent: the
\* session is kept.
StopFails(c) ==
  /\ At(c, "leave", "stop")
  /\ Fault
  /\ agents' \in {agents, agents \ {calls[c].room}}
  /\ screen' = IF calls[c].hidden THEN screen ELSE "error"
  /\ Finish(c)
  /\ UNCHANGED <<session, engine, tearing, conversation, engines, backend, said, history>>

\* The SDK reports an error of an engine.
EngineError ==
  /\ ~tearing /\ screen # "error"
  /\ \E r \in Rooms : engines[r] \in {"created", "joined"}
  /\ Fault
  /\ screen' = "error"
  /\ UNCHANGED <<session, engine, tearing, conversation, calls, engines, agents, backend,
                 said, history>>

-----------------------------------------------------------------------------
(* Subtitles and POST /rtc/turn *)

\* Engines that are in a room with an agent deliver its messages; applySubtitle
\* ignores them until this client has its agent.
Heard == conversation.enabled /\ \E r \in agents : engines[r] = "joined"

\* A subtitle of the user opens a line, and with it an exchange.
UserLine ==
  /\ Heard /\ Len(said) < MaxExchanges
  /\ said' = Append(said, 0)
  /\ conversation' = [conversation EXCEPT !.key = @ + 1, !.exchange = Len(said) + 1,
                                          !.segments = 0]
  /\ UNCHANGED <<screen, session, engine, tearing, calls, engines, agents, backend, faults, history>>

\* The mutated form of Completed: posted keys are not looked at.
CompletedAgain(key) == key > 0 /\ session # None

\* detectCompletedTurn: the last line is a final segment of the reply, so the
\* user's line and all segments since it are an exchange.
Completed(key) == key > 0 /\ key \notin conversation.posted /\ session # None

\* A final subtitle of the agent; maybePostCompletedTurn posts the exchange,
\* under the room of the session, unless its key has been posted.
BotSegment ==
  /\ Heard /\ conversation.exchange # 0
  /\ LET e == conversation.exchange
         n == conversation.segments + 1 IN
     /\ said[e] < MaxSegments
     /\ said' = [said EXCEPT ![e] = @ + 1]
     /\ IF Completed(conversation.key)
          THEN /\ posts' = posts \cup {[exchange |-> e, segments |-> n, room |-> session,
                                        pc |-> "sent"]}
               /\ conversation' = [conversation EXCEPT !.segments = n,
                                                       !.posted = @ \cup {conversation.key}]
          ELSE /\ conversation' = [conversation EXCEPT !.segments = n]
               /\ UNCHANGED posts
  /\ UNCHANGED <<screen, session, engine, tearing, calls, engines, agents, busy, stored,
                 claimRaced, faults, history>>

Advance(p, pc) == posts' = (posts \ {p}) \cup {[p EXCEPT !.pc = pc]}

\* Another claim of the room is between its read and its write.
Claiming(room) == \E q \in posts : q.pc = "free" /\ q.room = room

\* The mutated form of ClaimRead: the claim does not look at the key.
ClaimReadUnchecked(p) ==
  /\ p.pc = "sent"
  /\ Advance(p, "free")
  /\ claimRaced' = (claimRaced \/ Claiming(p.room))
  /\ UNCHANGED <<client, agents, busy, stored, said, faults, history>>

\* claim_turn_analysis reads the room's key in autocommit; a room that is
\* being analyzed drops the exchange.
ClaimRead(p) ==
  /\ p.pc = "sent"
  /\ Advance(p, IF busy[p.room] THEN "over" ELSE "free")
  /\ claimRaced' = (claimRaced \/ Claiming(p.room))
  /\ UNCHANGED <<client, agents, busy, stored, said, faults, history>>

\* claim_turn_analysis writes the key, and the analysis is scheduled.
ClaimWrite(p) ==
  /\ p.pc = "free"
  /\ busy' = [busy EXCEPT ![p.room] = TRUE]
  /\ Advance(p, "claimed")
  /\ UNCHANGED <<client, agents, stored, claimRaced, said, faults, history>>

\* analyze_turn never raises; with or without an appraisal the exchange is
\* committed.
Analyze(p) ==
  /\ p.pc = "claimed"
  /\ stored' = [stored EXCEPT ![p.exchange] = @ + 1]
  /\ Advance(p, "analyzed")
  /\ UNCHANGED <<client, agents, busy, claimRaced, said, faults, history>>

\* release_turn_analysis, in the finally block.
ReleaseRoom(p) ==
  /\ p.pc = "analyzed"
  /\ busy' = [busy EXCEPT ![p.room] = FALSE]
  /\ Advance(p, "over")
  /\ UNCHANGED <<client, agents, stored, claimRaced, said, faults, history>>

\* The post does not arrive, the claim or the release finds the store locked,
\* or the analysis fails, which it swallows.
PostFails(p) ==
  /\ p.pc \in {"sent", "free", "claimed", "analyzed"}
  /\ Fault
  /\ Advance(p, IF p.pc = "claimed" THEN "analyzed" ELSE "over")
  /\ UNCHANGED <<client, agents, busy, stored, claimRaced, said, history>>

\* The backend restarts: analyses are gone, the keys of their rooms stay set.
Restart ==
  /\ \E p \in posts : p.pc \in {"free", "claimed", "analyzed"}
  /\ Fault
  /\ posts' = {IF p.pc = "sent" THEN p ELSE [p EXCEPT !.pc = "over"] : p \in posts}
  /\ UNCHANGED <<client, agents, busy, stored, claimRaced, said, history>>

-----------------------------------------------------------------------------
Join(c) ==
  \/ StartJoin(c) \/ Prepare(c) \/ EnterRoom(c) \/ StartLocalMicrophone(c)
  \/ StartAgent(c) \/ JoinThrows(c) \/ AgentStartFails(c) \/ CleanUp(c)

Leave(c) ==
  \/ \E hidden \in BOOLEAN : StartLeave(c, hidden)
  \/ Tear(c) \/ SaveMemory(c) \/ SaveFails(c) \/ StopAgent(c) \/ StopFails(c)

Exchange(p) == ClaimRead(p) \/ ClaimWrite(p) \/ Analyze(p) \/ ReleaseRoom(p) \/ PostFails(p)

CallsNext ==
  \/ \E c \in Calls : Join(c) \/ Leave(c)
  \/ EngineError \/ UserLine \/ BotSegment \/ Restart
  \/ \E p \in posts : Exchange(p)

CallsSpec == CallsInit /\ [][CallsNext]_callsVars

-----------------------------------------------------------------------------
(* Properties *)

ConversationType ==
  [enabled : BOOLEAN, key : Nat, exchange : 0 .. MaxExchanges, segments : Nat,
   posted : SUBSET Nat]

CallType ==
  [op : {"none", "join", "leave"},
   pc : {"idle", "prepare", "enter", "microphone", "agent", "tear", "cleanup", "save", "stop"},
   room : Rooms \cup {None}, torn : Rooms \cup {None}, lines : BOOLEAN,
   hidden : BOOLEAN]

PostType ==
  [exchange : Exchanges, segments : Nat, room : Rooms,
   pc : {"sent", "free", "claimed", "analyzed", "over"}]

\* Every variable of the client, the service and the backend keeps its type; a
\* call that waits for an engine to be torn down has one.
CallsTypeOK ==
  /\ screen \in Phases
  /\ session \in Rooms \cup {None} /\ engine \in Rooms \cup {None}
  /\ tearing \in BOOLEAN
  /\ conversation \in ConversationType
  /\ calls \in [Calls -> CallType]
  /\ \A c \in Calls : calls[c].pc = "tear" => calls[c].torn \in Rooms
  /\ engines \in [Rooms -> EngineState]
  /\ agents \subseteq Rooms /\ unstopped \subseteq Rooms
  /\ posts \subseteq PostType
  /\ busy \in [Rooms -> BOOLEAN]
  /\ said \in Seq(Nat) /\ Len(said) <= MaxExchanges
  /\ stored \in [Exchanges -> Nat]
  /\ faults \in 0 .. MaxFaults
  /\ overlapped \in BOOLEAN /\ claimRaced \in BOOLEAN

\* When no join or leave is in flight, every agent that runs at the service and
\* every engine that is not destroyed belongs to the session the client holds:
\* nobody listens who cannot be hung up (the catch of join, the order of
\* leave). Not so after calls have overlapped, or when the stop that cleans up
\* a failed join itself failed.
NothingLeftBehindUnlessOverlapped ==
  Quiet /\ ~overlapped =>
    /\ agents \ unstopped \subseteq {session}
    /\ \A r \in Rooms : engines[r] \in {"created", "joined"} => r = engine
    /\ engine \in {session, None}

\* A room is analyzed by one background task at a time, unless two claims
\* have overlapped (claim_turn_analysis reads before its transaction begins).
AnalysisSingleFlightUnlessRaced ==
  ~claimRaced =>
    \A p, q \in posts :
      /\ p.pc \in {"claimed", "analyzed"} /\ q.pc \in {"claimed", "analyzed"}
      /\ p.room = q.room
      => p = q

\* An exchange is committed to the store at most once, however many segments
\* its reply has, whatever is retried or overlaps (postedTurnKeysRef).
StoredOnce == \A e \in Exchanges : stored[e] <= 1

\* What is posted of an exchange that is over is the whole reply: "the
\* preceding user line + ALL bot segments since it" (rtcMessages.ts).
ReplyPostedWhole ==
  \A p \in posts : p.exchange < Len(said) => p.segments = said[p.exchange]
=============================================================================
