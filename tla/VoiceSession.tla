---------------------------- MODULE VoiceSession ----------------------------
(* Starting and stopping the spoken companion: the panel and its WebRTC        *)
(* connection in the browser (usePipecatVoice.ts, useWebRtcVoiceConnection.ts) *)
(* and the one pipeline of the server (pipeline_router.py). An attempt to      *)
(* connect is a number; its microphone and its peer connection come and go     *)
(* together.                                                                   *)
EXTENDS Integers, FiniteSets

CONSTANT MaxStarts \* bound: attempts to connect

ASSUME StartsAssumption == MaxStarts \in Nat

Attempts == 1 .. MaxStarts
Polls == {"poll 1", "poll 2"} \* bound: status requests in flight

VARIABLES
  phase,    \* of the panel
  attempt,  \* what each attempt is waiting for
  link,     \* the attempt in the refs of the connection hook
  live,     \* attempts whose microphone and connection have not been closed
  poll,     \* the status requests
  stop,     \* the request to stop
  server,   \* the connection it has, whose pipeline runs; stop_pipeline's `running`
  crossed   \* history: an attempt began with another answer still on its way

sessionVars == <<phase, attempt, link, live, poll, stop, server, crossed>>

NoAttempt == 0
Waiting == {"mic", "offer", "posted", "answered", "refused"}
AtRest == /\ \A a \in Attempts : attempt[a] \notin Waiting
          /\ stop = "none" /\ \A p \in Polls : poll[p] = "none"

SessionInit ==
  /\ phase = "checking"
  /\ attempt = [a \in Attempts |-> "none"]
  /\ link = NoAttempt /\ live = {}
  /\ poll = [p \in Polls |-> IF p = "poll 1" THEN "asked" ELSE "none"]
  /\ stop = "none"
  /\ server = [conn |-> NoAttempt, task |-> NoAttempt, stopping |-> FALSE]
  /\ crossed = FALSE

\* cleanup of the connection hook: what is in the refs, whoever put it there.
Disconnect == live' = live \ {link} /\ link' = NoAttempt

-----------------------------------------------------------------------------
(* The panel and connect *)
Start ==
  /\ phase \in {"stopped", "error"}
  /\ \E a \in Attempts :
       /\ attempt[a] = "none" /\ \A b \in 1 .. a - 1 : attempt[b] # "none"
       /\ attempt' = [attempt EXCEPT ![a] = "mic"]
  /\ phase' = "starting" /\ Disconnect
  /\ crossed' = (crossed \/ ~AtRest)
  /\ UNCHANGED <<poll, stop, server>>

MicGranted(a) ==
  /\ attempt[a] = "mic"
  /\ attempt' = [attempt EXCEPT ![a] = "offer"]
  /\ link' = a /\ live' = live \cup {a}
  /\ UNCHANGED <<phase, poll, stop, server, crossed>>

OfferPosted(a) ==
  /\ attempt[a] = "offer" /\ a \in live
  /\ attempt' = [attempt EXCEPT ![a] = "posted"]
  /\ UNCHANGED <<phase, link, live, poll, stop, server, crossed>>

\* Denied, timed out, refused, or done with a connection that is closed by now.
AttemptFails(a) ==
  /\ attempt[a] \in Waiting
  /\ attempt' = [attempt EXCEPT ![a] = "failed"]
  /\ phase' = "error" /\ Disconnect
  /\ UNCHANGED <<poll, stop, server, crossed>>

Connected(a) ==
  /\ attempt[a] = "answered" /\ a \in live
  /\ attempt' = [attempt EXCEPT ![a] = "up"]
  /\ \E p \in Polls : poll[p] = "none" /\ poll' = [poll EXCEPT ![p] = "asked"]
  /\ UNCHANGED <<phase, link, live, stop, server, crossed>>

\* onconnectionstatechange: failed or closed.
ConnectionDrops(a) ==
  /\ a \in live /\ attempt[a] = "up" /\ Disconnect
  /\ UNCHANGED <<phase, attempt, poll, stop, server, crossed>>

\* Every 1500 ms while the panel says running.
Poll(p) ==
  /\ phase = "running" /\ poll[p] = "none"
  /\ poll' = [poll EXCEPT ![p] = "asked"]
  /\ UNCHANGED <<phase, attempt, link, live, stop, server, crossed>>

\* refreshStatus; a request may fail at any time.
StatusArrives(p) ==
  /\ poll[p] # "none"
  /\ poll' = [poll EXCEPT ![p] = "none"]
  /\ \/ poll[p] = "running" /\ phase' = "running" /\ UNCHANGED <<link, live>>
     \/ poll[p] = "stopped" /\ phase' \in {"stopped", "error"} /\ Disconnect
     \/ phase' = "error" /\ Disconnect
  /\ UNCHANGED <<attempt, stop, server, crossed>>

Stop ==
  /\ phase = "running" /\ stop = "none"
  /\ phase' = "stopping" /\ Disconnect /\ stop' = "asked"
  /\ UNCHANGED <<attempt, poll, server, crossed>>

StopArrives ==
  /\ stop # "none" /\ stop' = "none"
  /\ \/ stop = "done" /\ phase' = "stopped"
     \/ phase' = "error"
  /\ UNCHANGED <<attempt, link, live, poll, server, crossed>>

-----------------------------------------------------------------------------
(* pipeline_router.py: one connection at a time (ConnectionMode.SINGLE) *)
StartPipeline(a) ==
  /\ attempt[a] = "posted"
  /\ IF server.conn # NoAttempt
     THEN attempt' = [attempt EXCEPT ![a] = "refused"] /\ UNCHANGED server
     ELSE /\ attempt' = [attempt EXCEPT ![a] = "answered"]
          /\ server' = [server EXCEPT !.conn = a, !.task = a]
  /\ UNCHANGED <<phase, link, live, poll, stop, crossed>>

PipelineStatus(p) ==
  /\ poll[p] = "asked"
  /\ poll' = [poll EXCEPT ![p] = IF server.task # NoAttempt THEN "running" ELSE "stopped"]
  /\ UNCHANGED <<phase, attempt, link, live, stop, server, crossed>>

\* stop_pipeline looks for the task, closes the connection, ...
StopPipeline ==
  /\ stop = "asked" /\ stop' = "closing"
  /\ server' = [server EXCEPT !.stopping = server.task # NoAttempt, !.conn = NoAttempt]
  /\ UNCHANGED <<phase, attempt, link, live, poll, crossed>>

\* ... and cancels the task that is there then.
CancelPipeline ==
  /\ stop = "closing" /\ stop' = "done"
  /\ server' = [server EXCEPT !.task = IF @ # NoAttempt /\ server.stopping THEN NoAttempt ELSE @,
                              !.stopping = FALSE]
  /\ UNCHANGED <<phase, attempt, link, live, poll, crossed>>

\* The pipeline fails, or its client is gone.
PipelineEnds ==
  /\ server.task # NoAttempt
  /\ server' = [server EXCEPT !.task = NoAttempt, !.conn = IF @ \in live THEN @ ELSE NoAttempt]
  /\ UNCHANGED <<phase, attempt, link, live, poll, stop, crossed>>

ConnectionExpires ==
  /\ server.conn # NoAttempt /\ server.conn \notin live
  /\ server' = [server EXCEPT !.conn = NoAttempt, !.task = NoAttempt]
  /\ UNCHANGED <<phase, attempt, link, live, poll, stop, crossed>>

-----------------------------------------------------------------------------
SessionNext ==
  \/ Start \/ Stop \/ StopArrives \/ StopPipeline \/ CancelPipeline
  \/ PipelineEnds \/ ConnectionExpires
  \/ \E a \in Attempts : \/ MicGranted(a) \/ OfferPosted(a) \/ AttemptFails(a)
                         \/ Connected(a) \/ ConnectionDrops(a) \/ StartPipeline(a)
  \/ \E p \in Polls : Poll(p) \/ StatusArrives(p) \/ PipelineStatus(p)

SessionSpec == SessionInit /\ [][SessionNext]_sessionVars

-----------------------------------------------------------------------------
SessionTypeOK ==
  /\ phase \in {"checking", "stopped", "starting", "running", "stopping", "error"}
  /\ attempt \in [Attempts -> Waiting \cup {"none", "up", "failed"}]
  /\ link \in Attempts \cup {NoAttempt} /\ live \subseteq Attempts
  /\ poll \in [Polls -> {"none", "asked", "running", "stopped"}]
  /\ stop \in {"none", "asked", "closing", "done"}
  /\ server \in [conn : Attempts \cup {NoAttempt}, task : Attempts \cup {NoAttempt},
                 stopping : BOOLEAN]

\* Once the panel says stopped or failed and nothing is on its way, the
\* microphone is off, unless an attempt was begun while another one, or an
\* answer of an earlier request, was still on its way.
MicOffWhenStoppedUnlessCrossed ==
  AtRest /\ phase \in {"stopped", "error"} => live = {} \/ crossed
=============================================================================
