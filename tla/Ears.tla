-------------------------------- MODULE Ears --------------------------------
(* The two services of the voice pipeline that keep one WebSocket open while   *)
(* it runs: the streaming recognizer (doubao_streaming_stt_service.py), which  *)
(* connects anew when its session times out, and the speech-to-speech dialog   *)
(* (doubao_realtime_service.py), which shakes hands first. A call in progress  *)
(* is a record of the step it is at; _reconnect runs inside the reader, while  *)
(* the pipeline may be stopping.                                               *)
EXTENDS Integers, Sequences

CONSTANTS
  Words,       \* what an utterance can say
  MaxSockets,  \* bound: connections ever opened
  MaxSpoken,   \* bound: utterances the server hears
  MaxResults   \* bound: results the server sends

ASSUME EarsAssumption == {MaxSockets, MaxSpoken, MaxResults} \subseteq Nat

Sockets == 1 .. MaxSockets
NoSocket == 0

VARIABLES
  service,  \* kind, _connected, _websocket, the socket _receive_task reads
  socket,   \* each socket: unused, open, dead (the other side is gone), closed
  caller,   \* the steps of the pipeline's call (start, stop) and of _reconnect
  remote,   \* utterances heard, results sent, the results on their way
  words,    \* _last_final_text, and the utterances pushed downstream
  lapsed    \* history: a connect failed, or the pipeline stopped during a reconnect

earsVars == <<service, socket, caller, remote, words, lapsed>>

Callers == {"pipeline", "reader"}
Steps == {"rest", "open", "request", "cancel", "close", "stopped"}

EarsInit ==
  /\ \E k \in {"recognizer", "dialog"} :
       service = [kind |-> k, connected |-> FALSE, ws |-> NoSocket, reader |-> NoSocket]
  /\ socket = [s \in Sockets |-> "unused"]
  /\ caller = [c \in Callers |-> IF c = "pipeline" THEN "open" ELSE "rest"]
  /\ remote = [spoken |-> <<>>, sent |-> 0, results |-> <<>>]
  /\ words = [last |-> "", pushed |-> <<>>]
  /\ lapsed = FALSE

Step(c, from, to) == caller[c] = from /\ caller' = [caller EXCEPT ![c] = to]
Failed == [service EXCEPT !.connected = FALSE, !.ws = NoSocket]

-----------------------------------------------------------------------------
(* _connect *)
Opened(c) ==
  /\ Step(c, "open", "request")
  /\ \E s \in Sockets :
       /\ socket[s] = "unused" /\ \A r \in 1 .. s - 1 : socket[r] # "unused"
       /\ socket' = [socket EXCEPT ![s] = "open"]
       /\ service' = [service EXCEPT !.ws = s]
  /\ UNCHANGED <<remote, words, lapsed>>

\* The service refuses, or what was opened fails at the request or in the
\* handshake: the socket is forgotten and not closed.
ConnectFails(c) ==
  /\ caller[c] \in {"open", "request"}
  /\ caller' = [caller EXCEPT ![c] = "rest"]
  /\ service' = Failed
  /\ lapsed' = TRUE
  /\ UNCHANGED <<socket, remote, words>>

Ready(c) ==
  /\ service.ws # NoSocket /\ socket[service.ws] = "open" /\ Step(c, "request", "rest")
  /\ service' = [service EXCEPT !.connected = TRUE, !.reader = service.ws]
  /\ words' = [words EXCEPT !.last = ""]
  /\ UNCHANGED <<socket, remote, lapsed>>

-----------------------------------------------------------------------------
(* _disconnect, _teardown: first the reader is cancelled, then the socket is closed *)
StopAsked ==
  /\ caller["pipeline"] = "rest"
  /\ caller' = [caller EXCEPT !["pipeline"] = "cancel"]
  /\ service' = [service EXCEPT !.connected = FALSE]
  /\ lapsed' = (lapsed \/ caller["reader"] # "rest")
  /\ UNCHANGED <<socket, remote, words>>

\* The reader is cancelled where it is. One that is in a reconnect may be out of
\* reach, or take the cancellation for its own.
ReaderCancelled ==
  /\ caller["pipeline"] = "cancel"
  /\ \E after \in {"rest", caller["reader"]} :
       caller' = [caller EXCEPT !["pipeline"] = "close", !["reader"] = after]
  /\ service' = [service EXCEPT !.reader = NoSocket]
  /\ UNCHANGED <<socket, remote, words, lapsed>>

\* A reader that cancels itself goes on, or is gone: the framework decides.
CancelsItself ==
  /\ caller["reader"] = "cancel"
  /\ \/ /\ caller' = [caller EXCEPT !["reader"] = "close"]
        /\ service' = [service EXCEPT !.reader = NoSocket]
     \/ /\ caller' = [caller EXCEPT !["reader"] = "rest"]
        /\ UNCHANGED service
  /\ UNCHANGED <<socket, remote, words, lapsed>>

Closed(c) ==
  /\ Step(c, "close", IF c = "reader" THEN "open" ELSE "stopped")
  /\ socket' = [s \in Sockets |-> IF s = service.ws THEN "closed" ELSE socket[s]]
  /\ service' = [service EXCEPT !.ws = NoSocket]
  /\ UNCHANGED <<remote, words, lapsed>>

-----------------------------------------------------------------------------
(* Audio out, results in *)
\* Mutant: the socket that failed is forgotten.
SendFailsForgets ==
  /\ service.connected /\ service.ws # NoSocket /\ socket[service.ws] = "dead"
  /\ service' = Failed
  /\ UNCHANGED <<socket, caller, remote, words, lapsed>>

SendFails ==
  /\ service.connected /\ service.ws # NoSocket /\ socket[service.ws] = "dead"
  /\ service' = [service EXCEPT !.connected = FALSE]
  /\ UNCHANGED <<socket, caller, remote, words, lapsed>>

SocketDies(s) ==
  /\ socket[s] = "open"
  /\ socket' = [socket EXCEPT ![s] = "dead"]
  /\ UNCHANGED <<service, caller, remote, words, lapsed>>

\* What the dialog hears it answers itself; its results are only logged.
Hears(w) ==
  /\ service.kind = "recognizer" /\ service.connected /\ service.ws # NoSocket
  /\ Len(remote.spoken) < MaxSpoken
  /\ remote' = [remote EXCEPT !.spoken = Append(@, [text |-> w, on |-> service.ws])]
  /\ UNCHANGED <<service, socket, caller, words, lapsed>>

\* A partial or a definite result of the utterance it heard last; the definite
\* one may be repeated, with the last packet of the stream.
Sends(definite) ==
  /\ remote.spoken # <<>> /\ remote.sent < MaxResults
  /\ socket[remote.spoken[Len(remote.spoken)].on] = "open"
  /\ remote' = [remote EXCEPT
       !.sent = @ + 1,
       !.results = Append(@, [of |-> Len(remote.spoken), definite |-> definite])]
  /\ UNCHANGED <<service, socket, caller, words, lapsed>>

\* The reader reads on; it is out as soon as the pipeline has cancelled it.
Reads == service.reader # NoSocket /\ caller["reader"] = "rest" /\ caller["pipeline"] = "rest"
CanRead == Reads /\ remote.results # <<>>

\* Mutant: a partial result forgets the last definite one.
HandlePartialForgets ==
  /\ CanRead
  /\ LET r == Head(remote.results)  said == remote.spoken[r.of]
     IN
       words' = IF ~r.definite THEN [words EXCEPT !.last = ""]
                ELSE IF said.on # service.reader \/ said.text = words.last THEN words
                ELSE [last |-> said.text, pushed |-> Append(words.pushed, r.of)]
  /\ remote' = [remote EXCEPT !.results = Tail(@)]
  /\ UNCHANGED <<service, socket, caller, lapsed>>

\* _handle_message: a definite result is a transcript, unless its words are those
\* of the one before. What came on a socket that was given up is not read.
HandleMessage ==
  /\ CanRead
  /\ LET r == Head(remote.results)  said == remote.spoken[r.of]
     IN
       words' = IF ~r.definite \/ said.on # service.reader \/ said.text = words.last THEN words
                ELSE [last |-> said.text, pushed |-> Append(words.pushed, r.of)]
  /\ remote' = [remote EXCEPT !.results = Tail(@)]
  /\ UNCHANGED <<service, socket, caller, lapsed>>

\* The recognizer's session times out.
Reconnect ==
  /\ service.kind = "recognizer" /\ Reads /\ Step("reader", "rest", "cancel")
  /\ service' = [service EXCEPT !.connected = FALSE]
  /\ UNCHANGED <<socket, remote, words, lapsed>>

-----------------------------------------------------------------------------
EarsNext ==
  \/ \E c \in Callers : Opened(c) \/ ConnectFails(c) \/ Ready(c) \/ Closed(c)
  \/ StopAsked \/ ReaderCancelled \/ CancelsItself \/ Reconnect
  \/ SendFails \/ \E s \in Sockets : SocketDies(s)
  \/ \E w \in Words : Hears(w)
  \/ \E definite \in BOOLEAN : Sends(definite)
  \/ HandleMessage

EarsSpec == EarsInit /\ [][EarsNext]_earsVars

-----------------------------------------------------------------------------
EarsTypeOK ==
  /\ service \in [kind : {"recognizer", "dialog"}, connected : BOOLEAN,
                  ws : Sockets \cup {NoSocket}, reader : Sockets \cup {NoSocket}]
  /\ socket \in [Sockets -> {"unused", "open", "dead", "closed"}]
  /\ caller \in [Callers -> Steps]
  /\ words.pushed \in Seq(Nat)

\* When the pipeline has stopped no connection and no reader is left, unless a
\* connect failed or a reconnect was under way.
NothingListensUnlessSlipped ==
  caller["pipeline"] = "stopped" =>
    \/ lapsed
    \/ /\ service.reader = NoSocket
       /\ \A s \in Sockets : socket[s] \in {"unused", "closed"}

\* Transcripts come in the order of what was said, and an utterance becomes one
\* transcript at most, however often its result is repeated and whatever partial
\* result comes between. One that says the words of the last one again is taken
\* for a repeated result, and becomes none.
HeardOnceInOrder == \A i, j \in DOMAIN words.pushed : i < j => words.pushed[i] < words.pushed[j]
=============================================================================
