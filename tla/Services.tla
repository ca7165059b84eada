------------------------------- MODULE Services -------------------------------
(* Requests of the API process to the services it hires: replies           *)
(* (app/providers/deepseek.py), speech (app/tts/doubao.py behind its        *)
(* router) and transcriptions (app/stt/doubao.py behind its router). Each   *)
(* adapter keeps one HTTP client for all its requests in two globals,       *)
(* `_shared_http_client` and its timeout, which any worker thread reads and *)
(* writes without a lock: a step is what runs between two such accesses.    *)
(* The three adapters repeat the same code for this.                        *)
(*                                                                          *)
(* Replies and speech run in worker threads. POST /stt/transcribe is a       *)
(* coroutine that does not await once it has the audio: it holds the event  *)
(* loop, which starts requests and carries streamed pieces, until it ends.  *)
EXTENDS Naturals, FiniteSets

CONSTANTS
  Requests,   \* the requests made while the process runs
  MaxPieces   \* bound: pieces of one streamed answer

ASSUME ServicesAssumption == MaxPieces \in Nat

Adapters == {"reply", "speech", "transcript"}

VARIABLES
  shared,    \* per adapter: its client (0 is None), and whether its timeout is set
  made,      \* per adapter: how many clients were created; they are numbered
  open,      \* per adapter: the clients that are not closed
  asked,     \* the requests
  crossed    \* history: adapters of which two requests replaced the client at once

pool == <<shared, made, open>>
servicesVars == <<pool, asked, crossed>>

Unasked == [pc |-> "unasked", of |-> "reply", whole |-> TRUE, client |-> 0,
            sent |-> 0, got |-> 0, odd |-> FALSE]

Ended     == {"answered", "silent", "failed", "broken", "left"}
Replacing == {"stale", "close", "forget", "untime", "create", "time"}
Finding   == {"find", "compare", "take"} \cup Replacing
Using     == {"send", "read", "pass"}

ServicesInit ==
  /\ shared = [a \in Adapters |-> [client |-> 0, timed |-> FALSE]]
  /\ made = [a \in Adapters |-> 0]
  /\ open = [a \in Adapters |-> {}]
  /\ asked = [r \in Requests |-> Unasked]
  /\ crossed = {}

Goes(r, pc)   == asked' = [asked EXCEPT ![r].pc = pc]
Some(a, pcs)  == \E r \in Requests : asked[r].of = a /\ asked[r].pc \in pcs
Under(r)      == asked[r].pc \notin Ended \cup {"unasked"}

\* No transcription holds the event loop.
LoopFree == \A r \in Requests : asked[r].of = "transcript" => ~Under(r)

-----------------------------------------------------------------------------
(* A request comes in *)
Asks(r, a, whole, pc) ==
  /\ asked[r] = Unasked
  /\ asked' = [asked EXCEPT ![r].of = a, ![r].whole = whole, ![r].pc = pc]
  /\ UNCHANGED <<pool, crossed>>

\* A reply: streamed to a listener, or whole, which the thread of a reflection also
\* asks for. A disabled provider or a missing key is an error.
AskReply(r) ==
  \E whole \in BOOLEAN, pc \in {"failed", "find"} :
    (whole \/ LoopFree) /\ Asks(r, "reply", whole, pc)

\* GET /tts/stream or POST /tts/synthesize, after the row's tone is read.
AskSpeech(r) ==
  /\ LoopFree
  /\ \E whole \in BOOLEAN : Asks(r, "speech", whole, "route")

\* The speech policy keeps silent, or the router has no provider to give, or
\* the provider no credentials, no text, or a voice of the wrong kind.
RouteSpeech(r) ==
  /\ asked[r].of = "speech" /\ asked[r].pc = "route"
  /\ \E pc \in {"silent", "failed", "find"} : Goes(r, pc)
  /\ UNCHANGED <<pool, crossed>>

AskTranscript(r) ==
  /\ LoopFree
  /\ Asks(r, "transcript", TRUE, "route")

\* No audio, or no provider to give.
RouteTranscript(r) ==
  /\ asked[r].of = "transcript" /\ asked[r].pc = "route"
  /\ \E pc \in {"failed", "prepare"} : Goes(r, pc)
  /\ UNCHANGED <<pool, crossed>>

\* prepare_audio_for_asr: every exception of it is turned into the adapter's own.
PrepareAudio(r) ==
  /\ asked[r].pc = "prepare"
  /\ \E pc \in {"failed", "find"} : Goes(r, pc)
  /\ UNCHANGED <<pool, crossed>>

-----------------------------------------------------------------------------
(* get_shared_http_client *)

\* The request is to replace the client.
Replace(r) ==
  /\ Goes(r, "stale")
  /\ crossed' = IF Some(asked[r].of, Replacing) THEN crossed \cup {asked[r].of} ELSE crossed

\* `_shared_http_client is None`
FindClient(r) ==
  /\ asked[r].pc = "find"
  /\ \/ shared[asked[r].of].client = 0 /\ Replace(r)
     \/ shared[asked[r].of].client # 0 /\ Goes(r, "compare") /\ UNCHANGED crossed
  /\ UNCHANGED pool

\* Mutant: the timeouts are taken to differ when they are the same.
CompareTimeoutWrongly(r) ==
  /\ asked[r].pc = "compare"
  /\ Replace(r)
  /\ UNCHANGED pool

\* `_shared_http_client_timeout != timeout_s`: the registries give every provider
\* the default timeout, so it differs only while it is not set.
CompareTimeout(r) ==
  /\ asked[r].pc = "compare"
  /\ \/ ~shared[asked[r].of].timed /\ Replace(r)
     \/ shared[asked[r].of].timed /\ Goes(r, "take") /\ UNCHANGED crossed
  /\ UNCHANGED pool

\* close_doubao_http_client: the test, the call, and the two globals forgotten.
TestClient(r) ==
  /\ asked[r].pc = "stale"
  /\ Goes(r, IF shared[asked[r].of].client = 0 THEN "create" ELSE "close")
  /\ UNCHANGED <<pool, crossed>>

\* Another request may have forgotten the client since: None has no close().
CloseClient(r) ==
  LET a == asked[r].of
      client == shared[a].client IN
  /\ asked[r].pc = "close"
  /\ Goes(r, IF client = 0 THEN "broken" ELSE "forget")
  /\ open' = [open EXCEPT ![a] = @ \ {client}]
  /\ UNCHANGED <<shared, made, crossed>>

ForgetClient(r) ==
  /\ asked[r].pc = "forget" /\ Goes(r, "untime")
  /\ shared' = [shared EXCEPT ![asked[r].of].client = 0]
  /\ UNCHANGED <<made, open, crossed>>

ForgetTimeout(r) ==
  /\ asked[r].pc = "untime" /\ Goes(r, "create")
  /\ shared' = [shared EXCEPT ![asked[r].of].timed = FALSE]
  /\ UNCHANGED <<made, open, crossed>>

CreateClient(r) ==
  LET a == asked[r].of IN
  /\ asked[r].pc = "create" /\ Goes(r, "time")
  /\ made' = [made EXCEPT ![a] = @ + 1]
  /\ open' = [open EXCEPT ![a] = @ \cup {made[a] + 1}]
  /\ shared' = [shared EXCEPT ![a].client = made[a] + 1]
  /\ UNCHANGED crossed

SetTimeout(r) ==
  /\ asked[r].pc = "time" /\ Goes(r, "take")
  /\ shared' = [shared EXCEPT ![asked[r].of].timed = TRUE]
  /\ UNCHANGED <<made, open, crossed>>

\* The global is read once more for the return; None has no stream() and no post().
TakeClient(r) ==
  LET client == shared[asked[r].of].client IN
  /\ asked[r].pc = "take"
  /\ asked' = [asked EXCEPT ![r].client = client,
                            ![r].pc = IF client = 0 THEN "broken" ELSE "send"]
  /\ UNCHANGED <<pool, crossed>>

-----------------------------------------------------------------------------
(* The request and its answer *)
Usable(r) == asked[r].client \in open[asked[r].of]

\* A client that is closed raises a RuntimeError, which is no httpx.HTTPError; the
\* network and a status of 400 or more are errors of the adapter's own.
Send(r) ==
  /\ asked[r].pc = "send"
  /\ IF Usable(r) THEN \E pc \in {"failed", "read"} : Goes(r, pc) ELSE Goes(r, "broken")
  /\ UNCHANGED <<pool, crossed>>

\* The connection breaks, or its client is closed under it.
Cut(r) ==
  /\ asked[r].pc = "read"
  /\ \E pc \in {"failed", "broken"} : (pc = "broken" => ~Usable(r)) /\ Goes(r, pc)
  /\ UNCHANGED <<pool, crossed>>

\* A piece of text or sound has come: a whole answer collects it, a streamed one
\* hands it to the event loop.
Piece(r) ==
  /\ asked[r].sent < MaxPieces
  /\ asked' = [asked EXCEPT ![r].sent = @ + 1,
                            ![r].got = IF asked[r].whole THEN @ + 1 ELSE @,
                            ![r].pc = IF asked[r].whole THEN "read" ELSE "pass"]

Pass(r) ==
  /\ LoopFree /\ asked[r].pc = "pass"
  /\ \/ asked' = [asked EXCEPT ![r].got = @ + 1, ![r].pc = "read"]
     \/ \* the listener has left: the generator is not resumed
        Goes(r, "left")
  /\ UNCHANGED <<pool, crossed>>

\* What the lines of a streamed reply do. An error object has no choices and is
\* passed over like the mark of the end; a line that is not JSON is an error, and
\* JSON of another shape raises what nobody turns into one of the adapter's own.
ReplyLine(r) ==
  /\ asked[r].of = "reply" /\ ~asked[r].whole /\ asked[r].pc = "read"
  /\ \/ Piece(r)
     \/ \E pc \in {"read", "broken"} :
          asked' = [asked EXCEPT ![r].odd = TRUE, ![r].pc = pc]
     \/ \E pc \in {"failed", "answered"} : Goes(r, pc)
  /\ UNCHANGED <<pool, crossed>>

\* Mutant: an error code in the stream is passed over.
SpeechLineLenient(r) ==
  /\ asked[r].of = "speech" /\ asked[r].pc = "read"
  /\ \/ Piece(r)
     \/ asked' = [asked EXCEPT ![r].odd = TRUE]
     \/ Goes(r, "done")
  /\ UNCHANGED <<pool, crossed>>

\* What the lines of the speech do: a piece; an error code, or a piece that cannot
\* be decoded; and the mark of the end. The end of the stream without that mark is
\* one of the two: an error only if nothing has come.
SpeechLine(r) ==
  /\ asked[r].of = "speech" /\ asked[r].pc = "read"
  /\ \/ Piece(r)
     \/ \E odd \in BOOLEAN : asked' = [asked EXCEPT ![r].odd = odd, ![r].pc = "failed"]
     \/ Goes(r, "done")
  /\ UNCHANGED <<pool, crossed>>

\* A whole speech without a sound is an error, a streamed one has just ended.
FinishSpeech(r) ==
  /\ asked[r].pc = "done"
  /\ Goes(r, IF asked[r].whole /\ asked[r].got = 0 THEN "failed" ELSE "answered")
  /\ UNCHANGED <<pool, crossed>>

\* A whole reply. A body that is not JSON raises what nobody turns into an error
\* of the adapter's own.
WholeReply(r) ==
  /\ asked[r].of = "reply" /\ asked[r].whole /\ asked[r].pc = "read"
  /\ \/ asked' = [asked EXCEPT ![r].sent = 1, ![r].got = 1, ![r].pc = "answered"]
     \/ asked' = [asked EXCEPT ![r].odd = TRUE, ![r].pc = "broken"]
     \/ Goes(r, "failed")
  /\ UNCHANGED <<pool, crossed>>

\* A transcription: silence, an error code, no JSON and no text are all errors.
Transcript(r) ==
  /\ asked[r].of = "transcript" /\ asked[r].pc = "read"
  /\ \/ asked' = [asked EXCEPT ![r].sent = 1, ![r].got = 1, ![r].pc = "answered"]
     \/ Goes(r, "failed")
  /\ UNCHANGED <<pool, crossed>>

-----------------------------------------------------------------------------
ServicesNext ==
  \E r \in Requests :
    \/ AskReply(r) \/ AskSpeech(r) \/ AskTranscript(r)
    \/ RouteSpeech(r) \/ RouteTranscript(r) \/ PrepareAudio(r)
    \/ FindClient(r) \/ CompareTimeout(r) \/ TestClient(r) \/ CloseClient(r)
    \/ ForgetClient(r) \/ ForgetTimeout(r) \/ CreateClient(r) \/ SetTimeout(r)
    \/ TakeClient(r)
    \/ Send(r) \/ Cut(r) \/ Pass(r) \/ ReplyLine(r) \/ SpeechLine(r)
    \/ FinishSpeech(r) \/ WholeReply(r) \/ Transcript(r)

ServicesSpec == ServicesInit /\ [][ServicesNext]_servicesVars

-----------------------------------------------------------------------------
(* Properties *)

\* Every variable has its type.
ServicesTypeOK ==
  /\ shared \in [Adapters -> [client : Nat, timed : BOOLEAN]]
  /\ made \in [Adapters -> Nat]
  /\ \A a \in Adapters : open[a] \subseteq 1 .. made[a] /\ shared[a].client \in 0 .. made[a]
  /\ asked \in [Requests -> [pc : {"unasked", "route", "prepare", "done"} \cup Finding
                                   \cup Using \cup Ended,
                             of : Adapters, whole : BOOLEAN, client : Nat,
                             sent : 0 .. MaxPieces + 1, got : 0 .. MaxPieces + 1, odd : BOOLEAN]]
  /\ crossed \subseteq Adapters

\* Whatever the requests of the first moments do to each other's client
\* (get_shared_http_client beside itself, in any number of threads): when none
\* is replacing it, the adapter has a client that is open and will be kept.
ClientSettled ==
  \A a \in Adapters :
    ~Some(a, Replacing) /\ made[a] > 0 =>
      shared[a].client \in open[a] /\ shared[a].timed

\* No client is closed under a request that uses it, unless two requests of the
\* adapter have replaced the client at once.
OpenInUseUnlessCrossed ==
  \A r \in Requests : asked[r].pc \in Using => Usable(r) \/ asked[r].of \in crossed

\* Transcriptions never replace each other's client: they hold the event loop that
\* would have to start the other.
TranscriptsApart == "transcript" \notin crossed

\* A request that fails, fails with an error of its adapter's own (TTSError,
\* STTError, ProviderError), the only kind a handler turns into an answer, unless
\* clients have crossed or the service sent JSON of no known shape, or none.
OwnErrorsUnlessCrossed ==
  \A r \in Requests :
    asked[r].pc = "broken" => asked[r].of \in crossed \/ asked[r].odd

\* What is given for an answer is all that the service sent: nothing is dropped
\* on the way, none but a streamed reply (ReplyLine) ends well after an error of
\* the service, and a whole answer is never empty.
AnswersWhole ==
  \A r \in Requests : asked[r].pc = "answered" =>
    /\ asked[r].got = asked[r].sent
    /\ asked[r].odd => asked[r].of = "reply" /\ ~asked[r].whole
    /\ asked[r].whole => asked[r].got > 0

\* However requests meet at an adapter's client (get_shared_http_client): it is there
\* and open when nobody replaces it, only two that replace it at once take it from
\* under a request, and transcriptions never do.
ClientsHold == ClientSettled /\ OpenInUseUnlessCrossed /\ TranscriptsApart

\* What a caller gets is the whole answer or an error it knows.
AnswersHonest == AnswersWhole /\ OwnErrorsUnlessCrossed

\* Once the first moments are over, the client is the adapter's for good: nobody
\* closes it and nobody sets out to replace it.
ClientKept ==
  [][\A a \in Adapters :
       ~Some(a, Replacing) /\ made[a] > 0 =>
         /\ shared'[a] = shared[a] /\ open'[a] = open[a]
         /\ ~Some(a, Replacing)']_servicesVars
=============================================================================
