------------------------------ MODULE RequestRun ------------------------------
(***************************************************************************)
(* Client requests on their way through the hub (gate/src/chat.ts): from   *)
(* routing to the last byte, over one provider whose calls go through      *)
(* gate/src/upstream.ts and an adapter.                                    *)
(*                                                                         *)
(* Every `await` on the network, a timer or a slow client separates two    *)
(* actions.  How the machine is woken is NodeManager's subject, the order  *)
(* of the line PriorityLimiter's, the limits of a key Limits'.             *)
(***************************************************************************)
EXTENDS Integers, FiniteSets

CONSTANTS
  Requests,        \* requests that can be under way at once
  MaxConcurrency,  \* the provider's max_concurrency
  MaxQueue,        \* MINDGATE_QUEUE_MAX
  HasNode,         \* the provider is a machine that sleeps
  MaxChunks        \* chunks of the longest answer

ASSUME RequestAssumption ==
  /\ IsFiniteSet(Requests)
  /\ MaxConcurrency \in Nat \ {0} /\ MaxQueue \in Nat
  /\ HasNode \in BOOLEAN /\ MaxChunks \in Nat

VARIABLES
  req,    \* each request's RequestRun and its Sink
  active  \* slots of the provider that are taken

vars == <<req, active>>

(* Where a request awaits something: ensure(), acquire(), the headers of   *)
(* the upstream, a body that is read whole, the first chunk of a stream,   *)
(* a later one, and the client, which takes in a chunk, the end of the     *)
(* answer or an error event.                                               *)
Awaits == {"ensuring", "queued", "sending", "reading", "opening", "streaming",
           "writing", "closing", "failing"}

Record == [
  stage    : {"idle", "over"} \cup Awaits,
  streamed : BOOLEAN,  \* the client asked for a stream
  admitted : BOOLEAN,  \* passed routing and the limits of the key
  aborted  : BOOLEAN,  \* ac.signal.aborted: the client has gone
  again    : BOOLEAN,  \* attempt() is in its second pass
  source   : {"none", "sse", "answer", "error"},  \* what the upstream sends: events, a document, an error
  chunks   : 0..MaxChunks,  \* chunks relayed
  silent   : BOOLEAN,  \* the upstream says nothing more within idleTimeoutMs
  finished : BOOLEAN,  \* sawDone or sawFinish: the upstream has completed its answer
  headers  : BOOLEAN,  \* sink.headersSent
  content  : BOOLEAN,  \* sink.contentStarted
  usage    : BOOLEAN,  \* this.usage is not null
  ending   : {"none", "ok", "error", "gone"},  \* errorCode; "ok": null, "gone": client_closed_request
  fallback : BOOLEAN,  \* the error sent says "fallback": true
  recorded : BOOLEAN]  \* usage.record() has counted it

Idle == [stage |-> "idle", streamed |-> FALSE, admitted |-> FALSE, aborted |-> FALSE,
         again |-> FALSE, source |-> "none", chunks |-> 0, silent |-> FALSE,
         finished |-> FALSE, headers |-> FALSE, content |-> FALSE, usage |-> FALSE, ending |-> "none",
         fallback |-> FALSE, recorded |-> FALSE]

Serving == {r \in Requests :
  req[r].stage \in {"sending", "reading", "opening", "streaming", "writing", "closing"}}
Line == {r \in Requests : req[r].stage = "queued"}

-----------------------------------------------------------------------------
(* How a request ends.                                                     *)

(* Half an answer has used tokens too. *)
Charge(q) == [q EXCEPT !.usage = q.usage \/ q.content]

(* finish(). *)
Over(q, how) ==
  [q EXCEPT !.stage = "over", !.ending = how,
            !.recorded = q.admitted /\ (q.usage \/ how # "ok")]

Gone(q) == Over(Charge([q EXCEPT !.aborted = TRUE]), "gone")

(* A likely mistake: the error goes out as it came. *)
FailedAlike(q, fallback) ==
  IF q.aborted THEN {Gone(q)}
  ELSE LET e == [Charge(q) EXCEPT !.ending = "error", !.fallback = fallback]
       IN  {Over(e, "error")} \cup (IF q.headers THEN {[e EXCEPT !.stage = "failing"]} ELSE {})

(* fail(), after the `finally` of callOnce(): a plain reply, or an event    *)
(* inside the stream, which a slow client holds up.                        *)
Failed(q, fallback) ==
  IF q.aborted THEN {Gone(q)}
  ELSE LET e == [Charge(q) EXCEPT !.ending = "error", !.fallback = fallback /\ ~q.content]
       IN  {Over(e, "error")} \cup (IF q.headers THEN {[e EXCEPT !.stage = "failing"]} ELSE {})

(* The end of relayStream(): the last writes, which a slow client holds up *)
(* and a client that has gone makes fail.                                  *)
Completed(q) ==
  LET c == [q EXCEPT !.usage = TRUE]
  IN  IF q.aborted THEN {Gone(c)} ELSE {Over(c, "ok"), [c EXCEPT !.stage = "closing"]}

-----------------------------------------------------------------------------
(* Slots.                                                                  *)

(* acquire(), as it looks to the request. *)
Acquired(q) ==
  IF q.aborted THEN {Gone(q)}
  ELSE IF active < MaxConcurrency /\ Line = {} THEN {[q EXCEPT !.stage = "sending"]}
  ELSE IF Cardinality(Line) >= MaxQueue THEN Failed(q, TRUE)
  ELSE {[q EXCEPT !.stage = "queued"]}

(* Request r, which holds no slot, becomes one of Q. *)
Move(r, Q) ==
  \E q \in Q :
    /\ req' = [req EXCEPT ![r] = q]
    /\ active' = IF q.stage = "sending" THEN active + 1 ELSE active

(* Request r, which holds a slot, becomes one of Q and keeps it. *)
Hold(r, Q) == \E q \in Q : req' = [req EXCEPT ![r] = q] /\ UNCHANGED active

(* A likely mistake: the slot is given back when all went well. *)
LeaveUnlessFailed(r, Q) ==
  \E q \in Q :
    /\ req' = [req EXCEPT ![r] = q]
    /\ active' = IF q.ending = "ok" THEN active - 1 ELSE active

(* The `finally` of callOnce(): request r becomes one of Q, and its slot   *)
(* goes to a request in the line.                                          *)
Leave(r, Q) ==
  \E q \in Q :
    IF Line = {}
    THEN /\ req' = [req EXCEPT ![r] = q]
         /\ active' = active - 1
    ELSE \E next \in Line :
           /\ req' = [req EXCEPT ![r] = q, ![next].stage = "sending"]
           /\ UNCHANGED active

(* relayStream() goes on, or ends with the call. *)
GoOn(r, Q) ==
  \/ Leave(r, {q \in Q : q.stage \in {"over", "failing"}})
  \/ Hold(r, {q \in Q : q.stage \notin {"over", "failing"}})

-----------------------------------------------------------------------------
Init == req = [r \in Requests |-> Idle] /\ active = 0

(* validate(), resolve() or admit() throws: a plain error. *)
Refuse(r) ==
  /\ req[r].stage = "idle"
  /\ Move(r, Failed(Idle, FALSE))

(* Admitted.  A machine that is trusted to be up needs no look. *)
Arrive(r, streamed) ==
  /\ req[r].stage = "idle"
  /\ LET q == [Idle EXCEPT !.streamed = streamed, !.admitted = TRUE]
     IN  Move(r, Acquired(q) \cup (IF HasNode THEN {[q EXCEPT !.stage = "ensuring"]} ELSE {}))

(* The name is used for another request. *)
NewRequest(r) ==
  /\ req[r].stage = "over"
  /\ Move(r, {Idle})

(* ensure() resolves, or rejects for a machine that is not to be had. *)
EnsureSettles(r) ==
  /\ req[r].stage = "ensuring"
  /\ Move(r, Acquired(req[r]) \cup Failed(req[r], TRUE))

QueueTimeout(r) ==
  /\ req[r].stage = "queued"
  /\ Move(r, Failed(req[r], TRUE))

-----------------------------------------------------------------------------
(* The call.                                                               *)

(* The provider's key cannot be read, or it offers no embeddings. *)
CallImpossible(r) ==
  /\ req[r].stage = "sending"
  /\ Leave(r, Failed(req[r], FALSE))

(* The machine was lost: look again, once. *)
Retry(r) ==
  /\ req[r].stage = "sending" /\ HasNode
  /\ ~req[r].again /\ ~req[r].content /\ ~req[r].aborted
  /\ Leave(r, {[req[r] EXCEPT !.stage = "ensuring", !.again = TRUE]})

(* No connection, and no second chance: upstream_unreachable, or           *)
(* node_connection_lost for a machine.                                     *)
Unreachable(r) ==
  /\ req[r].stage = "sending" /\ (HasNode => req[r].again)
  /\ Leave(r, Failed(req[r], TRUE))

(* No headers within firstByteTimeoutMs. *)
SendTimesOut(r) ==
  /\ req[r].stage = "sending"
  /\ Leave(r, Failed(req[r], TRUE))

(* The headers: an error, an answer in one document (a few upstreams send  *)
(* one to a client that asked for a stream), or a stream.                  *)
HeadersArrive(r, source) ==
  /\ req[r].stage = "sending"
  /\ source = "sse" => req[r].streamed
  /\ Hold(r, {[req[r] EXCEPT !.source = source,
                             !.stage = IF source = "sse" THEN "opening" ELSE "reading"]})

(* upstreamError(), which says by the status whether another model could   *)
(* do better.                                                              *)
ErrorRead(r, fallback) ==
  /\ req[r].stage = "reading" /\ req[r].source = "error"
  /\ Leave(r, Failed(req[r], fallback))

(* The document is there.  The reply goes out whether or not the client is *)
(* still there; for a stream it is replayed as one.                        *)
AnswerRead(r) ==
  /\ req[r].stage = "reading" /\ req[r].source = "answer"
  /\ IF req[r].streamed THEN Hold(r, {[req[r] EXCEPT !.stage = "opening"]})
     ELSE Leave(r, {Over([req[r] EXCEPT !.finished = TRUE, !.usage = TRUE], "ok")})

(* It breaks off or is no answer: upstream_invalid_response, and for a     *)
(* stream, where nothing catches it, internal_error.                       *)
AnswerUnreadable(r) ==
  /\ req[r].stage = "reading" /\ req[r].source = "answer"
  /\ Leave(r, Failed(req[r], ~req[r].streamed))

BodyOver(r) == (\E fallback \in BOOLEAN : ErrorRead(r, fallback)) \/ AnswerRead(r) \/ AnswerUnreadable(r)

-----------------------------------------------------------------------------
(* The stream, relayStream().  A comment of the upstream changes nothing,  *)
(* but it is not silence.                                                  *)

Relaying(r) == req[r].stage \in {"opening", "streaming"}

(* Something comes of the stream, or of the document replayed as one. *)
Hears(r) == Relaying(r) /\ ~req[r].silent

(* A chunk.  One that only reports usage is not shown to a client that did *)
(* not ask for it; one with a finish_reason completes the answer.          *)
Chunk(r, shown, finish) ==
  /\ Hears(r) /\ req[r].chunks < MaxChunks
  /\ LET q == [req[r] EXCEPT !.chunks = @ + 1, !.headers = TRUE,
                             !.content = @ \/ shown, !.finished = @ \/ finish]
     IN  GoOn(r, IF shown /\ q.aborted THEN {Gone(q)}
                 ELSE {[q EXCEPT !.stage = "streaming"]}
                      \cup (IF shown THEN {[q EXCEPT !.stage = "writing"]} ELSE {}))

(* [DONE], or the end of a document: without any chunk it is no answer. *)
StreamDone(r) ==
  /\ Hears(r)
  /\ GoOn(r, IF req[r].stage = "opening" THEN Failed(req[r], TRUE)
             ELSE Completed([req[r] EXCEPT !.finished = TRUE]))

(* A likely mistake: a connection that closes has said all. *)
EofIsDone(r) ==
  /\ Hears(r) /\ req[r].source = "sse"
  /\ GoOn(r, IF req[r].stage = "opening" THEN Failed(req[r], TRUE) ELSE Completed(req[r]))

(* The connection closes without [DONE]. *)
StreamEof(r) ==
  /\ Hears(r) /\ req[r].source = "sse"
  /\ GoOn(r, IF req[r].finished THEN Completed(req[r]) ELSE Failed(req[r], TRUE))

(* The connection breaks, or the upstream reports an error; or a document  *)
(* cannot be replayed, which nothing catches: internal_error.              *)
StreamBreaks(r) ==
  /\ Hears(r)
  /\ Leave(r, Failed(req[r], req[r].source = "sse"))

(* The upstream goes silent for longer than it may. *)
FallSilent(r) ==
  /\ Hears(r) /\ req[r].source = "sse"
  /\ Hold(r, {[req[r] EXCEPT !.silent = TRUE]})

(* A likely mistake: the timer stops with the first chunk. *)
SilentBeforeFirst(r) ==
  /\ req[r].stage = "opening" /\ req[r].silent
  /\ Leave(r, Failed(req[r], TRUE))

(* The limit on silence, which every byte, a comment's too, sets anew. *)
StreamSilent(r) ==
  /\ Relaying(r) /\ req[r].silent
  /\ Leave(r, Failed(req[r], TRUE))

-----------------------------------------------------------------------------
(* The client.                                                             *)

(* It has taken in what was written. *)
Drained(r) ==
  \/ req[r].stage = "writing" /\ Hold(r, {[req[r] EXCEPT !.stage = "streaming"]})
  \/ req[r].stage = "closing" /\ Leave(r, {Over(req[r], "ok")})
  \/ req[r].stage = "failing" /\ Move(r, {Over(req[r], "error")})

(* It hangs up.  A health check goes on and so does the reading of a body, *)
(* because send() stops listening once the headers are in; a wait for a    *)
(* wake, a slot, headers, a chunk or the client itself ends.  (A stream    *)
(* that is given up after its finish_reason counts as used.)               *)
Abort(r) ==
  /\ req[r].stage \in Awaits /\ ~req[r].aborted
  /\ \/ /\ req[r].stage \in {"ensuring", "reading"} \/ (Relaying(r) /\ req[r].source = "answer")
        /\ Hold(r, {[req[r] EXCEPT !.aborted = TRUE]})
     \/ /\ req[r].stage \in {"ensuring", "queued"}
        /\ Move(r, {Gone(req[r])})
     \/ /\ req[r].stage \in {"sending", "writing", "closing"} \/ (Relaying(r) /\ req[r].source = "sse")
        /\ Leave(r, {Gone([req[r] EXCEPT !.usage = @ \/ req[r].finished])})
     \/ /\ req[r].stage = "failing"
        /\ Move(r, {Over([req[r] EXCEPT !.aborted = TRUE], "error")})

(* The timer of startKeepalive() opens the stream with a comment. *)
KeepAlive(r) ==
  /\ req[r].stage \in Awaits /\ req[r].streamed
  /\ ~req[r].aborted /\ ~req[r].headers
  /\ req' = [req EXCEPT ![r].headers = TRUE]
  /\ UNCHANGED active

-----------------------------------------------------------------------------
Next ==
  \E r \in Requests :
    \/ Refuse(r)
    \/ \E streamed \in BOOLEAN : Arrive(r, streamed)
    \/ NewRequest(r)
    \/ EnsureSettles(r)
    \/ QueueTimeout(r)
    \/ CallImpossible(r)
    \/ Retry(r)
    \/ Unreachable(r)
    \/ SendTimesOut(r)
    \/ \E source \in {"sse", "answer", "error"} : HeadersArrive(r, source)
    \/ BodyOver(r)
    \/ \E shown, finish \in BOOLEAN : Chunk(r, shown, finish)
    \/ StreamDone(r)
    \/ StreamEof(r)
    \/ StreamBreaks(r)
    \/ FallSilent(r)
    \/ StreamSilent(r)
    \/ Drained(r)
    \/ Abort(r)
    \/ KeepAlive(r)

Spec == Init /\ [][Next]_vars

(* A document is replayed without waiting for anybody. *)
Replay(r) == req[r].source = "answer" /\ StreamDone(r)

(* What the code sees to: ensure() settles (NodeManager), the deadline for *)
(* the headers and the limit on silence pass, and a replay goes on.        *)
(* Nothing is assumed of clients and upstreams.                            *)
Timers ==
  \A r \in Requests :
    /\ WF_vars(EnsureSettles(r))
    /\ WF_vars(SendTimesOut(r))
    /\ WF_vars(StreamSilent(r))
    /\ WF_vars(Replay(r))

FairSpec == Spec /\ Timers

-----------------------------------------------------------------------------
TypeOK == req \in [Requests -> Record] /\ active \in Nat

(* Every slot taken is held by a request that is being served, through     *)
(* retries, failures, aborts and slow clients; a request waits only while  *)
(* all are taken.                                                          *)
SlotsExact ==
  /\ active = Cardinality(Serving) /\ active <= MaxConcurrency
  /\ Line # {} => active = MaxConcurrency

(* The answer the client sees comes from one call: once any of it is out,  *)
(* nothing is asked of the upstream again, and only one call is repeated.  *)
OneAnswer ==
  \A r \in Requests :
    /\ req[r].content => req[r].stage \notin {"ensuring", "queued", "sending", "reading"}
    /\ req[r].stage \notin {"failing", "over"} => req[r].ending = "none"
    /\ req[r].stage \in {"ensuring", "queued", "sending"} => req[r].source = "none" /\ ~req[r].finished

(* "When an answer is already streaming and the provider breaks off, the   *)
(* stream ends with an error event without the flag" (docs/01-gate.md):    *)
(* the flag is never seen after a part of an answer.                       *)
FlagOnlyBefore ==
  \A r \in Requests :
    req[r].fallback => ~req[r].content /\ req[r].ending = "error" /\ req[r].admitted

(* An answer that the client and the log take for complete is one the      *)
(* upstream has completed.                                                 *)
CompleteIsComplete == \A r \in Requests : req[r].ending = "ok" => req[r].finished /\ req[r].usage

(* Whatever was admitted is counted when it ends, with tokens if any part  *)
(* of an answer went out, and nothing else is.                             *)
Accounted ==
  \A r \in Requests :
    req[r].stage = "over" => /\ req[r].recorded = req[r].admitted
                             /\ req[r].content => req[r].usage

(* No stream is opened for a client that did not ask for one, and a client *)
(* that has gone is known to be where only the network is waited for.      *)
Streams ==
  \A r \in Requests :
    /\ req[r].headers => req[r].streamed
    /\ req[r].stage \in Awaits => req[r].admitted
    /\ req[r].stage \in Awaits /\ req[r].aborted =>
         \/ req[r].stage \in {"ensuring", "reading"}
         \/ Relaying(r) /\ req[r].source = "answer"
    /\ req[r].stage \in {"opening", "streaming", "writing", "closing"} => req[r].streamed
    /\ req[r].stage = "failing" => req[r].ending = "error" /\ (req[r].content => req[r].usage)
    /\ req[r].stage = "over" => req[r].ending # "none"
    /\ req[r].stage = "closing" => req[r].finished /\ req[r].usage

RequestInv ==
  /\ TypeOK
  /\ SlotsExact
  /\ OneAnswer
  /\ FlagOnlyBefore
  /\ CompleteIsComplete
  /\ Accounted
  /\ Streams

(* What the client of a request has seen. *)
Seen(q) ==
  CASE q.stage = "idle" -> "none"
    [] q.ending = "ok" -> "complete"
    [] q.ending = "gone" -> "gone"
    [] q.ending = "error" -> IF q.fallback THEN "elsewhere" ELSE "error"
    [] OTHER -> IF q.content THEN "part" ELSE "waiting"

Promise == INSTANCE ClientExchange WITH seen <- [r \in Requests |-> Seen(req[r])]

(* Every request keeps the promise of ClientExchange. *)
KeepsPromise == Promise!Spec

(* The waits that the code puts no end to: for the rest of a body that is  *)
(* read whole (upstream.ts:97), for a stream that goes on, be it by        *)
(* comments alone (upstream.ts:268), and for a client that takes in what   *)
(* it is sent.                                                             *)
Held(r) ==
  \/ req[r].stage \in {"reading", "writing", "closing", "failing"}
  \/ Hears(r) /\ req[r].source = "sse"

(* As long as neither upstream nor client holds a request for ever, every  *)
(* request ends: no wait of the hub's own, no retry, no other request and  *)
(* no silence keeps one.                                                   *)
EveryRequestOver ==
  (\A r \in Requests : []<>~Held(r)) =>
    \A r \in Requests : req[r].stage \in Awaits ~> req[r].stage = "over"
=============================================================================
