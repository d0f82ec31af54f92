--------------------------- MODULE UpstreamStream ---------------------------
(***************************************************************************)
(* One streamed call to an upstream: the fiber that reads the response,    *)
(* the fiber that sends the request body, the channel they share with the  *)
(* worker, and what Envoy reports of the stream.                           *)
(*                                                                         *)
(* A callback of the worker is a list of steps, `worker`, of which each    *)
(* touches the channel once; what the callback does to the OpenStream only *)
(* the worker sees, and is done with its first step.  Closing the channel  *)
(* is such a list too, `closing`, run by the fiber that has the thread.    *)
(* The doorbell of the reactor is in ResponsePath and Reactor.             *)
(***************************************************************************)
EXTENDS ResponseStream, FiniteSets

CONSTANTS
  ResponseBytes,  \* bound: length of the longest response body
  RequestBytes,   \* length of the request body, where there is one
  Modes           \* of the calls: "plain", with a "body", asking for a "protocol"

ASSUME BytesAssumption ==
  /\ ResponseBytes \in Nat /\ RequestBytes \in Nat \ {0}
  /\ Modes \subseteq {"plain", "body", "protocol"}

VARIABLES
  response, request,        \* the two queues of the StreamChannel
  resetWanted, timedOut, trailers,
  closed, queued,           \* Calls: the route is closed, the call is queued
  event,                    \* UPSTREAM_EVENT_ID is committed and not delivered
  owed,                     \* which of the two queues are in Wakeups
  worker,                   \* what the worker has left to do in its callback
  stream,                   \* the OpenStream
  envoy,                    \* Envoy's side: "none", "open", "over"
  phase,                    \* of the response: "none", "body", "trailers", "ended"
  reported,                 \* bytes of the response Envoy reported ...
  accepted,                 \* ... and bytes queued
  uploaded,                 \* bytes of the request body handed to Envoy
  counted,                  \* what upstream_calls_total was told
  stop,                     \* the reader's request is gone and its fiber is stopped
  cpu, reactor, resolving,  \* the Ruby thread: who has it, and the reactor's pass
  pc,                       \* where the two fibers are
  closing,                  \* what is left of a close of the channel
  mode,                     \* of this call
  loop,                     \* what the reader does after a wait: "head" or "pull"
  got,                      \* bytes the reader has
  written,                  \* bytes of the request body queued
  result                    \* how the exchange ended for the reader

channelVars == <<response, request, resetWanted, timedOut, trailers>>
routeVars == <<closed, queued, event, owed>>
workerVars == <<worker, stream, envoy, phase, reported, accepted, uploaded, counted, stop>>
rubyVars == <<cpu, reactor, resolving, pc, closing, mode, loop, got, written, result>>
vars == <<channelVars, routeVars, workerVars, rubyVars>>

Fibers == {"reader", "upload"}

\* OpenStream::new, and what it was before that.
NoStream ==
  [ state |-> "none", outcome |-> "none", request_ended |-> FALSE,
    response_ended |-> FALSE, reset_sent |-> FALSE, upgraded |-> FALSE ]

Init ==
  /\ response = EmptyStream /\ request = EmptyStream
  /\ resetWanted = FALSE /\ timedOut = FALSE /\ trailers = FALSE
  /\ closed = FALSE /\ queued = FALSE /\ event = FALSE /\ owed = {}
  /\ worker = << >> /\ stream = NoStream /\ envoy = "none" /\ phase = "none"
  /\ reported = 0 /\ accepted = 0 /\ uploaded = 0 /\ counted = << >> /\ stop = FALSE
  /\ cpu = "reader" /\ reactor = "wait" /\ resolving = {}
  /\ pc = [reader |-> "call", upload |-> "none"]
  /\ closing = << >> /\ mode \in Modes /\ loop = "head"
  /\ got = 0 /\ written = 0 /\ result = "none"

-----------------------------------------------------------------------------
(* What the worker's callbacks are made of. *)

\* Mutant of WakeStream: the reader is forgotten.
WakeWriterOnly == <<"oweWriter">>

\* wake_stream
WakeStream == <<"oweReader", "oweWriter">>

\* StreamChannel::fail
Fail == <<"pushFailure", "cancelRequest", "wantReset">>

When(condition, steps) == IF condition THEN steps ELSE << >>

\* outcome.get_or_insert(outcome)
Settled(s, outcome) == [s EXCEPT !.outcome = IF @ = "none" THEN outcome ELSE @]

\* end and fail: the response is over, and how.
Over(s, outcome) == Settled([s EXCEPT !.response_ended = TRUE], outcome)

\* stopped_by_fiber
StoppedByFiber ==
  IF timedOut THEN "timed_out" ELSE IF stream.upgraded THEN "completed" ELSE "abandoned"

\* Envoy calls back when the worker does nothing else, or from inside a call
\* of the worker's, and only for a stream it has not reported finished.
Reported == envoy = "open" /\ (worker # << >> => Head(worker) = "inside")

\* on_http_stream_headers, headers_arrived: any 101 upgrades the stream, asked
\* for or not.
HeadersArrived ==
  /\ Reported /\ phase = "none"
  /\ \E valid, upgrade, end \in BOOLEAN :
       /\ upgrade => valid
       /\ phase' = IF end THEN "ended" ELSE "body"
       /\ IF stream.response_ended
          THEN /\ worker' = WakeStream \o worker
               /\ stream' = stream
          ELSE IF ~valid
          THEN /\ worker' = Fail \o WakeStream \o worker
               /\ stream' = Over(stream, "reset")
          ELSE /\ worker' = <<"pushHead">> \o When(end, <<"pushEnd">>) \o WakeStream \o worker
               /\ LET head == [stream EXCEPT !.upgraded = upgrade]
                  IN  stream' = IF end THEN Over(head, "completed") ELSE head
  /\ UNCHANGED <<channelVars, routeVars, envoy, reported, accepted, uploaded, counted, stop, rubyVars>>

\* push_chunk_if_room answers Some(true), or nothing was sent.
Fits(n) == n = 0 \/ HasRoom(response, n)

\* on_http_stream_data, data_arrived
DataArrived ==
  /\ Reported /\ phase = "body"
  /\ \E n \in 0 .. ResponseBytes - reported, end \in BOOLEAN :
       /\ n > 0 \/ end
       /\ phase' = IF end THEN "ended" ELSE "body"
       /\ reported' = reported + n
       /\ IF stream.response_ended
          THEN /\ worker' = WakeStream \o worker
               /\ UNCHANGED <<stream, response, accepted>>
          ELSE IF n > 0 /\ Refuses(response)
          THEN /\ worker' = <<"stopped">> \o WakeStream \o worker
               /\ stream' = [stream EXCEPT !.response_ended = TRUE]
               /\ UNCHANGED <<response, accepted>>
          ELSE IF ~Fits(n)
          THEN /\ worker' = Fail \o WakeStream \o <<"wakeSelf">> \o worker
               /\ stream' = Over(stream, "overflow")
               /\ UNCHANGED <<response, accepted>>
          ELSE /\ worker' = When(end, <<"pushEnd">>) \o WakeStream \o worker
               /\ stream' = IF end THEN Over(stream, "completed") ELSE stream
               /\ response' = IF n > 0 THEN Push(response, Item("chunk", accepted, accepted + n))
                                       ELSE response
               /\ accepted' = accepted + n
  /\ UNCHANGED <<request, resetWanted, timedOut, trailers, routeVars, envoy, uploaded,
                 counted, stop, rubyVars>>

\* Mutant of TrailersSteps: the end overtakes the trailers.
TrailersLate == <<"pushEnd", "setTrailers">>

TrailersSteps == <<"setTrailers", "pushEnd">>

\* on_http_stream_trailers, trailers_arrived
TrailersArrived ==
  /\ Reported /\ phase = "body"
  /\ phase' = "trailers"
  /\ worker' = When(~stream.response_ended, TrailersSteps) \o WakeStream \o worker
  /\ stream' = IF stream.response_ended THEN stream ELSE Over(stream, "completed")
  /\ UNCHANGED <<channelVars, routeVars, envoy, reported, accepted, uploaded, counted, stop, rubyVars>>

\* gone, and the end of every callback that takes the stream out of the table.
Gone == <<"cancelRequest">> \o WakeStream \o <<"count">>

\* Mutant of Complete: the stream stays in the table.
CompleteKept ==
  /\ stream' = IF stream.response_ended THEN stream ELSE Over(stream, "completed")
  /\ worker' = When(~stream.response_ended, <<"pushEnd">>) \o Gone \o worker

\* completed
Complete ==
  /\ stream' = [ (IF stream.response_ended THEN stream ELSE Over(stream, "completed"))
                 EXCEPT !.state = "gone" ]
  /\ worker' = When(~stream.response_ended, <<"pushEnd">>) \o Gone \o worker

\* on_http_stream_complete
OnComplete ==
  /\ Reported
  /\ envoy' = "over"
  /\ Complete
  /\ UNCHANGED <<channelVars, routeVars, phase, reported, accepted, uploaded, counted, stop, rubyVars>>

\* on_http_stream_reset, reset_by_envoy; an overflow is Envoy's, of its pool.
OnReset ==
  /\ Reported
  /\ envoy' = "over"
  /\ \/ stream.upgraded /\ ~stream.reset_sent /\ Complete
     \/ /\ ~(stream.upgraded /\ ~stream.reset_sent)
        /\ \E overflow \in BOOLEAN :
             LET asked == IF stream.reset_sent THEN Settled(stream, StoppedByFiber) ELSE stream
                 pool  == IF overflow THEN Settled(asked, "refused") ELSE asked
             IN  stream' = [ (IF stream.response_ended THEN pool ELSE Over(pool, "reset"))
                             EXCEPT !.state = "gone" ]
        /\ worker' = When(~stream.response_ended, Fail) \o Gone \o worker
  /\ UNCHANGED <<channelVars, routeVars, phase, reported, accepted, uploaded, counted, stop, rubyVars>>

\* Mutant of Abandoned: what was queued and never sent is forgotten.
AbandonedSent ==
  /\ stream' = [ (IF stream.response_ended THEN stream ELSE Over(stream, "abandoned"))
                 EXCEPT !.state = "gone" ]
  /\ worker' = IF stream.state = "open"
               THEN When(~stream.response_ended, Fail) \o Gone ELSE << >>

\* What abandon_upstreams does with a stream that was never sent, or is open.
Abandoned ==
  IF queued
  THEN /\ stream' = [Settled(stream, "abandoned") EXCEPT !.state = "gone"]
       /\ worker' = Fail \o WakeStream \o <<"count">>
  ELSE IF stream.state = "open"
  THEN /\ stream' = [ Over(stream, IF stream.upgraded THEN "completed" ELSE "abandoned")
                      EXCEPT !.state = "gone" ]
       /\ worker' = When(~stream.response_ended, Fail) \o Gone
  ELSE UNCHANGED <<stream, worker>>

\* on_stream_complete, and Drop after it: Envoy cancels what it sent without
\* reporting back.  A fiber whose response was not over is stopped too.
OnStreamComplete ==
  /\ worker = << >> /\ ~closed
  /\ closed' = TRUE /\ queued' = FALSE
  /\ envoy' = "over"
  /\ stop' \in BOOLEAN
  /\ Abandoned
  /\ UNCHANGED <<channelVars, event, owed, phase, reported, accepted, uploaded, counted, rubyVars>>

\* on_scheduled(UPSTREAM_EVENT_ID), send_upstream_calls
OnScheduled ==
  /\ worker = << >> /\ event
  /\ event' = FALSE
  /\ worker' = IF closed THEN << >> ELSE IF queued THEN <<"start", "pump">> ELSE <<"pump">>
  /\ queued' = FALSE
  /\ UNCHANGED <<channelVars, closed, owed, stream, envoy, phase, reported, accepted, uploaded,
                 counted, stop, rubyVars>>

-----------------------------------------------------------------------------
(* The worker's steps. *)

At(step) == worker # << >> /\ Head(worker) = step

Rest == Tail(worker)

\* The steps that do one thing to the channel.
TouchChannel ==
  /\ \/ At("pushHead") /\ response' = Push(response, Item("head", accepted, accepted))
                       /\ UNCHANGED <<request, resetWanted, trailers>>
     \/ At("pushEnd") /\ response' = Push(response, Item("end", accepted, accepted))
                      /\ UNCHANGED <<request, resetWanted, trailers>>
     \/ At("pushFailure") /\ response' = Push(response, Item("failed", accepted, accepted))
                          /\ UNCHANGED <<request, resetWanted, trailers>>
     \/ At("cancelRequest") /\ request' = Cancel(request)
                            /\ UNCHANGED <<response, resetWanted, trailers>>
     \/ At("wantReset") /\ resetWanted' = TRUE /\ UNCHANGED <<response, request, trailers>>
     \/ At("setTrailers") /\ trailers' = TRUE /\ UNCHANGED <<response, request, resetWanted>>
  /\ worker' = Rest
  /\ UNCHANGED <<timedOut, routeVars, stream, envoy, phase, reported, accepted, uploaded, counted,
                 stop, rubyVars>>

\* The steps that tell somebody.
Tell ==
  /\ \/ At("oweReader") /\ owed' = owed \cup {"response"} /\ UNCHANGED event
     \/ /\ At("oweWriter")
        /\ owed' = IF WriterOwedWakeup(request) THEN owed \cup {"request"} ELSE owed
        /\ UNCHANGED event
     \/ At("wakeSelf") /\ event' = TRUE /\ UNCHANGED owed
  /\ worker' = Rest
  /\ UNCHANGED <<channelVars, closed, queued, stream, envoy, phase, reported, accepted, uploaded,
                 counted, stop, rubyVars>>

\* The fiber closed the stream while data came in.
Stopped ==
  /\ At("stopped")
  /\ stream' = Settled(stream, StoppedByFiber)
  /\ worker' = Rest
  /\ UNCHANGED <<channelVars, routeVars, envoy, phase, reported, accepted, uploaded, counted, stop, rubyVars>>

\* count_call
Count ==
  /\ At("count")
  /\ counted' = Append(counted, IF stream.outcome = "none" THEN "abandoned" ELSE stream.outcome)
  /\ worker' = Rest
  /\ UNCHANGED <<channelVars, routeVars, stream, envoy, phase, reported, accepted, uploaded, stop, rubyVars>>

\* start: a stream the fiber has closed by now is skipped.
Start ==
  /\ At("start")
  /\ worker' = (IF resetWanted THEN <<"count">> ELSE <<"first">>) \o Rest
  /\ stream' = IF resetWanted THEN [Settled(stream, "abandoned") EXCEPT !.state = "gone"] ELSE stream
  /\ UNCHANGED <<channelVars, routeVars, envoy, phase, reported, accepted, uploaded, counted, stop, rubyVars>>

TakesEnd == CanTake(request) /\ Head(request.items).kind = "end"

Taken == IF CanTake(request) THEN Size(Head(request.items)) ELSE 0

\* start_http_stream goes out with what there is of the body, or is refused.
First ==
  /\ At("first")
  /\ request' = TakeNext(request)
  /\ \/ /\ stream' = [stream EXCEPT !.state = "open", !.request_ended = TakesEnd]
        /\ envoy' = "open"
        /\ worker' = Rest
     \/ /\ stream' = [Settled(stream, "refused") EXCEPT !.state = "gone"]
        /\ worker' = Fail \o WakeStream \o <<"count">> \o Rest
        /\ UNCHANGED envoy
  /\ uploaded' = uploaded + Taken
  /\ UNCHANGED <<response, resetWanted, timedOut, trailers, routeVars, phase, reported, accepted,
                 counted, stop, rubyVars>>

\* pump_streams, next_action: a wanted reset comes before the body.
Pump ==
  /\ At("pump")
  /\ LET resets == resetWanted /\ ~stream.reset_sent
     IN  /\ worker' = (IF stream.state # "open" THEN << >>
                       ELSE IF resets THEN <<"inside", "pump">>
                       ELSE IF resetWanted \/ stream.request_ended THEN <<"owePump">>
                       ELSE <<"send">>) \o Rest
         /\ stream' = [stream EXCEPT !.reset_sent = @ \/ (stream.state = "open" /\ resets)]
  /\ UNCHANGED <<channelVars, routeVars, envoy, phase, reported, accepted, uploaded, counted, stop, rubyVars>>

\* send_http_stream_data, of a piece or the end; until there is none.
Send ==
  /\ At("send")
  /\ request' = TakeNext(request)
  /\ uploaded' = uploaded + Taken
  /\ stream' = [stream EXCEPT !.request_ended = TakesEnd]
  /\ worker' = (IF CanTake(request) THEN <<"inside", "pump">> ELSE <<"owePump">>) \o Rest
  /\ UNCHANGED <<response, resetWanted, timedOut, trailers, routeVars, envoy, phase, reported, accepted,
                 counted, stop, rubyVars>>

\* Envoy's call returns.
Return ==
  /\ At("inside")
  /\ worker' = Rest
  /\ UNCHANGED <<channelVars, routeVars, stream, envoy, phase, reported, accepted, uploaded, counted,
                 stop, rubyVars>>

\* Mutant of OwePump: nobody waits for room.
OwePumpNobody ==
  /\ At("owePump")
  /\ worker' = Rest
  /\ UNCHANGED <<channelVars, routeVars, stream, envoy, phase, reported, accepted, uploaded,
                 counted, stop, rubyVars>>

\* The piece taken made room for the fiber that writes the body.
OwePump ==
  /\ At("owePump")
  /\ owed' = IF WriterOwedWakeup(request) THEN owed \cup {"request"} ELSE owed
  /\ worker' = Rest
  /\ UNCHANGED <<channelVars, closed, queued, event, stream, envoy, phase, reported, accepted, uploaded,
                 counted, stop, rubyVars>>

-----------------------------------------------------------------------------
(* Closing the channel, on the Ruby thread. *)

\* Mutant of Close: the worker is woken before it can see the reason.
CloseWakesEarly == <<"cancelResponse", "cancelRequest", "wakeWorker", "wantReset">>

\* UpstreamChannelObject::close, StreamChannel::close
Close == <<"cancelResponse", "cancelRequest", "wantReset", "wakeWorker">>

TimeOut == <<"timedOut">> \o Close

CloseStep ==
  /\ closing # << >> /\ closing' = Tail(closing)
  /\ response' = IF Head(closing) = "cancelResponse" THEN Cancel(response) ELSE response
  /\ request' = IF Head(closing) = "cancelRequest" THEN Cancel(request)
                ELSE IF Head(closing) = "finish" THEN Push(request, Item("end", written, written))
                ELSE request
  /\ resetWanted' = (resetWanted \/ Head(closing) = "wantReset")
  /\ timedOut' = (timedOut \/ Head(closing) = "timedOut")
  /\ event' = (event \/ Head(closing) = "wakeWorker")
  /\ UNCHANGED <<trailers, closed, queued, owed, workerVars, cpu, reactor, resolving, pc, mode,
                 loop, got, written, result>>

-----------------------------------------------------------------------------
(* The fibers. *)

FiberAt(f, where) == cpu = f /\ closing = << >> /\ pc[f] = where

Goto(f, where) == pc' = [pc EXCEPT ![f] = where]

\* open_stream: queued for the worker, with its end if it has no body ...
OpenStream ==
  /\ FiberAt("reader", "call")
  /\ IF closed
     THEN Goto("reader", "done") /\ result' = "refused" /\ UNCHANGED <<request, queued>>
     ELSE /\ Goto("reader", "wake") /\ queued' = TRUE /\ UNCHANGED result
          /\ request' = IF mode = "plain" THEN Push(request, Item("end", 0, 0)) ELSE request
  /\ UNCHANGED <<response, resetWanted, timedOut, trailers, closed, event, owed, workerVars,
                 cpu, reactor, resolving, closing, mode, loop, got, written>>

\* ... then the worker is woken, and a body goes up in a fiber of its own.
WakeWorker ==
  /\ FiberAt("reader", "wake")
  /\ event' = TRUE
  /\ pc' = [reader |-> "head", upload |-> IF mode = "body" THEN "write" ELSE "none"]
  /\ cpu' = IF mode = "body" THEN "upload" ELSE "reader"
  /\ UNCHANGED <<channelVars, closed, queued, owed, workerVars, reactor, resolving, closing,
                 mode, loop, got, written, result>>

\* UpstreamBody#head: an accepted upgrade starts the relay, whose other
\* direction writes; a refused one ends the request body.
ReadHead ==
  /\ FiberAt("reader", "head")
  /\ response' = TakeNext(response)
  /\ IF CanTake(response) /\ Head(response.items).kind = "head"
     THEN /\ pc' = [ reader |-> IF mode = "protocol" /\ ~stream.upgraded THEN "finish" ELSE "app",
                     upload |-> IF mode = "protocol" /\ stream.upgraded THEN "write" ELSE pc.upload ]
          /\ loop' = "pull" /\ UNCHANGED result
     ELSE IF CanTake(response) \/ response.cancelled
     THEN /\ Goto("reader", "close")
          /\ result' = IF CanTake(response) THEN "failed" ELSE "closed"
          /\ UNCHANGED loop
     ELSE Goto("reader", "park") /\ UNCHANGED <<result, loop>>
  /\ UNCHANGED <<request, resetWanted, timedOut, trailers, routeVars, workerVars, cpu, reactor,
                 resolving, closing, mode, got, written>>

\* The application goes on reading, stops early, or does something else.
ReadOn ==
  /\ FiberAt("reader", "app")
  /\ \/ Goto("reader", "pull") /\ UNCHANGED <<result, cpu>>
     \/ Goto("reader", "close") /\ result' = "broke off" /\ UNCHANGED cpu
     \/ cpu' = "reactor" /\ UNCHANGED <<pc, result>>
  /\ UNCHANGED <<channelVars, routeVars, workerVars, reactor, resolving, closing, mode, loop,
                 got, written>>

\* next_chunk
Pull ==
  /\ FiberAt("reader", "pull")
  /\ response' = TakeNext(response)
  /\ LET kind == IF CanTake(response) THEN Head(response.items).kind ELSE "nothing"
     IN  /\ Goto("reader", CASE kind = "chunk" -> "app"
                             [] kind = "failed" -> "close"
                             [] OTHER -> "check")
         /\ result' = IF kind = "failed" THEN "failed" ELSE result
         /\ got' = IF kind = "chunk" THEN Head(response.items).upto ELSE got
  /\ UNCHANGED <<request, resetWanted, timedOut, trailers, routeVars, workerVars, cpu, reactor,
                 resolving, closing, mode, loop, written>>

FailureQueued == \E i \in 1 .. Len(response.items) : response.items[i].kind = "failed"

\* What `each` takes for the end of the response; the names tell apart what it
\* does not.
Ends == {"eof", "cut", "missed"}

\* @finished = @reader.finished?, true of a queue that was closed as well, and
\* of one that a failure came into after next_chunk answered nil.
Check ==
  /\ FiberAt("reader", "check")
  /\ Goto("reader", IF IsFinished(response) THEN "close" ELSE "park")
  /\ result' = IF ~IsFinished(response) THEN result
                ELSE IF response.cancelled THEN "cut"
                ELSE IF FailureQueued THEN "missed" ELSE "eof"
  /\ UNCHANGED <<channelVars, routeVars, workerVars, cpu, reactor, resolving, closing, mode,
                 loop, got, written>>

\* Park.on(@reader, @idle_timeout)
ParkReader ==
  /\ FiberAt("reader", "park")
  /\ response' = Park(response, "reader")
  /\ Goto("reader", IF MayPark(response) THEN "parked" ELSE loop)
  /\ cpu' = IF MayPark(response) THEN "reactor" ELSE cpu
  /\ UNCHANGED <<request, resetWanted, timedOut, trailers, routeVars, workerVars, reactor,
                 resolving, closing, mode, loop, got, written, result>>

\* ensure queue.unpark; then the wait is over, timed out, or stopped.
WaitEnds ==
  /\ \E why \in {"resumed", "timeout", "stopping"} :
       /\ FiberAt("reader", why)
       /\ Goto("reader", IF why = "resumed" THEN loop ELSE "close")
       /\ result' = IF why = "resumed" THEN result ELSE why
       /\ closing' = IF why = "timeout" THEN TimeOut ELSE << >>
  /\ response' = Unpark(response)
  /\ UNCHANGED <<request, resetWanted, timedOut, trailers, routeVars, workerVars, cpu, reactor,
                 resolving, mode, loop, got, written>>

Uploading == pc.upload \notin {"none", "done"}

\* The response is a Ruvoy::UpstreamStream, being relayed.
Relaying == loop = "pull" /\ mode = "protocol" /\ stream.upgraded

\* close: the upload is stopped, and the channel closed if either direction
\* was not over.  An upgraded stream ends its own side first, and is closed
\* by the relay once both directions have ended, or by the failure of one.
CloseBody ==
  /\ FiberAt("reader", "close")
  /\ Relaying /\ result \in Ends => ~Uploading
  /\ pc' = [reader |-> "done", upload |-> IF Uploading THEN "done" ELSE pc.upload]
  /\ request' = IF Uploading THEN Unpark(request) ELSE request
  /\ closing' = When(Relaying /\ Uploading, <<"finish", "wakeWorker">>)
                \o When(Relaying \/ Uploading \/ result \notin Ends, Close)
  /\ UNCHANGED <<response, resetWanted, timedOut, trailers, routeVars, workerVars, cpu, reactor,
                 resolving, mode, loop, got, written, result>>

\* upload: behind its first piece the body is read from a source that makes it
\* wait, or fails.  A relay waits for the client at any point.
ReadRest ==
  /\ FiberAt("upload", "write") /\ written < RequestBytes /\ (written = 0 => mode = "protocol")
  /\ \/ cpu' = "reactor" /\ UNCHANGED <<pc, closing>>
     \/ /\ mode = "body"
        /\ Goto("upload", "done") /\ closing' = Close /\ UNCHANGED cpu
  /\ UNCHANGED <<channelVars, routeVars, workerVars, reactor, resolving, mode, loop, got, written, result>>

\* Stream.write: Park.on(sink) unless sink.writable?, then sink.write
Write ==
  /\ FiberAt("upload", "write")
  /\ Goto("upload", IF written = RequestBytes THEN "finish"
                    ELSE IF IsSaturated(request) THEN "park" ELSE "push")
  /\ UNCHANGED <<channelVars, routeVars, workerVars, cpu, reactor, resolving, closing, mode,
                 loop, got, written, result>>

\* The client's side of an upgraded stream may end at any point.
WriteEnds ==
  /\ FiberAt("upload", "write") /\ mode = "protocol"
  /\ Goto("upload", "finish")
  /\ UNCHANGED <<channelVars, routeVars, workerVars, cpu, reactor, resolving, closing, mode,
                 loop, got, written, result>>

PushPiece ==
  /\ FiberAt("upload", "push")
  /\ LET taken == IF Refuses(request) THEN 0 ELSE TakenWithinBudget(request, RequestBytes - written)
     IN  /\ request' = PushChunkWithinBudget(request, written, RequestBytes)
         /\ written' = written + taken
         /\ Goto("upload", IF Refuses(request) THEN "finish" ELSE IF taken > 0 THEN "wake" ELSE "write")
  /\ UNCHANGED <<response, resetWanted, timedOut, trailers, routeVars, workerVars, cpu, reactor,
                 resolving, closing, mode, loop, got, result>>

\* ChunkSink#write and ChunkSink#finish wake the worker.
PieceWakes ==
  /\ FiberAt("upload", "wake")
  /\ event' = TRUE
  /\ Goto("upload", "write")
  /\ UNCHANGED <<channelVars, closed, queued, owed, workerVars, cpu, reactor, resolving, closing,
                 mode, loop, got, written, result>>

ParkUpload ==
  /\ FiberAt("upload", "park")
  /\ request' = ParkWriter(request, "upload")
  /\ Goto("upload", IF MayParkWriter(request) THEN "parked" ELSE "push")
  /\ cpu' = IF MayParkWriter(request) THEN "reactor" ELSE cpu
  /\ UNCHANGED <<response, resetWanted, timedOut, trailers, routeVars, workerVars, reactor,
                 resolving, closing, mode, loop, got, written, result>>

UploadResumes ==
  /\ FiberAt("upload", "resumed")
  /\ request' = Unpark(request)
  /\ Goto("upload", "push")
  /\ UNCHANGED <<response, resetWanted, timedOut, trailers, routeVars, workerVars, cpu, reactor,
                 resolving, closing, mode, loop, got, written, result>>

\* finish: the upload's, or the reader's for an upgrade that was refused.
Finish ==
  /\ \E f \in Fibers : FiberAt(f, "finish") /\ Goto(f, IF f = "upload" THEN "done" ELSE "app")
  /\ closing' = When(~Refuses(request), <<"wakeWorker">>)
  /\ request' = Push(request, Item("end", written, written))
  /\ UNCHANGED <<response, resetWanted, timedOut, trailers, routeVars, workerVars, cpu, reactor,
                 resolving, mode, loop, got, written, result>>

-----------------------------------------------------------------------------
(* The reactor. *)

ReactorAt(where) == cpu = "reactor" /\ reactor = where

\* The relay waits for its other direction.
AwaitsUpload == pc.reader = "close" /\ Relaying /\ result \in Ends /\ Uploading

FiberLeaves ==
  /\ \E f \in Fibers : FiberAt(f, "done") \/ (FiberAt("reader", "close") /\ AwaitsUpload)
  /\ cpu' = "reactor"
  /\ UNCHANGED <<channelVars, routeVars, workerVars, reactor, resolving, pc, closing, mode,
                 loop, got, written, result>>

FiberResume(f) ==
  /\ ReactorAt("wait")
  /\ pc[f] \in {"head", "app", "write", "resumed", "close"}
  /\ ~(f = "reader" /\ AwaitsUpload)
  /\ cpu' = f
  /\ UNCHANGED <<channelVars, routeVars, workerVars, reactor, resolving, pc, closing, mode,
                 loop, got, written, result>>

TakeWakeups ==
  /\ ReactorAt("wait")
  /\ resolving' = owed /\ owed' = {}
  /\ reactor' = "resolve"
  /\ UNCHANGED <<channelVars, closed, queued, event, workerVars, cpu, pc, closing, mode, loop,
                 got, written, result>>

ResolveReader ==
  /\ ReactorAt("resolve") /\ "response" \in resolving
  /\ resolving' = resolving \ {"response"}
  /\ response' = Unpark(response)
  /\ Goto("reader", IF response.waiter # NoFiber THEN "resumed" ELSE pc.reader)
  /\ UNCHANGED <<request, resetWanted, timedOut, trailers, routeVars, workerVars, cpu, reactor,
                 closing, mode, loop, got, written, result>>

ResolveUpload ==
  /\ ReactorAt("resolve") /\ "request" \in resolving
  /\ resolving' = resolving \ {"request"}
  /\ request' = Unpark(request)
  /\ Goto("upload", IF request.waiter # NoFiber THEN "resumed" ELSE pc.upload)
  /\ UNCHANGED <<response, resetWanted, timedOut, trailers, routeVars, workerVars, cpu, reactor,
                 closing, mode, loop, got, written, result>>

\* A fiber of a cancelled request is stopped where it waits, for the relay's
\* other direction too.
StopCancelled ==
  /\ ReactorAt("resolve") /\ resolving = {}
  /\ reactor' = "wait"
  /\ IF stop /\ pc.reader \in {"parked", "resumed"}
     THEN Goto("reader", "stopping") /\ cpu' = "reader" /\ UNCHANGED result
     ELSE IF stop /\ (pc.reader \in {"head", "app"} \/ AwaitsUpload)
     THEN Goto("reader", "close") /\ cpu' = "reader" /\ result' = "stopping"
     ELSE UNCHANGED <<pc, cpu, result>>
  /\ UNCHANGED <<channelVars, routeVars, workerVars, resolving, closing, mode, loop, got, written>>

\* The idle timeout strikes a fiber that waits, its wakeup on the way or not.
IdleTimeout ==
  /\ ReactorAt("wait") /\ pc.reader \in {"parked", "resumed"}
  /\ Goto("reader", "timeout") /\ cpu' = "reader"
  /\ UNCHANGED <<channelVars, routeVars, workerVars, reactor, resolving, closing, mode, loop,
                 got, written, result>>

-----------------------------------------------------------------------------

EnvoyReports == HeadersArrived \/ DataArrived \/ TrailersArrived \/ OnComplete \/ OnReset

WorkerStep ==
  \/ TouchChannel \/ Tell \/ Stopped \/ Count \/ Start \/ First \/ Pump \/ Send \/ Return \/ OwePump

FiberStep ==
  \/ OpenStream \/ WakeWorker \/ ReadHead \/ ReadOn \/ Pull \/ Check \/ ParkReader \/ WaitEnds
  \/ CloseBody \/ ReadRest \/ Write \/ WriteEnds \/ PushPiece \/ PieceWakes \/ ParkUpload
  \/ UploadResumes \/ Finish \/ FiberLeaves

ReactorPass == ResolveReader \/ ResolveUpload \/ StopCancelled

Next ==
  \/ EnvoyReports \/ OnStreamComplete \/ OnScheduled \/ WorkerStep
  \/ CloseStep \/ FiberStep \/ (\E f \in Fibers : FiberResume(f)) \/ TakeWakeups \/ ReactorPass \/ IdleTimeout

Spec == Init /\ [][Next]_vars

\* As in RequestPath for the threads.  Envoy delivers a committed event, and
\* reports the end of a stream it was asked to reset.
Fairness ==
  /\ WF_vars(WorkerStep) /\ WF_vars(OnScheduled) /\ WF_vars(CloseStep) /\ WF_vars(FiberStep)
  /\ WF_vars(ReactorPass) /\ SF_vars(TakeWakeups) /\ \A f \in Fibers : SF_vars(FiberResume(f))
  /\ WF_vars(stream.reset_sent /\ (OnReset \/ OnComplete))

FairSpec == Spec /\ Fairness

-----------------------------------------------------------------------------
(* Properties. *)

Outcomes == {"completed", "refused", "timed_out", "overflow", "reset", "abandoned"}

Steps == {"pushHead", "pushEnd", "pushFailure", "cancelRequest", "wantReset", "setTrailers",
          "oweReader", "oweWriter", "wakeSelf", "stopped", "count", "start", "first", "pump",
          "send", "inside", "owePump"}

ClosingSteps == {"timedOut", "cancelResponse", "cancelRequest", "wantReset", "finish", "wakeWorker"}

OpenStreams ==
  [ state : {"none", "open", "gone"}, outcome : {"none"} \cup Outcomes, request_ended : BOOLEAN,
    response_ended : BOOLEAN, reset_sent : BOOLEAN, upgraded : BOOLEAN ]

ChannelTypes ==
  /\ response \in StreamsOf({"reader"}) /\ request \in StreamsOf({"upload"})
  /\ resetWanted \in BOOLEAN /\ timedOut \in BOOLEAN /\ trailers \in BOOLEAN

RouteTypes ==
  /\ closed \in BOOLEAN /\ queued \in BOOLEAN /\ event \in BOOLEAN
  /\ owed \subseteq {"response", "request"}

WorkerTypes ==
  /\ worker \in Seq(Steps) /\ stream \in OpenStreams /\ counted \in Seq(Outcomes)
  /\ envoy \in {"none", "open", "over"} /\ phase \in {"none", "body", "trailers", "ended"}
  /\ reported \in Nat /\ accepted \in Nat /\ uploaded \in Nat /\ stop \in BOOLEAN

RubyTypes ==
  /\ cpu \in {"reactor"} \cup Fibers /\ reactor \in {"wait", "resolve"}
  /\ resolving \subseteq {"response", "request"}
  /\ pc \in [ reader : {"call", "wake", "head", "finish", "app", "pull", "check", "park", "parked",
                        "resumed", "timeout", "stopping", "close", "done"},
              upload : {"none", "write", "push", "wake", "park", "parked", "resumed", "finish",
                        "done"} ]
  /\ closing \in Seq(ClosingSteps)
  /\ mode \in Modes /\ loop \in {"head", "pull"} /\ got \in Nat /\ written \in Nat
  /\ result \in {"none", "refused", "failed", "closed", "eof", "cut", "missed", "broke off",
                 "timeout", "stopping"}

\* Every variable has the type the code gives it.
TypeOK == ChannelTypes /\ RouteTypes /\ WorkerTypes /\ RubyTypes

Pending(steps) == \E i \in 1 .. Len(worker) : worker[i] \in steps

\* Whatever is closed, reset or abandoned on the way, each direction carries
\* every byte once and in order, and Envoy is told that the request body is
\* over only when it has the whole of it.
InOrder ==
  /\ ~response.cancelled => Ordered(response.items, got, accepted)
  /\ ~request.cancelled => Ordered(request.items, uploaded, written)
  /\ stream.request_ended /\ mode = "body" => uploaded = RequestBytes

\* What the worker pushes reaches a reader that parked a moment before: the
\* head too, which parking does not look for.
NoStrandedReader ==
  pc.reader = "parked" /\ response.items # << >> =>
    "response" \in owed \cup resolving \/ Pending({"oweReader"})

\* A body's writer parked on a queue that has room, or is over, is woken by
\* whoever made it so, or stopped by a reader that closes; the reader of a relay
\* does not close while it waits for this writer, which is then woken.
NoStrandedUpload ==
  pc.upload = "parked" /\ ~MayParkWriter(request) =>
    \/ "request" \in owed \cup resolving \/ Pending({"oweWriter", "owePump"})
    \/ stream.state = "open" /\ Pending({"pump", "send"})
    \/ pc.reader = "close" /\ ~AwaitsUpload

\* Every call that was queued is counted once, whichever of its callbacks, the
\* request's end and a refusal come first, and as timed out only if it was: time_out
\* says why before it closes, so a reset sent for it is not counted as one the
\* fiber just abandoned, unless the request ended meanwhile.  (With a body, the
\* upload may have closed the channel first.)
CountedOnce ==
  /\ Len(counted) =< 1
  /\ counted = <<"timed_out">> => result = "timeout"
  /\ counted = <<"abandoned">> /\ stream.reset_sent /\ ~closed /\ mode # "body" => result # "timeout"
  /\ worker = << >> /\ (stream.state = "gone" \/ (closed /\ result # "refused" /\ pc.reader # "call"))
       => Len(counted) = 1

\* A reader that has read the response to its end finds it settled as completed,
\* whatever became of the exchange afterwards, and the trailers if it had any.
EndIsTrue ==
  result = "eof" => stream.outcome = "completed" /\ (phase = "trailers" => trailers)

\* The worker calls Envoy only with a handle Envoy still knows, although the
\* stream may end inside any of these calls.
HandleIsLive == stream.state = "open" \/ At("send") => envoy = "open"

\* A channel that was closed, or failed, is reset.
ResetHappens == resetWanted /\ envoy = "open" ~> envoy = "over"

\* Claimed by "raises the failure that ended the stream": a reader that takes
\* the response for complete has not left a failure in the queue.
FailureIsSeen == result # "missed"

\* Claimed by "the reader hears of it as a closed stream": an upload that
\* fails does not make a response look complete ...
UploadFailureIsHeard == result # "cut"

\* ... and a reader parked on the closed channel is woken.
ClosedReaderIsWoken ==
  pc.reader = "parked" /\ response.cancelled =>
    \/ "response" \in owed \cup resolving
    \/ worker # << >> \/ closing # << >> \/ event \/ stream.state = "open"

\* Claimed by "as the calling fiber saw it": while its request goes on, a call
\* the fiber gave up for silence is not counted as abandoned.
CountedAsSeen ==
  mode = "plain" /\ ~closed /\ counted = <<"abandoned">> => result # "timeout"
=============================================================================
