---------------------------- MODULE RequestPath -----------------------------
(***************************************************************************)
(* One request body on its way from Envoy's buffers to the fiber that      *)
(* reads it: forward_request_body on the worker, the request queue, and    *)
(* rack.input (ruby/request_body.rb), or the stream it was handed to, on   *)
(* the Ruby thread.                                                        *)
(*                                                                         *)
(* Bytes are positions in the body.  Envoy holds the retained bytes and,   *)
(* while it delivers a frame, the received ones behind them; a span is a   *)
(* pair <<from, upto>>.  The doorbell of the reactor is in ResponsePath    *)
(* and Reactor: here it may make a pass whenever it has the thread.        *)
(***************************************************************************)
EXTENDS ResponseStream

CONSTANTS
  BodyBytes,      \* bound: length of the longest body
  ReadSizes       \* bound: lengths the application reads

ASSUME BodyAssumption ==
  /\ BodyBytes \in Nat
  /\ ReadSizes \subseteq Nat \ {0}

VARIABLES
  body,       \* the request queue
  owed,       \* the queue is in Wakeups
  scheduled,  \* REQUEST_EVENT_ID is committed and not delivered
  worker,     \* where the worker is in forward_request_body
  filter,     \* "New", "Open" with a request body, "Refused", "Dropped"
  retained,   \* the span Envoy buffers
  received,   \* the span of the frame being delivered
  clientEnd,  \* the client has ended its body
  endPending, \* request_end_pending
  room,       \* how much forward_request_body may still copy
  moved,      \* it has copied something
  stop,       \* the response queue is cancelled: the fiber will be stopped
  cpu,        \* who runs on the Ruby thread: "reactor" or "fiber"
  reactor,    \* where the reactor loop is
  fiber,      \* where the request's fiber is
  size,       \* bytes pulled out of the queue
  position,   \* bytes given to the application, of those
  want,       \* the read in progress goes on to this position
  sawEnd,     \* the application was told that the body is over
  detached    \* rack.input was handed to the response stream

queueVars == <<body, owed, scheduled>>
workerVars == <<worker, filter, retained, received, clientEnd, endPending, room, moved, stop>>
rubyVars == <<cpu, reactor, fiber, size, position, want, sawEnd, detached>>
vars == <<body, owed, scheduled, worker, filter, retained, received, clientEnd,
          endPending, room, moved, stop, cpu, reactor, fiber, size, position, want,
          sawEnd, detached>>

Reader == "reader"

Span(s) == s[2] - s[1]

Smaller(a, b) == IF a < b THEN a ELSE b

\* A filter that has seen nothing yet.
Init ==
  /\ body = EmptyStream /\ owed = FALSE /\ scheduled = FALSE
  /\ worker = "idle" /\ filter = "New"
  /\ retained = <<0, 0>> /\ received = <<0, 0>>
  /\ clientEnd = FALSE /\ endPending = FALSE
  /\ room = 0 /\ moved = FALSE /\ stop = FALSE
  /\ cpu = "reactor" /\ reactor = "wait" /\ fiber = "none"
  /\ size = 0 /\ position = 0 /\ want = 0
  /\ sawEnd = FALSE /\ detached = FALSE

-----------------------------------------------------------------------------
(* The worker: Envoy's callbacks. *)

\* submit: the request queue is created and the call is in the channel.
Submit == filter' = "Open" /\ fiber' = "queued"

\* send_bridge_error, for an invalid request or a refused one: a local reply
\* goes out and the filter has no request body any more.
SendBridgeError == filter' = "Refused" /\ UNCHANGED fiber

\* on_request_headers
OnRequestHeaders ==
  /\ worker = "idle" /\ filter = "New"
  /\ \E end \in BOOLEAN :
       /\ clientEnd' = end /\ endPending' = end
       /\ Submit \/ SendBridgeError
       /\ worker' = IF end THEN "forward" ELSE "idle"
  /\ UNCHANGED <<queueVars, retained, received, room, moved, stop, cpu, reactor, size,
                 position, want, sawEnd, detached>>

\* on_request_body: a frame of n bytes, or bytes a filter ahead had buffered
\* and delivers again, which Envoy then names as the retained ones.
OnRequestBody ==
  /\ worker = "idle" /\ filter \in {"Open", "Refused"} /\ ~clientEnd
  /\ \E n \in 0 .. BodyBytes - retained[2], end \in BOOLEAN, again \in BOOLEAN :
       /\ clientEnd' = end
       /\ endPending' = (endPending \/ end)
       /\ received' = <<IF again THEN retained[2] + n ELSE retained[2], retained[2] + n>>
       /\ retained' = IF again THEN <<retained[1], retained[2] + n>> ELSE retained
  /\ worker' = "forward"
  /\ UNCHANGED <<queueVars, filter, room, moved, stop, rubyVars>>

OnRequestTrailers ==
  /\ worker = "idle" /\ filter \in {"Open", "Refused"} /\ ~clientEnd
  /\ clientEnd' = TRUE /\ endPending' = TRUE
  /\ worker' = "forward"
  /\ UNCHANGED <<queueVars, filter, retained, received, room, moved, stop, rubyVars>>

\* on_scheduled(REQUEST_EVENT_ID)
OnScheduled ==
  /\ worker = "idle" /\ filter = "Open" /\ scheduled
  /\ scheduled' = FALSE
  /\ worker' = "forward"
  /\ UNCHANGED <<body, owed, filter, retained, received, clientEnd, endPending, room,
                 moved, stop, rubyVars>>

\* What is left of the frame when the callback returns, Envoy retains.
Returned ==
  /\ retained' = <<IF Span(retained) = 0 THEN received[1] ELSE retained[1], received[2]>>
  /\ received' = <<received[2], received[2]>>

\* A filter without a request body forwards nothing.
ForwardNothing ==
  /\ worker = "forward" /\ filter = "Refused"
  /\ Returned
  /\ worker' = "idle"
  /\ UNCHANGED <<queueVars, filter, clientEnd, endPending, room, moved, stop, rubyVars>>

\* let room = (retained + received).min(handle.stream.spare_capacity())
Forward ==
  /\ worker = "forward" /\ filter = "Open"
  /\ room' = Smaller(Span(retained) + Span(received), SpareCapacity(body))
  /\ moved' = FALSE
  /\ worker' = "copy"
  /\ UNCHANGED <<queueVars, filter, retained, received, clientEnd, endPending, stop, rubyVars>>

\* copy_body pushes a slice of one of Envoy's buffers, of whatever size.
CopySlice(span, n) ==
  /\ worker = "copy" /\ n =< room /\ n =< Span(span)
  /\ body' = Push(body, Item("chunk", span[1], span[1] + n))
  /\ room' = room - n
  /\ moved' = TRUE

CopyRetained ==
  /\ \E n \in 1 .. BodyBytes :
       /\ CopySlice(retained, n)
       /\ retained' = <<retained[1] + n, retained[2]>>
  /\ UNCHANGED <<owed, scheduled, worker, filter, received, clientEnd, endPending, stop, rubyVars>>

\* Mutant of CopyReceived: the frame in hand may overtake.
CopyReceivedOvertakes ==
  /\ \E n \in 1 .. BodyBytes :
       /\ CopySlice(received, n)
       /\ received' = <<received[1] + n, received[2]>>
  /\ UNCHANGED <<owed, scheduled, worker, filter, retained, clientEnd, endPending, stop, rubyVars>>

\* "a short copy from them must not let the newer frame overtake"
CopyReceived ==
  /\ Span(retained) = 0
  /\ \E n \in 1 .. BodyBytes :
       /\ CopySlice(received, n)
       /\ received' = <<received[1] + n, received[2]>>
  /\ UNCHANGED <<owed, scheduled, worker, filter, retained, clientEnd, endPending, stop, rubyVars>>

\* Mutant of Ended: what Envoy still holds is not looked at.
EndedByFlag == endPending

\* The end may only follow the last byte.
Ended == endPending /\ Span(retained) = 0 /\ Span(received) = 0

\* Mutant of ForwardEnd: only bytes wake the reader.
ForwardEndSilently ==
  /\ worker = "copy" /\ room = 0
  /\ body' = IF Ended THEN Push(body, Item("end", received[2], received[2])) ELSE body
  /\ endPending' = (endPending /\ ~Ended)
  /\ worker' = IF moved THEN "owe" ELSE "idle"
  /\ Returned
  /\ UNCHANGED <<owed, scheduled, filter, clientEnd, room, moved, stop, rubyVars>>

ForwardEnd ==
  /\ worker = "copy" /\ room = 0
  /\ body' = IF Ended THEN Push(body, Item("end", received[2], received[2])) ELSE body
  /\ endPending' = (endPending /\ ~Ended)
  /\ worker' = IF moved \/ Ended THEN "owe" ELSE "idle"
  /\ Returned
  /\ UNCHANGED <<owed, scheduled, filter, clientEnd, room, moved, stop, rubyVars>>

\* wake_body
Owe ==
  /\ worker = "owe"
  /\ owed' = TRUE
  /\ worker' = "idle"
  /\ UNCHANGED <<body, scheduled, filter, retained, received, clientEnd, endPending, room,
                 moved, stop, rubyVars>>

\* Mutant of DropFilter: the queue is cancelled and nobody is told.
DropSilently ==
  /\ worker = "idle" /\ filter # "Dropped"
  /\ filter' = "Dropped"
  /\ IF filter = "Open"
     THEN stop' \in BOOLEAN /\ body' = Cancel(body)
     ELSE UNCHANGED <<stop, body>>
  /\ scheduled' = FALSE
  /\ UNCHANGED <<owed, worker, retained, received, clientEnd, endPending, room, moved, rubyVars>>

\* Drop: the response queue is cancelled unless the response has ended, and
\* the request queue is, with its reader woken, either way.
DropFilter ==
  /\ worker = "idle" /\ filter # "Dropped"
  /\ filter' = "Dropped"
  /\ IF filter = "Open"
     THEN /\ stop' \in BOOLEAN
          /\ body' = Cancel(body)
          /\ worker' = "owe"
     ELSE UNCHANGED <<stop, body, worker>>
  /\ scheduled' = FALSE
  /\ UNCHANGED <<owed, retained, received, clientEnd, endPending, room, moved, rubyVars>>

-----------------------------------------------------------------------------
(* The fiber.  `fiber` says what it does next:                             *)
(*   app        in the application      pull     next_chunk                *)
(*   chunkWake, endWake  about to wake the worker after taking an item     *)
(*   check      fill's condition        park     about to park             *)
(*   parked     waiting                 resumed  its variable resolved     *)
(*   stopping   Async::Stop raised in it while it waited in Park.on        *)

FiberAt(pc) == cpu = "fiber" /\ fiber = pc

FiberYield ==
  /\ FiberAt("app")
  /\ cpu' = "reactor"
  /\ UNCHANGED <<queueVars, workerVars, reactor, fiber, size, position, want, sawEnd, detached>>

FiberResume ==
  /\ cpu = "reactor" /\ reactor = "wait" /\ fiber \in {"app", "resumed"}
  /\ cpu' = "fiber"
  /\ UNCHANGED <<queueVars, workerVars, reactor, fiber, size, position, want, sawEnd, detached>>

\* read(length), or gets up to a separator that lies there ...
Read ==
  /\ FiberAt("app")
  /\ \E n \in ReadSizes : want' = position + n
  /\ fiber' = "pull"
  /\ UNCHANGED <<queueVars, workerVars, cpu, reactor, size, position, sawEnd, detached>>

\* ... or read to the end.
ReadAll ==
  /\ FiberAt("app")
  /\ want' = BodyBytes + 1
  /\ fiber' = "pull"
  /\ UNCHANGED <<queueVars, workerVars, cpu, reactor, size, position, sawEnd, detached>>

Rewind ==
  /\ FiberAt("app") /\ ~detached
  /\ position' = 0
  /\ UNCHANGED <<queueVars, workerVars, cpu, reactor, fiber, size, want, sawEnd, detached>>

\* What was pulled and not read goes to the stream, which keeps nothing.
Detach ==
  /\ FiberAt("app") /\ ~detached
  /\ detached' = TRUE
  /\ UNCHANGED <<queueVars, workerVars, cpu, reactor, fiber, size, position, want, sawEnd>>

\* next_chunk: nil for an end as for nothing.
Pull ==
  /\ FiberAt("pull")
  /\ body' = TakeNext(body)
  /\ IF CanTake(body)
     THEN /\ size' = size + Size(Head(body.items))
          /\ fiber' = IF Head(body.items).kind = "chunk" THEN "chunkWake" ELSE "endWake"
     ELSE size' = size /\ fiber' = "check"
  /\ UNCHANGED <<owed, scheduled, workerVars, cpu, reactor, position, want, sawEnd, detached>>

\* Mutant of PullWake: the worker is not woken.
PullSilently ==
  /\ FiberAt("chunkWake") \/ FiberAt("endWake")
  /\ fiber' = IF fiber = "chunkWake" THEN "pull" ELSE "check"
  /\ UNCHANGED <<queueVars, workerVars, cpu, reactor, size, position, want, sawEnd, detached>>

\* "A sender held back by a full queue resumes once there is room."
PullWake ==
  /\ FiberAt("chunkWake") \/ FiberAt("endWake")
  /\ scheduled' = (scheduled \/ filter # "Dropped")
  /\ fiber' = IF fiber = "chunkWake" THEN "pull" ELSE "check"
  /\ UNCHANGED <<body, owed, workerVars, cpu, reactor, size, position, want, sawEnd, detached>>

\* Enough was pulled, or nothing more will come: the read returns.
CheckRead ==
  /\ FiberAt("check")
  /\ IF size >= want \/ IsFinished(body)
     THEN /\ fiber' = "app"
          /\ position' = Smaller(want, size)
          /\ sawEnd' = (sawEnd \/ size < want)
     ELSE /\ fiber' = "park"
          /\ UNCHANGED <<position, sawEnd>>
  /\ UNCHANGED <<queueVars, workerVars, cpu, reactor, size, want, detached>>

\* Park.on: refused when there is something to read, or nothing to wait for.
ParkOnSource ==
  /\ FiberAt("park")
  /\ body' = Park(body, Reader)
  /\ fiber' = IF MayPark(body) THEN "parked" ELSE "pull"
  /\ cpu' = IF MayPark(body) THEN "reactor" ELSE "fiber"
  /\ UNCHANGED <<owed, scheduled, workerVars, reactor, size, position, want, sawEnd, detached>>

ParkEnds ==
  /\ FiberAt("resumed") \/ FiberAt("stopping")
  /\ body' = Unpark(body)
  /\ fiber' = IF fiber = "resumed" THEN "pull" ELSE "done"
  /\ cpu' = IF fiber = "resumed" THEN "fiber" ELSE "reactor"
  /\ UNCHANGED <<owed, scheduled, workerVars, reactor, size, position, want, sawEnd, detached>>

\* The application is done with the request.
FiberEnds ==
  /\ FiberAt("app")
  /\ fiber' = "done" /\ cpu' = "reactor"
  /\ UNCHANGED <<queueVars, workerVars, reactor, size, position, want, sawEnd, detached>>

-----------------------------------------------------------------------------
(* The reactor. *)

ReactorAt(pc) == cpu = "reactor" /\ reactor = pc

TakeWakeups ==
  /\ ReactorAt("wait")
  /\ reactor' = IF owed THEN "unpark" ELSE "receive"
  /\ owed' = FALSE
  /\ UNCHANGED <<body, scheduled, workerVars, cpu, fiber, size, position, want, sawEnd, detached>>

ResolveWaiter ==
  /\ ReactorAt("unpark")
  /\ body' = Unpark(body)
  /\ fiber' = IF body.waiter # NoFiber THEN "resumed" ELSE fiber
  /\ reactor' = "receive"
  /\ UNCHANGED <<owed, scheduled, workerVars, cpu, size, position, want, sawEnd, detached>>

Receive ==
  /\ ReactorAt("receive")
  /\ reactor' = "stop"
  /\ IF fiber = "queued" THEN fiber' = "app" /\ cpu' = "fiber" ELSE UNCHANGED <<fiber, cpu>>
  /\ UNCHANGED <<queueVars, workerVars, size, position, want, sawEnd, detached>>

\* A fiber whose response queue is cancelled is stopped.
StopCancelled ==
  /\ ReactorAt("stop")
  /\ reactor' = "wait"
  /\ IF stop /\ fiber \in {"parked", "resumed"}
     THEN fiber' = "stopping" /\ cpu' = "fiber"
     ELSE /\ fiber' = IF stop /\ fiber = "app" THEN "done" ELSE fiber
          /\ UNCHANGED cpu
  /\ UNCHANGED <<queueVars, workerVars, size, position, want, sawEnd, detached>>

-----------------------------------------------------------------------------

WorkerStep ==
  \/ OnScheduled \/ ForwardNothing \/ Forward \/ CopyRetained \/ CopyReceived
  \/ ForwardEnd \/ Owe

ReadStep ==
  \/ Pull \/ PullWake \/ CheckRead \/ ParkOnSource \/ ParkEnds

AppStep ==
  \/ FiberYield \/ Read \/ ReadAll \/ Rewind \/ Detach \/ FiberEnds

ReactorPass == ResolveWaiter \/ Receive \/ StopCancelled

Next ==
  \/ OnRequestHeaders \/ OnRequestBody \/ OnRequestTrailers \/ DropFilter
  \/ WorkerStep \/ AppStep \/ ReadStep \/ FiberResume \/ TakeWakeups \/ ReactorPass

Spec == Init /\ [][Next]_vars

\* As in ResponsePath: the dispatcher and the thread get on with what they are
\* in the middle of, and the event loop serves the reactor's deadline and the
\* ready fibers in turn.  Nothing makes the client send or the application read.
Fairness ==
  /\ WF_vars(WorkerStep) /\ WF_vars(ReadStep) /\ WF_vars(AppStep)
  /\ WF_vars(ReactorPass) /\ SF_vars(TakeWakeups) /\ SF_vars(FiberResume)

FairSpec == Spec /\ Fairness

-----------------------------------------------------------------------------
(* Properties. *)

Spans == Nat \X Nat

\* Every variable has the type the code gives it.
TypeOK ==
  /\ body \in StreamsOf({Reader})
  /\ owed \in BOOLEAN /\ scheduled \in BOOLEAN
  /\ worker \in {"idle", "forward", "copy", "owe"}
  /\ filter \in {"New", "Open", "Refused", "Dropped"}
  /\ retained \in Spans /\ received \in Spans
  /\ clientEnd \in BOOLEAN /\ endPending \in BOOLEAN
  /\ room \in Nat /\ moved \in BOOLEAN /\ stop \in BOOLEAN
  /\ cpu \in {"reactor", "fiber"}
  /\ reactor \in {"wait", "unpark", "receive", "stop"}
  /\ fiber \in {"none", "queued", "app", "pull", "chunkWake", "endWake", "check", "park",
                "parked", "resumed", "stopping", "done"}
  /\ size \in Nat /\ position \in Nat /\ want \in Nat
  /\ sawEnd \in BOOLEAN /\ detached \in BOOLEAN

\* Where the bytes start that Envoy still holds.
EnvoyFrom == IF Span(retained) > 0 THEN retained[1] ELSE received[1]

\* Between what the fiber has pulled and what Envoy still holds, the queue has
\* every byte once and in order, whatever slices and callbacks they came by.
InOrder ==
  filter = "Open" =>
    /\ Ordered(body.items, size, EnvoyFrom)
    /\ body.buffered_bytes = EnvoyFrom - size

\* The application is told that the body is over only when it has the whole of
\* what the client sent and ended, or the filter is gone.
EndIsTrue ==
  sawEnd => body.cancelled \/ (clientEnd /\ size = received[2])

\* A reader parked on a queue that has something for it, or is over, is never
\* stranded: its wakeup is owed or on its way.
NoStrandedReader ==
  body.waiter # NoFiber /\ ~MayPark(body) =>
    \/ owed \/ reactor = "unpark" \/ fiber = "stopping"
    \/ worker = "owe" \/ (worker = "copy" /\ moved)

\* The queue stays within its limit, although forward_request_body computes its
\* room before it copies, and Envoy holds bytes, or the end, back only for want
\* of room: otherwise the worker is forwarding or an event that makes it forward
\* is due.
HeldBackOnlyWhenFull ==
  /\ body.buffered_bytes =< MaxBufferedBytes
  /\ filter = "Open" /\ worker = "idle"
     /\ (endPending \/ Span(retained) > 0) /\ SpareCapacity(body) > 0 =>
          Span(retained) > 0 /\ (scheduled \/ fiber \in {"chunkWake", "endWake"})

\* A reader goes on once the client has ended its body or the filter is gone,
\* after the end of the response too, when nothing stops the fiber.
ReaderResumes ==
  fiber = "parked" /\ (clientEnd \/ filter = "Dropped") ~> fiber # "parked"

=============================================================================
