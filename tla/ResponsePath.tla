---------------------------- MODULE ResponsePath ----------------------------
(***************************************************************************)
(* One response on its way from the fiber that produces it to the client.  *)
(*                                                                         *)
(*   Ruby thread   the reactor loop (ruby/fiber_runner.rb with             *)
(*                 FiberBridge::drain) and the request's fiber             *)
(*                 (rack::respond, Stream.write, Park.on), which share one *)
(*                 thread and hand it over only where a fiber waits;       *)
(*   worker        the Envoy thread that owns the filter                   *)
(*                 (FiberRackFilter::drain_stream, the watermark           *)
(*                 callbacks, Drop);                                       *)
(*   between them  the response queue, the list of owed wakeups, the wake  *)
(*                 socket and Envoy's scheduled events.                    *)
(*                                                                         *)
(* Every acquisition of a lock, every socket operation and every commit of *)
(* a scheduled event is one step.                                          *)
(***************************************************************************)
EXTENDS ResponseStream

CONSTANTS
  BodyBytes,      \* bound: bytes the application may yield
  ChunkSizes      \* bound: sizes of the chunks it yields them in

ASSUME BodyAssumption ==
  /\ BodyBytes \in Nat
  /\ ChunkSizes \subseteq Nat \ {0}

VARIABLES
  stream,     \* the response queue
  owed,       \* the queue is in Wakeups
  socket,     \* the wake socket holds an unread byte
  scheduled,  \* RESPONSE_EVENT_ID is committed and not delivered
  cpu,        \* who runs on the Ruby thread: "reactor" or "fiber"
  reactor,    \* where the reactor loop is
  fiber,      \* where the request's fiber is
  written,    \* body bytes the queue has accepted
  goal,       \* end of the chunk being written: bytes yielded so far
  verdict,    \* how the application ended its body: "open", "done", "raised"
  permit,     \* the admission permit is held
  worker,     \* where the worker is
  filter,     \* FilterState, or "Dropped"
  wire,       \* what the client has been shown of the response
  sent,       \* body bytes sent to the client
  outcome     \* the outcome counted in responses_total

queueVars == <<stream, owed, socket, scheduled>>
rubyVars == <<cpu, reactor, fiber, written, goal, verdict, permit>>
workerVars == <<worker, filter, wire, sent, outcome>>
vars == <<stream, owed, socket, scheduled, cpu, reactor, fiber, written, goal,
          verdict, permit, worker, filter, wire, sent, outcome>>

Writer == "writer"            \* the fiber that writes the response

\* FiberRackFilter.stream is Some exactly in these states.
Attached == filter \in {"Waiting", "Streaming"}

\* A request just submitted: its command is in the channel and its wake byte
\* in the socket.
Init ==
  /\ stream = EmptyStream
  /\ owed = FALSE
  /\ socket = TRUE
  /\ scheduled = FALSE
  /\ cpu = "reactor"
  /\ reactor = "wait"
  /\ fiber = "queued"
  /\ written = 0
  /\ goal = 0
  /\ verdict = "open"
  /\ permit = TRUE
  /\ worker = "idle"
  /\ filter = "Waiting"
  /\ wire = "none"
  /\ sent = 0
  /\ outcome = "none"

-----------------------------------------------------------------------------
(* The request's fiber.  `fiber` says what it does next:                   *)
(*   app        in app.call          body      enumerating the body        *)
(*   write      at the top of Stream.write's loop                          *)
(*   park       about to park        parked    waiting on its variable     *)
(*   resumed    variable resolved    store     about to call sink.write    *)
(*   finish     about to push_end    fail      about to push_failure       *)
(*   *Wake      about to wake the worker after a push                      *)
(*   stopping   Async::Stop raised in it while it waited in Park.on        *)
(*   release    about to drop the permit                                   *)

FiberAt(pc) == cpu = "fiber" /\ fiber = pc

\* The points where the application may give the thread away by itself.
FiberYield ==
  /\ FiberAt("app") \/ FiberAt("body")
  /\ cpu' = "reactor"
  /\ UNCHANGED <<queueVars, workerVars, reactor, fiber, written, goal, verdict, permit>>

\* The event loop gives a runnable fiber the thread while the reactor waits.
FiberResume ==
  /\ cpu = "reactor" /\ reactor = "wait"
  /\ fiber \in {"app", "body", "resumed"}
  /\ cpu' = "fiber"
  /\ UNCHANGED <<queueVars, workerVars, reactor, fiber, written, goal, verdict, permit>>

\* app.call returned: push_head, and nothing more if it is refused.
PushHead ==
  /\ FiberAt("app")
  /\ fiber' = IF Refuses(stream) THEN "release" ELSE "headWake"
  /\ stream' = Push(stream, Item("head", 0, 0))
  /\ UNCHANGED <<owed, socket, scheduled, workerVars, cpu, reactor, written, goal, verdict, permit>>

\* Mutant of Raise: the error is swallowed and the body ends as if it returned.
RaiseSwallowed ==
  /\ FiberAt("app") \/ FiberAt("body")
  /\ fiber' = "finish"
  /\ verdict' = IF verdict = "open" THEN "raised" ELSE verdict
  /\ UNCHANGED <<queueVars, workerVars, cpu, reactor, written, goal, permit>>

\* app.call or the body raised.
Raise ==
  /\ FiberAt("app") \/ FiberAt("body")
  /\ fiber' = "fail"
  /\ verdict' = IF verdict = "open" THEN "raised" ELSE verdict
  /\ UNCHANGED <<queueVars, workerVars, cpu, reactor, written, goal, permit>>

\* The body yields a chunk, or calls write on its stream.
YieldChunk ==
  /\ FiberAt("body")
  /\ verdict = "open"
  /\ \E n \in ChunkSizes :
       /\ goal + n =< BodyBytes
       /\ goal' = goal + n
  /\ fiber' = "write"
  /\ UNCHANGED <<queueVars, workerVars, cpu, reactor, written, verdict, permit>>

\* A streaming body may close its write side and keep running.
CloseWrite ==
  /\ FiberAt("body")
  /\ verdict = "open"
  /\ verdict' = "done"
  /\ fiber' = IF Refuses(stream) THEN "body" ELSE "closeWake"
  /\ stream' = Push(stream, Item("end", written, written))
  /\ UNCHANGED <<owed, socket, scheduled, workerVars, cpu, reactor, written, goal, permit>>

\* The body returned.
BodyReturns ==
  /\ FiberAt("body")
  /\ fiber' = "finish"
  /\ verdict' = IF verdict = "open" THEN "done" ELSE verdict
  /\ UNCHANGED <<queueVars, workerVars, cpu, reactor, written, goal, permit>>

\* Park.on(sink) unless sink.writable?
WriteLoop ==
  /\ FiberAt("write")
  /\ fiber' = IF IsSaturated(stream) THEN "park" ELSE "store"
  /\ UNCHANGED <<queueVars, workerVars, cpu, reactor, written, goal, verdict, permit>>

\* ChunkSink::park: the fiber waits, giving the thread away, or is refused.
ParkOnSink ==
  /\ FiberAt("park")
  /\ stream' = ParkWriter(stream, Writer)
  /\ fiber' = IF MayParkWriter(stream) THEN "parked" ELSE "store"
  /\ cpu' = IF MayParkWriter(stream) THEN "reactor" ELSE "fiber"
  /\ UNCHANGED <<owed, socket, scheduled, workerVars, reactor, written, goal, verdict, permit>>

\* The wait returned: Park.on's ensure clears the slot.
ParkEnds ==
  /\ FiberAt("resumed")
  /\ stream' = Unpark(stream)
  /\ fiber' = "store"
  /\ UNCHANGED <<owed, socket, scheduled, workerVars, cpu, reactor, written, goal, verdict, permit>>

\* ChunkSink::write takes what fits.  Refused, an enumeration stops as if the
\* body had ended and a streaming body sees Errno::EPIPE.
Store ==
  /\ FiberAt("store")
  /\ LET taken == IF Refuses(stream) THEN 0 ELSE TakenWithinBudget(stream, goal - written)
     IN  /\ stream' = PushChunkWithinBudget(stream, written, goal)
         /\ written' = written + taken
         /\ IF Refuses(stream)
            THEN fiber' \in {"finish", "fail"}
            ELSE fiber' = IF taken = 0 THEN "write" ELSE "chunkWake"
  /\ UNCHANGED <<owed, socket, scheduled, workerVars, cpu, reactor, goal, verdict, permit>>

\* rack::respond after the body reader returned; FiberBridge::execute on Err.
PushLast ==
  /\ FiberAt("finish") \/ FiberAt("fail")
  /\ stream' = Push(stream, Item(IF fiber = "finish" THEN "end" ELSE "failed", written, written))
  /\ fiber' = "lastWake"
  /\ UNCHANGED <<owed, socket, scheduled, workerVars, cpu, reactor, written, goal, verdict, permit>>

AfterWake ==
  CASE fiber = "headWake"  -> "body"
    [] fiber = "closeWake" -> "body"
    [] fiber = "chunkWake" -> IF written < goal THEN "write" ELSE "body"
    [] fiber = "lastWake"  -> "release"

\* Mutant of Wake: the worker is not woken for the last item.
WakeNotForLast ==
  /\ cpu = "fiber" /\ fiber \in {"headWake", "closeWake", "chunkWake", "lastWake"}
  /\ scheduled' = (scheduled \/ (filter # "Dropped" /\ fiber # "lastWake"))
  /\ fiber' = AfterWake
  /\ UNCHANGED <<stream, owed, socket, workerVars, cpu, reactor, written, goal, verdict, permit>>

\* StreamHandle::wake commits RESPONSE_EVENT_ID; a filter that is gone hears
\* nothing.
Wake ==
  /\ cpu = "fiber" /\ fiber \in {"headWake", "closeWake", "chunkWake", "lastWake"}
  /\ scheduled' = (scheduled \/ filter # "Dropped")
  /\ fiber' = AfterWake
  /\ UNCHANGED <<stream, owed, socket, workerVars, cpu, reactor, written, goal, verdict, permit>>

\* task.stop raised Async::Stop in Park.on: its ensure clears the slot.
ParkInterrupted ==
  /\ FiberAt("stopping")
  /\ stream' = Unpark(stream)
  /\ fiber' = "fail"
  /\ UNCHANGED <<owed, socket, scheduled, workerVars, cpu, reactor, written, goal, verdict, permit>>

Release ==
  /\ FiberAt("release")
  /\ permit' = FALSE
  /\ fiber' = "done"
  /\ cpu' = "reactor"
  /\ UNCHANGED <<queueVars, workerVars, reactor, written, goal, verdict>>

-----------------------------------------------------------------------------
(* The reactor loop. *)

ReactorAt(pc) == cpu = "reactor" /\ reactor = pc

\* io.wait_readable(heartbeat_seconds) returns for a byte ...
WakeByte ==
  /\ ReactorAt("wait") /\ socket
  /\ reactor' = "take"
  /\ UNCHANGED <<queueVars, workerVars, cpu, fiber, written, goal, verdict, permit>>

\* ... or for the deadline.
Heartbeat ==
  /\ ReactorAt("wait")
  /\ reactor' = "take"
  /\ UNCHANGED <<queueVars, workerVars, cpu, fiber, written, goal, verdict, permit>>

\* resolve_wakeups: Wakeups::take ...
TakeWakeups ==
  /\ ReactorAt("take")
  /\ reactor' = IF owed THEN "unpark" ELSE "drain"
  /\ owed' = FALSE
  /\ UNCHANGED <<stream, socket, scheduled, workerVars, cpu, fiber, written, goal, verdict, permit>>

\* ... and the waiter of each queue is taken out and resolved.
ResolveWaiter ==
  /\ ReactorAt("unpark")
  /\ stream' = Unpark(stream)
  /\ fiber' = IF stream.waiter # NoFiber THEN "resumed" ELSE fiber
  /\ reactor' = "drain"
  /\ UNCHANGED <<owed, socket, scheduled, workerVars, cpu, written, goal, verdict, permit>>

\* wake::drain reads every byte.
DrainSocket ==
  /\ ReactorAt("drain")
  /\ socket' = FALSE
  /\ reactor' = "receive"
  /\ UNCHANGED <<stream, owed, scheduled, workerVars, cpu, fiber, written, goal, verdict, permit>>

\* A call in the channel starts at once in a task of its own.
Receive ==
  /\ ReactorAt("receive")
  /\ reactor' = "stop"
  /\ IF fiber = "queued"
     THEN fiber' = "app" /\ cpu' = "fiber"
     ELSE UNCHANGED <<fiber, cpu>>
  /\ UNCHANGED <<queueVars, workerVars, written, goal, verdict, permit>>

\* Mutant of StopCancelled: only a fiber that waits in Park.on is stopped.
StopParkedOnly ==
  /\ ReactorAt("stop")
  /\ reactor' = "wait"
  /\ IF stream.cancelled /\ fiber \in {"parked", "resumed"}
     THEN fiber' = "stopping" /\ verdict' = "raised" /\ cpu' = "fiber"
     ELSE UNCHANGED <<fiber, verdict, cpu>>
  /\ UNCHANGED <<queueVars, workerVars, written, goal, permit>>

\* task.stop: a fiber that is stopped unwinds at once; the error leaves app.call
\* or the body reader.
StopTask ==
  IF fiber \notin {"queued", "done"}
  THEN /\ fiber' = IF fiber \in {"parked", "resumed"} THEN "stopping" ELSE "fail"
       /\ verdict' = IF verdict = "open" THEN "raised" ELSE verdict
       /\ cpu' = "fiber"
  ELSE UNCHANGED <<fiber, verdict, cpu>>

\* running.each { |envelope, task| task.stop if envelope.cancelled? }
StopCancelled ==
  /\ ReactorAt("stop")
  /\ reactor' = "wait"
  /\ IF stream.cancelled THEN StopTask ELSE UNCHANGED <<fiber, verdict, cpu>>
  /\ UNCHANGED <<queueVars, workerVars, written, goal, permit>>

\* The pass that received a shutdown is the last: running.each_value(&:stop)
\* ends the fiber whether or not its client is still there.
StopAll ==
  /\ ReactorAt("stop")
  /\ reactor' = "over"
  /\ StopTask
  /\ UNCHANGED <<queueVars, workerVars, written, goal, permit>>

-----------------------------------------------------------------------------
(* The worker: Envoy callbacks run one at a time on its thread. *)

\* Mutant of ReportOutcome: the last report wins.
ReportLastOutcome(o) == outcome' = o

\* The first outcome reported for a request is the one that counts.
ReportOutcome(o) == outcome' = IF outcome = "none" THEN o ELSE outcome

\* on_scheduled
OnScheduled ==
  /\ worker = "idle" /\ scheduled /\ filter # "Dropped"
  /\ scheduled' = FALSE
  /\ worker' = IF Attached THEN "take" ELSE "idle"
  /\ UNCHANGED <<stream, owed, socket, rubyVars, filter, wire, sent, outcome>>

\* drain_stream: one turn of its loop for each kind of item, and its end.
DrainHead ==
  /\ worker = "take" /\ CanTake(stream) /\ Head(stream.items).kind = "head"
  /\ stream' = TakeNext(stream)
  /\ IF filter = "Waiting"
     THEN filter' = "Streaming" /\ wire' = "head"
     ELSE UNCHANGED <<filter, wire>>
  /\ UNCHANGED <<owed, socket, scheduled, rubyVars, worker, sent, outcome>>

DrainChunk ==
  /\ worker = "take" /\ CanTake(stream) /\ Head(stream.items).kind = "chunk"
  /\ stream' = TakeNext(stream)
  /\ sent' = IF filter = "Streaming" THEN sent + Size(Head(stream.items)) ELSE sent
  /\ UNCHANGED <<owed, socket, scheduled, rubyVars, worker, filter, wire, outcome>>

DrainEnd ==
  /\ worker = "take" /\ CanTake(stream) /\ Head(stream.items).kind = "end"
  /\ stream' = TakeNext(stream)
  /\ filter' = "Responded"
  /\ ReportOutcome("completed")
  /\ wire' = IF filter = "Streaming" THEN "complete" ELSE wire
  /\ worker' = "idle"
  /\ UNCHANGED <<owed, socket, scheduled, rubyVars, sent>>

DrainFailed ==
  /\ worker = "take" /\ CanTake(stream) /\ Head(stream.items).kind = "failed"
  /\ stream' = TakeNext(stream)
  /\ filter' = "Responded"
  /\ ReportOutcome("failed")
  /\ wire' = IF filter = "Waiting" THEN "localReply" ELSE "reset"
  /\ worker' = "idle"
  /\ UNCHANGED <<owed, socket, scheduled, rubyVars, sent>>

DrainStops ==
  /\ worker = "take" /\ ~CanTake(stream)
  /\ worker' = "check"
  /\ UNCHANGED <<queueVars, rubyVars, filter, wire, sent, outcome>>

\* if stream.writer_owed_wakeup() { client.wake_body(stream) }
CheckWriter ==
  /\ worker = "check"
  /\ worker' = IF WriterOwedWakeup(stream) THEN "owe" ELSE "idle"
  /\ UNCHANGED <<queueVars, rubyVars, filter, wire, sent, outcome>>

\* wake_body: owe, then signal.
Owe ==
  /\ worker = "owe"
  /\ owed' = TRUE
  /\ worker' = "signal"
  /\ UNCHANGED <<stream, socket, scheduled, rubyVars, filter, wire, sent, outcome>>

Signal ==
  /\ worker = "signal"
  /\ socket' = TRUE
  /\ worker' = "idle"
  /\ UNCHANGED <<stream, owed, scheduled, rubyVars, filter, wire, sent, outcome>>

\* Envoy's write buffer passed its high watermark, possibly from inside the
\* send_response_data call of drain_stream.
AboveHighWatermark ==
  /\ worker \in {"idle", "take"} /\ Attached /\ ~stream.paused
  /\ stream' = SetPaused(stream, TRUE)
  /\ UNCHANGED <<owed, socket, scheduled, rubyVars, workerVars>>

\* Mutant of BelowLowWatermark: the pause is lifted and nothing resumes.
UnpausedOnly ==
  /\ worker = "idle" /\ Attached /\ stream.paused
  /\ stream' = SetPaused(stream, FALSE)
  /\ UNCHANGED <<owed, socket, scheduled, rubyVars, workerVars>>

BelowLowWatermark ==
  /\ worker = "idle" /\ Attached /\ stream.paused
  /\ stream' = SetPaused(stream, FALSE)
  /\ worker' = "resume"
  /\ UNCHANGED <<owed, socket, scheduled, rubyVars, filter, wire, sent, outcome>>

\* Mutant of CommitResume: the watermark callback returns without scheduling.
ResumeForgotten ==
  /\ worker = "resume"
  /\ worker' = "idle"
  /\ UNCHANGED <<queueVars, rubyVars, filter, wire, sent, outcome>>

\* The watermark callback resumes on the next dispatcher turn.
CommitResume ==
  /\ worker = "resume"
  /\ scheduled' = TRUE
  /\ worker' = "idle"
  /\ UNCHANGED <<stream, owed, socket, rubyVars, filter, wire, sent, outcome>>

\* on_stream_complete and Drop: the client left, or the response is over.
DropFilter ==
  /\ worker = "idle" /\ filter # "Dropped"
  /\ ReportOutcome("cancelled")
  /\ filter' = "Dropped"
  /\ wire' = IF wire \in {"complete", "localReply", "reset"} THEN wire ELSE "gone"
  /\ IF Attached
     THEN stream' = Cancel(stream) /\ worker' = "check"
     ELSE UNCHANGED <<stream, worker>>
  /\ scheduled' = FALSE
  /\ UNCHANGED <<owed, socket, rubyVars, sent>>

-----------------------------------------------------------------------------

\* Both sides are through with the request after a shutdown: no deadlock.
Ended ==
  /\ reactor = "over" /\ fiber = "done" /\ filter = "Dropped" /\ worker = "idle"
  /\ UNCHANGED vars

FiberStep ==
  \/ FiberYield \/ PushHead \/ Raise \/ YieldChunk \/ CloseWrite \/ BodyReturns
  \/ WriteLoop \/ ParkOnSink \/ ParkEnds \/ Store \/ PushLast \/ Wake
  \/ ParkInterrupted \/ Release

ReactorStep ==
  \/ WakeByte \/ Heartbeat \/ TakeWakeups \/ ResolveWaiter \/ DrainSocket
  \/ Receive \/ StopCancelled \/ StopAll

WorkerStep ==
  \/ OnScheduled \/ DrainHead \/ DrainChunk \/ DrainEnd \/ DrainFailed
  \/ DrainStops \/ CheckWriter \/ Owe \/ Signal \/ CommitResume

Next ==
  \/ FiberStep \/ FiberResume \/ ReactorStep \/ WorkerStep
  \/ AboveHighWatermark \/ BelowLowWatermark \/ DropFilter \/ Ended

Spec == Init /\ [][Next]_vars

\* Envoy's dispatcher keeps running the worker's callbacks and the fiber that
\* has the thread gets on with it.  The event loop polls the reactor's deadline
\* and the runnable fibers in turn, so neither starves the other.  Nothing makes
\* the client read, leave, or the application finish.
Fairness ==
  /\ WF_vars(WorkerStep)
  /\ WF_vars(FiberStep)
  /\ SF_vars(FiberResume)
  /\ SF_vars(Heartbeat)
  /\ WF_vars(TakeWakeups \/ ResolveWaiter \/ DrainSocket \/ Receive \/ StopCancelled)

FairSpec == Spec /\ Fairness

-----------------------------------------------------------------------------
(* Properties. *)

FiberStates ==
  {"queued", "app", "headWake", "body", "closeWake", "write", "park", "parked",
   "resumed", "store", "chunkWake", "finish", "fail", "lastWake", "stopping",
   "release", "done"}

Streams == StreamsOf({Writer})

\* Every variable has the type the code gives it.
TypeOK ==
  /\ stream \in Streams
  /\ owed \in BOOLEAN /\ socket \in BOOLEAN /\ scheduled \in BOOLEAN
  /\ cpu \in {"reactor", "fiber"}
  /\ reactor \in {"wait", "take", "unpark", "drain", "receive", "stop", "over"}
  /\ fiber \in FiberStates
  /\ written \in Nat /\ goal \in Nat /\ sent \in Nat
  /\ verdict \in {"open", "done", "raised"}
  /\ permit \in BOOLEAN
  /\ worker \in {"idle", "take", "check", "owe", "signal", "resume"}
  /\ filter \in {"Waiting", "Streaming", "Responded", "Dropped"}
  /\ wire \in {"none", "head", "complete", "localReply", "reset", "gone"}
  /\ outcome \in {"none", "completed", "failed", "cancelled"}

\* The queue never holds more body bytes than its limit, although a write looks
\* at the room, parks and pushes in separate critical sections.
WithinBudget == stream.buffered_bytes =< MaxBufferedBytes

\* While a client is attached, the queue holds exactly the bytes accepted from
\* the fiber and not yet sent, in order and without a gap.
InOrder ==
  Attached =>
    /\ stream.buffered_bytes = written - sent
    /\ Ordered(stream.items, sent, written)

\* While a client is attached the head leads whatever else is queued, and
\* nothing follows the end or the failure.
Framed ==
  LET q == stream.items
  IN  Attached => \A i \in 1 .. Len(q) :
        /\ q[i].kind = "head" => i = 1 /\ filter = "Waiting"
        /\ q[i].kind \in {"chunk", "end"} => i > 1 \/ filter = "Streaming"
        /\ q[i].kind \in {"end", "failed"} => i = Len(q) /\ stream.ended

\* A response the client sees complete is one the application ended by itself,
\* with every byte it yielded: a body that raised, or that a shutdown stopped
\* under an attached client, never passes for a complete one (drain_stream
\* resets it).
CompleteIsWhole ==
  wire = "complete" => verdict = "done" /\ sent = goal

\* responses_total counts every request that ended once, and as what its client
\* saw: the races between the end, a failure and a disconnect do not miscount.
OutcomeMatchesWire ==
  /\ filter = "Dropped" => outcome # "none"
  /\ outcome = "completed" <=> wire = "complete"
  /\ outcome = "failed" <=> wire \in {"localReply", "reset"}
  /\ outcome = "cancelled" <=> wire = "gone"

\* The handle in the waiter slot, which the garbage collector cannot see, is
\* held only while the fiber is blocked on it; and a blocked fiber's handle is
\* there to be found.
WaiterIsParked ==
  /\ stream.waiter # NoFiber => fiber \in {"parked", "stopping"}
  /\ fiber = "parked" => stream.waiter # NoFiber

\* A writer parked on a queue that has room again, or is cancelled, is never
\* stranded: its wakeup is owed, or a step that will owe it is on its way.
NoStrandedWriter ==
  stream.waiter # NoFiber /\ (stream.cancelled \/ ~Full(stream)) =>
    \/ owed \/ reactor = "unpark" \/ fiber = "stopping"
    \/ worker \in {"take", "check", "owe", "resume"}
    \/ scheduled /\ Attached

\* What the queue holds is never forgotten: unless the client is over its
\* watermark, the worker is draining or an event that makes it drain is due.
NoForgottenItems ==
  Attached /\ stream.items # << >> /\ ~stream.paused =>
    \/ scheduled \/ worker \in {"take", "resume"}
    \/ fiber \in {"headWake", "closeWake", "chunkWake", "lastWake"}

\* A cancelled queue stays empty: nothing is buffered for a client that left.
CancelledHoldsNothing ==
  stream.cancelled => stream.items = << >> /\ stream.buffered_bytes = 0

\* A reactor that blocks does so with nothing owed that was signalled: "so the
\* next block is meaningful" (src/wake.rs, drain).
BlockIsMeaningful ==
  ReactorAt("wait") /\ owed /\ stream.waiter # NoFiber /\ worker # "signal" => socket

\* A request whose queue the departing client's filter cancelled is stopped at the
\* next pass of the reactor, and gives its admission permit back.
CancelledFreesPermit == stream.cancelled ~> ~permit

\* The reactor's deadline "bounds how long a request whose client has gone away
\* keeps running" (ruby/fiber_runner.rb): the filter is gone, so the permit is
\* returned, whatever the application does between its waits.
DisconnectBoundsFiber == filter = "Dropped" ~> ~permit

\* A parked writer goes on once the client reads again, or has left.
WriterResumes == <>[](~stream.paused) => (fiber = "parked" ~> fiber # "parked")

\* A response that was produced reaches its end at the client.
EndReachesClient == <>[](~stream.paused) => (fiber = "done" ~> ~Attached)
=============================================================================
