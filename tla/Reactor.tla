------------------------------ MODULE Reactor -------------------------------
(***************************************************************************)
(* The fiber runtime of src/fiber.rs and ruby/fiber_runner.rb: any number  *)
(* of Envoy workers submit calls through clones of one client; one Ruby    *)
(* thread takes the commands off a channel, runs a fiber per request and   *)
(* stops the ones whose client left; an owner asks it to shut down.        *)
(*                                                                         *)
(* A request's response queue is reduced to what the runtime sees of it:   *)
(* whether it was cancelled and how it was ended.  ResponsePath has the    *)
(* rest.  Every channel operation, socket operation and atomic counter     *)
(* update is one step; what a fiber does between two waits is one step     *)
(* where only the runtime's own state is concerned.                        *)
(***************************************************************************)
EXTENDS Ceiling, Naturals, Sequences, FiniteSets

CONSTANTS
  Requests,         \* requests the workers submit
  MainCalls         \* bound: calls Envoy's main thread makes

Loop == "reactor"             \* cpu: the reactor has the thread

ASSUME ReactorAssumption ==
  /\ IsFiniteSet(Requests) /\ Loop \notin Requests
  /\ Capacity \in Nat \ {0}
  /\ MainCalls \subseteq {"admin", "drain", "shutdown"}

VARIABLES
  call,       \* where each request is in FiberRuntimeClient::submit
  permit,     \* the requests whose Lease is alive
  gone,       \* the requests whose queue was cancelled, as the client left
  answer,     \* how each request's response queue was ended
  task,       \* each request's fiber
  admin,      \* the caller of FiberRuntimeClient::admin
  adminReply, \* the reply channel of the admin call holds an answer
  adminTask,  \* where the admin envelope is
  closer,     \* the caller of shutdown_inner
  ack,        \* the reply channel of the shutdown holds an answer
  channel,    \* commands sent and not received
  rx,         \* command_rx is "open" or "dropped"
  socket,     \* the wake socket holds an unread byte
  reactor,    \* where the runtime thread is
  cpu,        \* who runs on it: the reactor or a request's fiber
  batch,      \* the envelopes the last drain returned, not started yet
  todo,       \* running tasks the current sweep has not visited
  closing,    \* the last drain saw Shutdown
  hook        \* the task running the drain hooks

workerVars == <<call, permit, used, gone>>
adminVars == <<admin, adminReply, adminTask>>
closerVars == <<closer, ack>>
loopVars == <<reactor, batch, todo, closing>>
vars == <<call, permit, used, gone, answer, task, admin, adminReply, adminTask,
          closer, ack, channel, rx, socket, reactor, cpu, batch, todo, closing, hook>>

CallCommand(r) == [kind |-> "call", request |-> r]
AdminCommand == [kind |-> "admin"]
DrainCommand == [kind |-> "drain"]
ShutdownCommand == [kind |-> "shutdown"]

\* The application loaded and the reactor runs, or it did not and the thread
\* is retained to refuse what is asked of it.
Init ==
  /\ call = [r \in Requests |-> "new"]
  /\ permit = {}
  /\ used = 0
  /\ gone = {}
  /\ answer = [r \in Requests |-> "none"]
  /\ task = [r \in Requests |-> "none"]
  /\ admin = "idle" /\ adminReply = FALSE /\ adminTask = "none"
  /\ closer = "idle" /\ ack = FALSE
  /\ channel = << >>
  /\ rx = "open"
  /\ socket = FALSE
  /\ reactor \in {"wait", "retained"}
  /\ cpu = Loop
  /\ batch = {}
  /\ todo = {}
  /\ closing = FALSE
  /\ hook = "none"

-----------------------------------------------------------------------------
(* Envoy workers: FiberRuntimeClient::submit, and a filter going away. *)

\* Budget::try_acquire(1)
Admit(r) ==
  /\ call[r] = "new"
  /\ IF used < Capacity
     THEN /\ used' = used + 1
          /\ permit' = permit \cup {r}
          /\ call' = [call EXCEPT ![r] = "admitted"]
     ELSE /\ call' = [call EXCEPT ![r] = "refused"]
          /\ UNCHANGED <<used, permit>>
  /\ UNCHANGED <<gone, answer, task, adminVars, closerVars, channel, rx, socket, loopVars, cpu, hook>>

\* A Lease dropped with what holds it.
DropLease(S) ==
  /\ permit' = permit \ S
  /\ used' = used - Cardinality(permit \cap S)

\* command_tx.send: a closed channel hands the call back and its permit drops.
Send(r) ==
  /\ call[r] = "admitted"
  /\ IF rx = "open"
     THEN /\ channel' = Append(channel, CallCommand(r))
          /\ call' = [call EXCEPT ![r] = "sent"]
          /\ UNCHANGED <<permit, used>>
     ELSE /\ call' = [call EXCEPT ![r] = "refused"]
          /\ DropLease({r})
          /\ UNCHANGED channel
  /\ UNCHANGED <<gone, answer, task, adminVars, closerVars, rx, socket, loopVars, cpu, hook>>

\* wake::signal: the other end of the socket is gone with the receiver.
Signal(r) ==
  /\ call[r] = "sent"
  /\ call' = [call EXCEPT ![r] = IF rx = "open" THEN "accepted" ELSE "refused"]
  /\ socket' = (socket \/ rx = "open")
  /\ UNCHANGED <<permit, used, gone, answer, task, adminVars, closerVars, channel, rx, loopVars, cpu, hook>>

\* The filter is dropped and cancels the response queue.  (One dropped after it
\* forgot the queue, at the end of the response, tells nobody: no step here;
\* ResponsePath follows what becomes of such a request.)
Leave(r) ==
  /\ call[r] = "accepted" /\ r \notin gone
  /\ gone' = gone \cup {r}
  /\ UNCHANGED <<call, permit, used, answer, task, adminVars, closerVars, channel, rx, socket, loopVars, cpu, hook>>

-----------------------------------------------------------------------------
(* Envoy's main thread: an admin request, the drain callback, shutdown. *)

\* Envoy's main thread makes these calls one at a time, each to its end.
MainIdle ==
  /\ admin \notin {"sent", "waiting"} /\ hook # "sent"
  /\ closer \notin {"sent", "waiting", "acked"}

AdminSend ==
  /\ "admin" \in MainCalls /\ admin = "idle" /\ MainIdle
  /\ IF rx = "open"
     THEN admin' = "sent" /\ channel' = Append(channel, AdminCommand)
     ELSE admin' = "refused" /\ UNCHANGED channel
  /\ UNCHANGED <<adminReply, adminTask, workerVars, answer, task, closerVars, rx, socket, loopVars, cpu, hook>>

AdminSignal ==
  /\ admin = "sent"
  /\ admin' = IF rx = "open" THEN "waiting" ELSE "refused"
  /\ socket' = (socket \/ rx = "open")
  /\ UNCHANGED <<adminReply, adminTask, workerVars, answer, task, closerVars, channel, rx, loopVars, cpu, hook>>

\* recv_timeout: an answer, the time is up, or the sender is gone.
AdminReturns ==
  /\ admin = "waiting"
  /\ admin' = IF adminReply THEN "answered" ELSE "gaveUp"
  /\ UNCHANGED <<adminReply, adminTask, workerVars, answer, task, closerVars, channel, rx, socket, loopVars, cpu, hook>>

\* FiberRuntimeClient::drain; Envoy drains once, before it shuts down.
Drain ==
  /\ "drain" \in MainCalls /\ hook = "none" /\ closer = "idle" /\ MainIdle
  /\ hook' = "sent"
  /\ channel' = Append(channel, DrainCommand)
  /\ UNCHANGED <<workerVars, answer, task, adminVars, closerVars, rx, socket, loopVars, cpu>>

DrainSignal ==
  /\ hook = "sent"
  /\ hook' = "queued"
  /\ socket' = (socket \/ rx = "open")
  /\ UNCHANGED <<workerVars, answer, task, adminVars, closerVars, channel, rx, loopVars, cpu>>

ShutdownSend ==
  /\ "shutdown" \in MainCalls /\ closer = "idle" /\ MainIdle
  /\ IF rx = "open"
     THEN closer' = "sent" /\ channel' = Append(channel, ShutdownCommand)
     ELSE closer' = "error" /\ UNCHANGED channel
  /\ UNCHANGED <<ack, workerVars, answer, task, adminVars, rx, socket, loopVars, cpu, hook>>

ShutdownSignal ==
  /\ closer = "sent"
  /\ closer' = IF rx = "open" THEN "waiting" ELSE "error"
  /\ socket' = (socket \/ rx = "open")
  /\ UNCHANGED <<ack, workerVars, answer, task, adminVars, channel, rx, loopVars, cpu, hook>>

\* The reply, then the join; or the time is up and the thread is left alone.
ShutdownReturns ==
  /\ \/ /\ closer = "waiting"
        /\ closer' = IF ack THEN "acked" ELSE "error"
     \/ /\ closer = "acked" /\ reactor \in {"ended", "leaked"}
        /\ closer' = IF reactor = "ended" THEN "joined" ELSE "error"
  /\ UNCHANGED <<ack, workerVars, answer, task, adminVars, channel, rx, socket, loopVars, cpu, hook>>

-----------------------------------------------------------------------------
(* The request fibers. *)

Running == {r \in Requests : task[r] \in {"running", "unwinding"}}

FiberAt(r, state) == cpu = r /\ task[r] = state

\* A fiber gives the thread away where it waits, in the application or, while
\* it unwinds, in its cleanup.
FiberYield(r) ==
  /\ FiberAt(r, "running") \/ FiberAt(r, "unwinding")
  /\ cpu' = Loop
  /\ UNCHANGED <<workerVars, answer, task, adminVars, closerVars, channel, rx, socket, loopVars, hook>>

\* While the reactor waits, or waits for the last tasks, the event loop runs
\* any fiber that is ready.
FiberResume(r) ==
  /\ cpu = Loop /\ reactor \in {"wait", "waitAll"} /\ r \in Running
  /\ cpu' = r
  /\ UNCHANGED <<workerVars, answer, task, adminVars, closerVars, channel, rx, socket, loopVars, hook>>

\* The end, or the failure, goes into the queue unless it was cancelled.
Answer(r, how) == answer' = [answer EXCEPT ![r] = IF r \in gone THEN @ ELSE how]

\* Mutant of FiberEnds: the permit goes before the fiber is done with it.
FiberEndsEarly(r) ==
  /\ FiberAt(r, "running")
  /\ \E how \in {"end", "failure"} : Answer(r, how)
  /\ task' = [task EXCEPT ![r] = "releasing"]
  /\ DropLease({r})
  /\ UNCHANGED <<call, gone, adminVars, closerVars, channel, rx, socket, loopVars, cpu, hook>>

\* FiberBridge::execute, the application having returned or raised ...
FiberEnds(r) ==
  /\ FiberAt(r, "running")
  /\ \E how \in {"end", "failure"} : Answer(r, how)
  /\ task' = [task EXCEPT ![r] = "releasing"]
  /\ UNCHANGED <<workerVars, adminVars, closerVars, channel, rx, socket, loopVars, cpu, hook>>

\* ... or the stop having unwound it.
FiberUnwound(r) ==
  /\ FiberAt(r, "unwinding")
  /\ Answer(r, "failure")
  /\ task' = [task EXCEPT ![r] = "releasing"]
  /\ UNCHANGED <<workerVars, adminVars, closerVars, channel, rx, socket, loopVars, cpu, hook>>

\* drop(call.permit), and the task leaves `running`.
FiberReleases(r) ==
  /\ FiberAt(r, "releasing")
  /\ DropLease({r})
  /\ task' = [task EXCEPT ![r] = "done"]
  /\ cpu' = Loop
  /\ UNCHANGED <<call, gone, answer, adminVars, closerVars, channel, rx, socket, loopVars, hook>>

HookReturns ==
  /\ hook = "running" /\ cpu = Loop /\ reactor \in {"wait", "waitAll"}
  /\ hook' = "done"
  /\ UNCHANGED <<workerVars, answer, task, adminVars, closerVars, channel, rx, socket, loopVars, cpu>>

-----------------------------------------------------------------------------
(* The reactor loop. *)

ReactorAt(pc) == cpu = Loop /\ reactor = pc

WakeByte ==
  /\ ReactorAt("wait") /\ socket
  /\ reactor' = "drain"
  /\ UNCHANGED <<workerVars, answer, task, adminVars, closerVars, channel, rx, socket, batch, todo, closing, cpu, hook>>

Heartbeat ==
  /\ ReactorAt("wait")
  /\ reactor' = "drain"
  /\ UNCHANGED <<workerVars, answer, task, adminVars, closerVars, channel, rx, socket, batch, todo, closing, cpu, hook>>

DrainSocket ==
  /\ ReactorAt("drain")
  /\ socket' = FALSE
  /\ reactor' = "receive"
  /\ UNCHANGED <<workerVars, answer, task, adminVars, closerVars, channel, rx, batch, todo, closing, cpu, hook>>

\* One try_recv.  Shutdown ends the batch; what follows it stays queued.
Receive ==
  /\ ReactorAt("receive")
  /\ IF channel = << >>
     THEN /\ reactor' = "start"
          /\ UNCHANGED <<channel, batch, adminTask, hook, closing>>
     ELSE LET command == Head(channel)
          IN  /\ channel' = Tail(channel)
              /\ batch' = IF command.kind = "call" THEN batch \cup {command.request} ELSE batch
              /\ adminTask' = IF command.kind = "admin" THEN "batch" ELSE adminTask
              /\ hook' = IF command.kind = "drain" THEN "batch" ELSE hook
              /\ closing' = (command.kind = "shutdown")
              /\ reactor' = IF command.kind = "shutdown" THEN "start" ELSE "receive"
  /\ UNCHANGED <<workerVars, answer, task, admin, adminReply, closerVars, rx, socket, todo, cpu>>

\* Each envelope gets a task, which runs until it first waits.
StartTask(r) ==
  /\ ReactorAt("start") /\ r \in batch
  /\ batch' = batch \ {r}
  /\ task' = [task EXCEPT ![r] = "running"]
  /\ cpu' = r
  /\ UNCHANGED <<workerVars, answer, adminVars, closerVars, channel, rx, socket, reactor, todo, closing, hook>>

\* Ruvoy::Admin.handle answers without waiting; nobody may be listening.
StartAdmin ==
  /\ ReactorAt("start") /\ batch = {} /\ adminTask = "batch"
  /\ adminTask' = "done"
  /\ adminReply' = TRUE
  /\ UNCHANGED <<workerVars, answer, task, admin, closerVars, channel, rx, socket, loopVars, cpu, hook>>

StartHook ==
  /\ ReactorAt("start") /\ batch = {} /\ adminTask # "batch" /\ hook = "batch"
  /\ hook' = "running"
  /\ UNCHANGED <<workerVars, answer, task, adminVars, closerVars, channel, rx, socket, loopVars, cpu>>

\* Mutant of BeginSweep: the wake bytes are read after the channel, too.
BeginSweepDrains ==
  /\ ReactorAt("start") /\ batch = {} /\ adminTask # "batch" /\ hook # "batch"
  /\ reactor' = "sweep"
  /\ todo' = Running
  /\ socket' = FALSE
  /\ UNCHANGED <<workerVars, answer, task, adminVars, closerVars, channel, rx, batch, closing, cpu, hook>>

BeginSweep ==
  /\ ReactorAt("start") /\ batch = {} /\ adminTask # "batch" /\ hook # "batch"
  /\ reactor' = "sweep"
  /\ todo' = Running
  /\ UNCHANGED <<workerVars, answer, task, adminVars, closerVars, channel, rx, socket, batch, closing, cpu, hook>>

\* running.each { |envelope, task| task.stop if envelope.cancelled? }, or
\* running.each_value(&:stop): a stopped fiber unwinds at once.
Visit(r, stops) ==
  /\ r \in todo
  /\ todo' = todo \ {r}
  /\ IF stops
     THEN task' = [task EXCEPT ![r] = "unwinding"] /\ cpu' = r
     ELSE UNCHANGED <<task, cpu>>
  /\ UNCHANGED <<workerVars, answer, adminVars, closerVars, channel, rx, socket, reactor, batch, closing, hook>>

\* Mutant of SweepCancelled: nobody looks at the flag.
SweepNobody(r) == ReactorAt("sweep") /\ Visit(r, FALSE)

SweepCancelled(r) == ReactorAt("sweep") /\ Visit(r, r \in gone)

\* Mutant of SweepAll: wait_all without the stop before it.
SweepWaitsOnly(r) == ReactorAt("stopAll") /\ Visit(r, FALSE)

SweepAll(r) == ReactorAt("stopAll") /\ Visit(r, TRUE)

EndSweep ==
  /\ ReactorAt("sweep") /\ todo = {}
  /\ reactor' = IF closing THEN "stopAll" ELSE "wait"
  /\ todo' = IF closing THEN Running ELSE {}
  /\ UNCHANGED <<workerVars, answer, task, adminVars, closerVars, channel, rx, socket, batch, closing, cpu, hook>>

EndStopAll ==
  /\ ReactorAt("stopAll") /\ todo = {}
  /\ reactor' = "waitAll"
  /\ UNCHANGED <<workerVars, answer, task, adminVars, closerVars, channel, rx, socket, batch, todo, closing, cpu, hook>>

\* Mutant of AckShutdown: acknowledged before wait_all has returned.
AckAtOnce ==
  /\ ReactorAt("waitAll")
  /\ ack' = closing
  /\ reactor' = IF hook = "raised" THEN "leaked" ELSE "cleanup"
  /\ UNCHANGED <<workerVars, answer, task, adminVars, closer, channel, rx, socket, batch, todo, closing, cpu, hook>>

\* parent.wait_all returned, or the error leaves the event loop: the ensure of
\* the runner acknowledges the shutdown if one was received.  After an error the
\* VM is leaked, and the receiver with it.
AckShutdown ==
  /\ ReactorAt("waitAll") /\ Running = {} /\ hook # "running"
  /\ ack' = closing
  /\ reactor' = IF hook = "raised" THEN "leaked" ELSE "cleanup"
  /\ UNCHANGED <<workerVars, answer, task, adminVars, closer, channel, rx, socket, batch, todo, closing, cpu, hook>>

QueuedCalls == {r \in Requests : \E i \in DOMAIN channel : channel[i] = CallCommand(r)}

\* Mutant of DropReceiver: the calls still queued keep their permits.
DropReceiverOnly ==
  /\ reactor = "cleanup" /\ cpu = Loop
  /\ reactor' = "ended"
  /\ rx' = "dropped"
  /\ channel' = << >>
  /\ UNCHANGED <<workerVars, answer, task, adminVars, closerVars, socket, batch, todo, closing, cpu, hook>>

\* The thread ends: the VM's cleanup, or the failed runtime's return, frees the
\* receiver, and what was still queued is dropped with its permits.
DropReceiver ==
  /\ reactor = "cleanup" /\ cpu = Loop
  /\ reactor' = "ended"
  /\ rx' = "dropped"
  /\ channel' = << >>
  /\ DropLease(QueuedCalls)
  /\ UNCHANGED <<call, gone, answer, task, adminVars, closerVars, socket, batch, todo, closing, cpu, hook>>

\* A drain hook raised what Lifecycle.drain does not rescue (SystemExit and
\* the like): it leaves the event loop, which stops every task on its way out.
ReactorFails ==
  /\ hook = "running" /\ cpu = Loop /\ reactor \in {"wait", "waitAll"}
  /\ hook' = "raised"
  /\ reactor' = "stopAll"
  /\ todo' = Running
  /\ UNCHANGED <<workerVars, answer, task, adminVars, closerVars, channel, rx, socket, batch, closing, cpu>>

\* retain_failed_runtime: every call fails with the startup error, an admin
\* request is answered, and a shutdown ends the thread.
RetainedReceives ==
  /\ ReactorAt("retained") /\ channel # << >>
  /\ channel' = Tail(channel)
  /\ LET command == Head(channel)
     IN  CASE command.kind = "call" ->
                /\ answer' = [answer EXCEPT ![command.request] =
                                IF command.request \in gone THEN @ ELSE "failure"]
                /\ DropLease({command.request})
                /\ UNCHANGED <<adminReply, ack, reactor>>
           [] command.kind = "admin" ->
                /\ adminReply' = TRUE
                /\ UNCHANGED <<answer, permit, used, ack, reactor>>
           [] command.kind = "drain" ->
                UNCHANGED <<answer, permit, used, adminReply, ack, reactor>>
           [] command.kind = "shutdown" ->
                /\ ack' = TRUE
                /\ reactor' = "cleanup"
                /\ UNCHANGED <<answer, permit, used, adminReply>>
  /\ UNCHANGED <<call, gone, task, admin, adminTask, closer, rx, socket, batch, todo, closing, cpu, hook>>

-----------------------------------------------------------------------------

ReactorPass ==
  \/ DrainSocket \/ Receive \/ StartAdmin \/ StartHook \/ BeginSweep \/ EndSweep
  \/ EndStopAll \/ AckShutdown \/ DropReceiver \/ RetainedReceives
  \/ \E r \in Requests : StartTask(r) \/ SweepCancelled(r) \/ SweepAll(r)

FiberStep(r) == FiberYield(r) \/ FiberEnds(r) \/ FiberUnwound(r) \/ FiberReleases(r)

ClientStep ==
  \/ \E r \in Requests : Send(r) \/ Signal(r)
  \/ AdminSignal \/ DrainSignal \/ ShutdownSignal

Next ==
  \/ ReactorPass \/ WakeByte \/ Heartbeat \/ ReactorFails \/ HookReturns
  \/ ClientStep \/ AdminSend \/ AdminReturns \/ Drain \/ ShutdownSend \/ ShutdownReturns
  \/ \E r \in Requests : Admit(r) \/ Leave(r) \/ FiberResume(r) \/ FiberStep(r)

Spec == Init /\ [][Next]_vars

\* The threads keep running; the event loop polls the reactor's deadline and the
\* ready fibers in turn; a fiber does not hold the thread for ever; and what runs
\* while a request is torn down, the application's cleanup and drain hooks,
\* returns.  Nothing makes the application's own work return.
Fairness ==
  /\ WF_vars(ClientStep) /\ WF_vars(ReactorPass)
  /\ SF_vars(Heartbeat) /\ SF_vars(HookReturns)
  /\ \A r \in Requests :
       /\ WF_vars(FiberStep(r)) /\ SF_vars(FiberUnwound(r))
       /\ SF_vars(FiberResume(r) /\ task[r] = "unwinding")

FairSpec == Spec /\ Fairness

-----------------------------------------------------------------------------
(* Properties. *)

Commands == {AdminCommand, DrainCommand, ShutdownCommand} \cup {CallCommand(r) : r \in Requests}

\* Every variable has the type the code gives it.
TypeOK ==
  /\ call \in [Requests -> {"new", "admitted", "sent", "accepted", "refused"}]
  /\ permit \subseteq Requests /\ used \in Nat /\ gone \subseteq Requests
  /\ answer \in [Requests -> {"none", "end", "failure"}]
  /\ task \in [Requests -> {"none", "running", "unwinding", "releasing", "done"}]
  /\ admin \in {"idle", "sent", "waiting", "answered", "gaveUp", "refused"}
  /\ adminReply \in BOOLEAN /\ adminTask \in {"none", "batch", "done"}
  /\ closer \in {"idle", "sent", "waiting", "acked", "joined", "error"}
  /\ ack \in BOOLEAN
  /\ channel \in Seq(Commands)
  /\ rx \in {"open", "dropped"} /\ socket \in BOOLEAN
  /\ reactor \in {"wait", "drain", "receive", "start", "sweep", "stopAll", "waitAll",
                   "cleanup", "ended", "leaked", "retained"}
  /\ cpu \in Requests \cup {Loop}
  /\ batch \subseteq Requests /\ todo \subseteq Requests /\ closing \in BOOLEAN
  /\ hook \in {"none", "sent", "queued", "batch", "running", "raised", "done"}

\* The shared counter is exactly the leases alive and never over the ceiling,
\* whatever path a call takes, and capacity is held for as long as the response
\* is being produced, or may still be: a call queued, about to start, running or
\* unwinding has its permit.
PermitCoversWork ==
  /\ used = Cardinality(permit) /\ used =< Capacity
  /\ \A r \in Requests :
       (r \in QueuedCalls \cup batch \cup Running \/ task[r] = "releasing") => r \in permit

Unsignalled(command) ==
  \/ command.kind = "call" /\ call[command.request] = "sent"
  \/ command.kind = "admin" /\ admin = "sent"
  \/ command.kind = "drain" /\ hook = "sent"
  \/ command.kind = "shutdown" /\ closer = "sent"

\* The reactor never blocks over a command whose wake byte it has already
\* consumed: drain empties the socket before it empties the channel.
NoCommandAsleep ==
  ReactorAt("wait") /\ ~socket =>
    \A i \in DOMAIN channel : Unsignalled(channel[i])

\* The owner is told the runtime stopped only when no request's fiber and no
\* drain hook is left on the Ruby thread, and every fiber that was stopped for it
\* has told its worker how the request ended, unless the client had left.
AckMeansQuiet ==
  ack => /\ Running = {} /\ hook # "running" /\ cpu = Loop
         /\ \A r \in Requests : task[r] = "done" => answer[r] # "none" \/ r \in gone

\* Once shutdown has returned, the only permits out are of callers that have
\* not tried to send yet, and those will be refused.
ShutdownReturnsPermits ==
  closer = "joined" => \A r \in permit : call[r] = "admitted"

\* The client "refuses them once the runtime has stopped"
\* (crates/ruvoy-envoy-fiber/src/runtime.rs): no call is accepted by a runtime
\* whose thread has ended, however it ended.
StoppedRefuses ==
  [][\A r \in Requests :
       reactor \in {"ended", "leaked"} /\ call[r] = "admitted" => call'[r] # "sent"]_vars

\* A request whose queue the departing client's filter cancelled gives its permit
\* back, wherever it was: queued, waiting, or behind a shutdown.  (A runtime that failed keeps what it held: its
\* VM is leaked.)
GoneFreesPermit ==
  \A r \in Requests : r \in gone ~> (r \notin permit \/ reactor = "leaked")

\* A shutdown that was sent ends the runtime thread, whatever the requests do.
ShutdownEnds == closer = "sent" ~> reactor \in {"ended", "leaked"}
=============================================================================
