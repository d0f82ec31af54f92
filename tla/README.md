# A verification project for Ruvoy

Ruvoy runs a Ruby Rack application inside Envoy. Envoy's worker threads speak
HTTP; one CRuby thread runs an Async event loop with a fiber per request; owned
Rust messages cross between them. Workers never enter Ruby and the Ruby thread
never calls Envoy, so everything the two sides know of each other goes through
queues protected by a mutex, an atomic counter, a command channel, a socket pair
used as a doorbell, and Envoy's scheduled events. That hand-off is what this
project models, checks with TLC and proves about with TLAPS.

Paths below are relative to the repository root, `src/`.

## 1. Inventory

| Component | State | Operations | Interacts through |
|---|---|---|---|
| Chunk queue, `src/stream.rs` | items, byte count, `cancelled`, `ended`, `paused`, the parked fiber's handle | `push_*`, `take_next`, `park`, `park_writer`, `unpark`, `cancel`, `set_paused` | a mutex; the same structure serves the response, the request body and both directions of an upstream exchange |
| Response path, `rack.rs`, `chunks.rs`, `ruby/stream.rb`, `ruby/rack_streaming_body_reader.rb`, `worker.rs` | where the fiber is in its body; `FilterState`; what Envoy was given | `respond`, `Stream.write`, `Park.on`, `drain_stream`, watermark callbacks, `Drop` | the queue, scheduled events, owed wakeups, the wake socket |
| Fiber runtime, `src/fiber.rs`, `ruby/fiber_runner.rb`, `src/wake.rs`, `ruby/lifecycle.rb` | command channel, `running`, `shutdown_reply`, heartbeat | `submit`, `admin`, `drain`, `shutdown`, one pass of the reactor, `retain_failed_runtime` | channel and socket from any worker and from Envoy's main thread |
| Admission budget, `src/budget.rs` | `used`, `capacity` | `try_acquire`, `Lease::drop` | atomics |
| Request path, `worker.rs`, `chunks.rs`, `ruby/request_body.rb` | request queue, `request_end_pending`, the bytes kept for rewinding | `on_request_*`, `forward_request_body`, `read`, `gets`, `rewind`, `detach` | a second chunk queue in the other direction |
| Upstream calls and streams, `crates/ruvoy-envoy-fiber/src/upstream.rs`, `src/upstream.rs`, `ruby/upstream.rb` | queued and in-flight calls, open streams, their outcome | dispatch, deliver, pump, reset, overflow, abandon | two chunk queues per exchange, `UPSTREAM_EVENT_ID` |
| Process runtime, `runtime.rs`, `bootstrap.rs` | the one runtime of the process, its settings, readiness, the exit handler | start, join, admin, drain, shutdown | process-wide cells used by every listener and by Envoy's stages |
| Serial runtime, `src/sync.rs`, `ruvoy-envoy-sync` | command channel, `ResultSlot`, `FilterState` | `call`, `submit`, `shutdown`, the filter's callbacks | channel and socket, `RESPONSE_EVENT_ID` |
| Header conversion, `rack.rs`, `extensions.rs`, `upstream.rs` | none: one exchange's head | environment, proxied and own response heads, upgrades | calls |
| Offload, context, metrics, command line, baseline filter | none, or a counter | conversions and I/O | - |

What is hard here, and what each component must get right:

- *Three parties, several locks.* A write looks for room, parks and pushes under
  three acquisitions of the queue's lock, while the worker drains, is told that
  the client is slow, or disappears. The queue must stay bounded and in order,
  and no fiber may be left parked with nobody to wake it.
- *Doorbells.* A wakeup is recorded and then signalled; the reactor reads the
  bell and the records at different moments. No command may be slept over.
- *Endings.* A response can be ended by the body, by `close_write`, by an
  exception, by `Async::Stop` and by the client leaving; exactly one counts, the
  client must never take part of a body for the whole, and `responses_total`
  must agree with what the client saw.
- *Permits.* Every path out of a request gives its permit back once, and not
  before its work is over.
- *Shutdown.* It is acknowledged only when Ruby is quiet, whatever is queued or
  running, and nothing is accepted afterwards.

- *Exchanges with an upstream.* Five parties can end one: the upstream, Envoy,
  the reading fiber, the fiber that uploads, and the end of the request, several
  of them in one turn and some from inside a call of the worker's. Each call is
  counted once, nobody stays parked, and an end that is read is a true end.
- *One VM per process.* Configurations are loaded again and again, applications
  fail to load, the process leaves by two doors; the VM is made once and never
  outlives what it uses, and Envoy's main thread always comes back.
- *Agreement.* An upgrade is agreed by client, application and upstream through
  several spellings of the same two fields; what is merely passed on stays as it was.

`PROJECT.json` lists these hazards with the line where each bites and the
properties that cover it.

## 2. Modules

| Module | What it is |
|---|---|
| `ResponseStream` | the chunk queue: one operator per method, on a record |
| `ResponsePath` | one response: fiber, reactor and worker around one queue |
| `RequestPath` | one request body: Envoy's buffers, worker, queue and reading fiber |
| `Reactor`, `MCReactor` | the fiber runtime with any number of requests; MC adds symmetry |
| `UpstreamStream` | one streamed exchange: reading fiber, uploading fiber, worker, Envoy |
| `UpstreamCalls` | the buffered calls of one request; implements `Answers` |
| `SyncRuntime` | the serial runtime, its owner, filters and blocking callers; implements `Answers` |
| `ProcessRuntime` | the one runtime of a process, from bootstrap to exit |
| `RackExchange` | the head of one exchange, client to application to client |
| `Answers` | abstract: asked, decided at most once, learned as decided at most once |
| `Admission` | abstract: a pool of at most `Capacity` permits |
| `Ceiling` | the counter and its limit, which `Budget` and `Reactor` share |
| `Budget` | the lock-free operations on the counter; implements `Admission` |
| `ResponseStreamProofs` | lemmas about the queue's operators |
| `ResponsePathProofs` | the inductive invariant of `ResponsePath` and its theorems |
| `RequestPathProofs` | the inductive invariant of `RequestPath` and its theorems |
| `ReactorProofs` | the inductive invariant of `Reactor` and its theorems; the invariant of `Budget` and its refinement |
| `ProcessRuntimeProofs` | the inductive invariant of `ProcessRuntime` and its theorems |
| `SyncRuntimeProofs` | the inductive invariant of `SyncRuntime`, and that it implements `Answers` |
| `UpstreamStreamProofs` | the inductive invariant of `UpstreamStream` and its theorems |
| `UpstreamCallsProofs` | the inductive invariant of `UpstreamCalls`, and that it implements `Answers` |

Operators and actions carry the source's names where TLA+ allows it; the `map`
of `PROJECT.json` gives the lines each stands for. A definition that starts with
"Mutant of" in its comment is a deliberately wrong variant used to show that a
property can fail; no specification uses it.

### ResponseStream

A queue is a record with the fields of `ResponseStreamInner`. Bytes are
positions in the body: an item `[kind, from, upto]` stands for bytes
`from..upto-1`; heads, ends and failures stand for no byte. So "in order,
nothing lost, nothing twice" is a statement about numbers, `Ordered(q, lo, hi)`.

### ResponsePath

One step is one acquisition of a lock, one socket operation or one commit of an
event. The fiber and the reactor loop share a thread (`cpu`): control passes only
where a fiber waits (`FiberYield`, `ParkOnSink`), is started (`Receive`), resumed
(`FiberResume`) or stopped (`StopCancelled`, and `StopAll` in the last pass of a
runtime that shuts down). The worker's callbacks run one at a time but interleave
with the Ruby thread at every step; a watermark callback comes at any time while the
filter has its queue, also inside `drain_stream`, from Envoy's `send_response_data`.

| Variables | Code |
|---|---|
| `stream` | the `Arc<ResponseStream>` both sides hold |
| `owed`, `socket`, `scheduled` | the queue is in `Wakeups`; an unread wake byte; `RESPONSE_EVENT_ID` committed |
| `fiber`, `written`, `goal`, `verdict` | where the fiber is; bytes accepted and yielded; how the application ended its body |
| `permit` | `FiberCall.permit` |
| `worker`, `filter` | where the worker is; `FilterState`, with "Dropped" after `Drop` |
| `wire`, `sent`, `outcome` | what the client was shown; the label counted in `responses_total` |

The application is arbitrary: it may yield any chunks, wait, raise, return, close
its write side early and go on. The client may be slow, or leave, at any time.
A stop is delivered where the fiber waits, with the client gone or, in a shutdown,
still there, and the exception leaves through `execute`, which pushes a failure and
drops the permit. When a shutdown is through with both sides nothing is left to
happen (`Ended`, a stutter).

### RequestPath

The queue in the other direction. Envoy holds the `retained` bytes and, during a
callback, the `received` frame behind them; what a callback leaves of the frame is
retained, and a filter ahead may deliver bytes again, which both accessors then
name. `forward_request_body` is a computation of the room, a push per slice of
Envoy's buffers (of whatever size Envoy cut them in), the end if it is due and
nothing is left, and the wakeup. The fiber reads up to a position (`read`, `gets`,
`each`) or to the end, pulls every queued chunk first, then looks whether it has
enough or the queue is finished, then parks: three critical sections per turn.
`rewind` moves the position; `detach` hands the rest to the response stream,
which reads by the same three steps and keeps nothing. The doorbell is left out
here: the reactor may make a pass whenever it has the thread.

A body cut short by a disconnect reads as an ended one to an application that is
not stopped first; `EndIsTrue` therefore excepts a cancelled queue.

### Reactor

Many requests, with the queue of each reduced to "cancelled" and "how it ended".
`call[r]` follows `submit` through its three steps (acquire, send, signal);
`task[r]` follows the fiber; `reactor` follows a pass of `fiber_runner.rb`:
drain the socket, receive until empty or `Shutdown`, start a task per envelope,
sweep the cancelled; on shutdown stop all, wait for all, acknowledge, and drop
the receiver with the VM. `Init` includes the runtime whose application failed
to load (`retain_failed_runtime`). A drain hook that raises something other than
a `StandardError` leaves `Lifecycle.drain` and the event loop (`ReactorFails`);
the tasks are stopped and the VM is leaked with its receiver.

### Budget and Admission

`Ceiling` declares the counter and its limit; `Reactor` and `Budget` both extend it.
`Budget` has one step per atomic operation. A relaxed load may return any value
the counter ever had, and the weak exchange may fail spuriously. Every caller in
the repository acquires one unit, so a lease stands for one. `Admission` is the
promise: a set of at most `Capacity` holders; the mapping is the set of threads
that hold a lease.

### UpstreamStream

One exchange over the two queues of a `StreamChannel`. A callback of the worker is
a list of steps left, `worker`, each of which touches the channel, the wakeups or
the counter once: `HeadersArrived`, `DataArrived`, `TrailersArrived`, `OnComplete`,
`OnReset`, `OnScheduled` and `OnStreamComplete` put their list in front, and
`WorkerStep` takes it off. A send or a reset of the pump leaves the step "inside",
during which Envoy may call back, so ends arrive in the middle of a pump as they do
in Envoy. Closing the channel is such a list too, `closing`, of the fiber that has
the thread. `mode` is "plain", with a "body" that a fiber of its own uploads, or
asking for a "protocol", relayed both ways once it is agreed. The worker takes any
valid 101 for an upgrade (`stream.upgraded`); only a fiber that asked relays. The
reader of a relay that is through with its direction waits for the other one
(`AwaitsUpload`) and may be stopped there. `result` is what the reader was told,
`counted` what `upstream_calls_total` was told.

### UpstreamCalls

The calls of one request that wait for a whole answer. A call is with its route
(`queued`), with the worker's `batch`, with Envoy (`in_flight`, `out`) or in the
worker's `hand`, whose list `todo` delivers head, body and end one lock at a time.
`TimeoutMs` is the conversion of `upstream.rs`: at least one millisecond, because
Envoy reads zero as no deadline. The mapping to `Answers`: `outcome` is the
decision; what the fiber returned or raised is what it learned, and a body of
another length than Envoy's answer is not that answer.

### SyncRuntime

One thread and one request at a time. The channel holds commands by their senders;
a sender sends and then signals; the thread drains the bell and polls the channel
until it is empty, runs a command, and leaves at a `Shutdown` or a panic, first
closing the socket and then dropping the channel with what is in it. Filters buffer
their body, submit and are scheduled when their slot is filled; callers and the
owner wait on a reply channel with a timeout.

### ProcessRuntime

Envoy's stages (`envoy`), the bootstrap entries still to load, the main thread's
waits (`main`), `PROCESS_RUNTIME` (`cell`, `active`), its runtime (`slot`), the
exit handler (`hook`) and the thread that owns the VM (`ruby`). Entries are parsed,
their rackup resolved, the first one started and the others joined or refused; a
filter configuration joins what is ready. The application may fail to load, its
hooks may raise, the reactor may fail, and any wait of the main thread may time out.
A thread that ended with an error, its application not loaded or its VM leaked, makes
the join an error too (`Joined`).

### RackExchange

Fields into the environment (`BuildEnv`), an upstream's fields into a Rack headers
hash (`Proxy`) or the application's own entries (`Answer`), the hash back into
fields and the upgrade settled (`Respond`), and what Envoy is given
(`SendResponseHead`). A field that lists several tokens stands for as many fields;
names and values are members of small sets. The value "raw" stands for bytes that are
no UTF-8, which `from_utf8_lossy` replaces (`Text`). An entry of the hash is a String or
an Array (`S`, `A`), and `AddHeader` has the three cases of `rack_headers`. An upstream
may send any name, those that start with `rack.` included: `head_of` keeps them,
`accepted_protocol` takes the first `rack.protocol` for the application's, and
`send_response_head` drops the rest.

## 3. Runs

| Run | Bounds | Shows |
|---|---|---|
| `response_path` | limit 2, body up to 3 bytes in chunks of 1 or 3 | bound, order, truncation, accounting, wakeups; permits come back, writers go on, ends arrive |
| `request_path` | limit 2, body up to 4 bytes in any frames and slices, reads of 1, 2 or all | order, bound, place of the end, no reader stranded, nothing held back but for room; parked readers hear the end |
| `reactor` | 3 requests, 2 permits, one admin call, one drain, one shutdown | accounting of permits, doorbell, shutdown |
| `reactor_live` | 2 requests, 2 permits, a shutdown | permits of departed clients come back; shutdown ends the thread |
| `budget` | 3 threads, capacity 2 | the counter is exact and implements the pool |
| `upstream_stream` | limit 1, response up to 2 bytes, no request body | no reader stranded, ends true, handles live, streams given up are reset |
| `upstream_upload` | limit 1, request body of 2 bytes, response up to 1; uploads and upgrades | order both ways, no upload stranded, every call counted once |
| `upstream_missed` | limit 1, response up to 1 byte | the finding of section 4 |
| `upstream_calls` | 2 calls, deadlines of 0 and 1 microseconds | no call lost, `Answers` kept, callers go on |
| `sync` | a filter, a caller, the owner; a body limit of 1 | turned away is not run, `Answers` kept, callers and owner return |
| `process` | 2 rackups, up to 2 bootstrap entries, a filter configuration | one VM, first settings final, no VM left behind, the main thread comes back |
| `rack_exchange` | 2 client fields, 4 upstream fields, 3 entries | what is passed on is kept as text; an upgrade is agreed and whole |

Why the bounds are enough to be interesting. *Response*: with limit 2 and a chunk
of 3 the writer is split, parks in the middle of a chunk and parks again; a chunk of
1 fits twice, so several chunks queue up. *Request*: four bytes through a queue of
two let a new frame arrive while the rest of an earlier one is still retained and
there is room for part of both, the one case in which a frame could overtake.
*Reactor and budget*: three requests over two permits have one refused, one queued
and one running, in every order with the calls of the main thread; three threads
over two units are the smallest race in which a stale admission overshoots. The main
thread makes its calls one at a time, as Envoy does, and drains at most once.
*Upstream*: two response bytes over a limit of one overflow in two frames and fit in
one, whichever Envoy cuts; two request bytes over a limit of one make the upload park
between them; a second request byte is never needed for the response and a second
response byte never for the upload, which is why there are two runs. *Calls*: two
share the worker's batch, so one is refused, abandoned or answered while the other
waits; a deadline below Envoy's unit is the one that rounds. *Sync*: one filter, one
caller and the owner race for the channel and its end. *Process*: two entries are
the first and any later one, equal, different or invalid; every generation after
that repeats the second. *Rack*: two fields make an upgrade; of four, one is the
status and three let a name have three values, so every case of `rack_headers` is met.

`reactor_live` has two requests and a shutdown. A drain with them takes TLC's liveness
check past five minutes, so the reactor that fails in a drain hook, the exception in
`GoneFreesPermit` and `ShutdownEnds`, has a configuration of its own with one request,
`ReactorLiveDrain.cfg` (module `Reactor`, 4 seconds).

What the properties say, by run; the comment on each in its module is the precise
statement.

- `response_path`: `WithinBudget`, `InOrder`; a response that ends cleanly is whole
  (`CompleteIsWhole`); the outcome counted is what the client saw
  (`OutcomeMatchesWire`); no parked writer and no item is forgotten
  (`NoStrandedWriter`, `NoForgottenItems`); `CancelledFreesPermit`, `WriterResumes`
  and `EndReachesClient` are the promises over time.
- `request_path`: `InOrder`, `EndIsTrue`, `NoStrandedReader`,
  `HeldBackOnlyWhenFull`, `ReaderResumes`.
- `reactor`, `reactor_live`: `PermitCoversWork`, `NoCommandAsleep`, `AckMeansQuiet`,
  `ShutdownReturnsPermits`, `GoneFreesPermit`, `ShutdownEnds`.
- `budget`: `Exact`, `Implements` (the pool of `Admission`).
- `upstream_stream`, `upstream_upload`: `NoStrandedReader`, `NoStrandedUpload`;
  an end that was read was settled as one and its trailers are there (`EndIsTrue`);
  Envoy is called only with a handle it still knows (`HandleIsLive`); `InOrder`;
  `CountedOnce`; `ResetHappens`.
- `upstream_calls`: `NothingLost` (a call is in exactly one place, the one that is
  over is counted and its fiber about to be woken), `ImplementsAnswers`,
  `CallerGoesOn`.
- `sync`: `TurnedAwayNeverRuns`, `ImplementsAnswers`, `CallerReturns`.
- `process`: `FirstIsFinal`, `NoVMLeftBehind`, `MainReturns`.
- `rack_exchange`: `ProxiedIsFaithful`, `UpgradeIsAgreed`.

Each module also has a type invariant, `TypeOK`; `ResponsePath` has three invariants
that only its proof needs (`Framed`, `WaiterIsParked`, `CancelledHoldsNothing`).

Deadlock is checked in `ResponsePath`, whose end after a shutdown is the stutter
`Ended`, in `RequestPath` and in `Budget`. The other systems
really stop: when the thread has ended and every caller has returned, when an
exchange or its calls are over, when the process has exited, when a head was sent.

### Fairness

Envoy's dispatcher runs what is committed to it (weak fairness of the worker),
and a fiber that has the thread goes on to its next wait (weak fairness of
`FiberStep`). The reactor waits with a deadline of 0.1 s, so its turn comes again
however many fibers are ready, and a ready fiber's turn comes however often the
deadline fires: strong fairness of `Heartbeat` (in the upstream modules
`TakeWakeups`) and `FiberResume`, each of which
is enabled again and again and not continuously. In `Reactor`, what runs while a
request is torn down (the application's `ensure` blocks, drain hooks) is assumed
to return; nothing is assumed of the application's own work, of clients, or of
callers. Nothing is assumed of the watermark: `WriterResumes` and
`EndReachesClient` are conditional on the client reading in the end.

Of Envoy and its upstreams: a stream it was asked to reset is reported as ended
(`UpstreamStream`), and a callout with a deadline above zero is reported as done
(`UpstreamCalls`); nothing else is assumed of an upstream. In `SyncRuntime` threads
go on, the application answers and a committed event is delivered; no timeout is
counted on. In `ProcessRuntime` the main thread goes on, its timeouts included;
nothing is assumed of the application while it serves, and the clean-up of its VM is
assumed to end (`FairSpec`), which section 4 comes back to.

## 4. Findings

**A failed upstream response can be read as complete** (`ruby/upstream.rb:172-175`,
and `read_chunk` in `ruby/stream.rb`). The reader asks `next_chunk` until it answers
nil and then `finished?`, under two acquisitions of the queue's lock. `finished?` is
`ended` with no byte buffered, which a failure satisfies as soon as it is pushed: one
pushed in between is never taken, against "raises the failure that ended the stream"
(`src/chunks.rs:23-24`). Run `upstream_missed`, property `FailureIsSeen`.

Modelling met nine more places where the code and a comment part. Each has a
configuration that TLC refutes in seconds, kept for whoever changes that code; none
contradicts a property of section 3.

| Configuration, property | What the code does | What is said |
|---|---|---|
| `ResponsePathWakeByte`, `BlockIsMeaningful` | `drain` takes the owed wakeups and then empties the socket (`src/fiber.rs:192-193`): a wakeup owed and signalled in between loses its byte and waits for the heartbeat, at most 0.1 s | "so the next block is meaningful" (`src/wake.rs:49`) |
| `ResponsePathAfterClose`, `DisconnectBoundsFiber` | the worker forgets the queue at the end of the response (`worker.rs:470-471`), so a body that closed its write side runs on after the client left and keeps its permit | "it bounds how long a request whose client has gone away keeps running" (`ruby/fiber_runner.rb:6-9`) |
| `ReactorFailed`, `StoppedRefuses` | a reactor that fails leaks its VM and with it the receiver (`src/fiber.rs:797-806`): calls are queued for a thread that has ended | "which refuses them once the runtime has stopped" (`runtime.rs:363-365`) |
| `UpstreamCut`, `UploadFailureIsHeard` | an upload that raises cancels the response queue (`ruby/upstream.rb:107-109`): a reader between two chunks takes what has arrived for the whole | "The reader hears of it as a closed stream." (`ruby/upstream.rb:108`) |
| `UpstreamAsleep`, `ClosedReaderIsWoken` | if that happens before the worker has started the exchange, `start` skips it (`upstream.rs:470-472`) and nobody wakes the reader parked for the head until its idle timeout | the same |
| `UpstreamSeen`, `CountedAsSeen` | a fiber that times out before the start is told of a timeout and counted as `abandoned`: `start` does not look at the mark that `stopped_by_fiber` looks at | "as the calling fiber saw it" (`metrics.rs:26-27`) |
| `SyncRuntimeDropped`, `OutcomeIsReported` | the serial loop leaves at a `Shutdown` and drops what is behind it (`src/sync.rs:248-266`): an accepted filter is never scheduled | "reports the outcome to `completion`" (`src/sync.rs:63`) |
| `ProcessRuntimeBounded`, `ShutdownIsBounded` | after the acknowledgement the thread is joined without a bound, while the VM's clean-up runs `at_exit` handlers (`src/fiber.rs:713-728`) | "with a bounded wait" (`src/fiber.rs:704`) |
| `RackExchangeRefusal`, `RefusalIsOrdinary` | an upstream's own `rack.protocol` field passes `head_of` and is taken for the application's acceptance (`src/rack.rs:462-471`): a 200 that has one goes out as a 101 to a client that offered the protocol | "A refusal arrives as an ordinary response." (`ruby/upstream.rb:30`) |

`GoneFreesPermit` and `ShutdownEnds` therefore except the leaked runtime, and
`MainReturns` rests on the clean-up ending.

## 5. Proofs

`ResponsePathProofs`: for every positive limit, every bound on the body and every
set of chunk sizes. The safety properties are not inductive one by one; the
invariant `IInv` conjoins all of them with four facts:

- `Control`: who has the Ruby thread in which places of the fiber, the filter
  states in which the worker drains, and that only a dropped filter cancels;
- `Production`: how far the fiber is with the body. `written` never passes
  `goal`; between chunks they agree; a queue is ended only by a fiber that is past
  its writes; an end in the queue stands for a body the application ended;
- `HeadPending`: until the worker has sent the head, it is the first item;
- `Shown`: what the client has seen goes with the state of the filter.

Why the strengthening is needed, in one example: `CompleteIsWhole` speaks of the
moment the worker takes the end; that the end in the queue stands for a body the
application ended is true only because nobody pushes an end after a failure
(`Refuses`), which in turn rests on the fiber's place when it pushes.

There is one lemma per action (`PushHeadInv`, `StoreInv`, ...), with a step per
conjunct where the action disturbs it; the facts about sequences (what `Append` and `Tail`
do to `Ordered` and to the framing) are lemmas of `ResponseStreamProofs`. The
theorems listed in `PROJECT.json` are corollaries of `Invariant`. Three of them state
invariants no run lists, because the runs check what follows from them: the head
leads and nothing follows the end (`FramedAlways`), the parked handle is there only
while its fiber is blocked (`WaiterIsParkedAlways`), and a cancelled queue stays empty
although the fiber may still write (`CancelledHoldsNothingAlways`).

`RequestPathProofs`: for every positive limit, every bound on the body and every
set of read lengths. `InOrder` and `NoStrandedReader` are conjuncts of `IInv`;
`EndIsTrue` and `HeldBackOnlyWhenFull` follow from it. The other conjuncts:

- `Control`, `Opening`, `Cancelled`: who has the Ruby thread, in which filter states
  the worker acts, what a request looks like before it is submitted, and that the
  queue is cancelled exactly with the filter of a submitted request;
- `Buffers`: the frame in hand starts where the retained bytes stop, and between two
  callbacks there is none. This is what makes "a short copy must not let the newer
  frame overtake" hold across callbacks, redelivered bytes included;
- `Room`: what may still be copied fits and is there, and it is all there is or all
  that fits *unless the fiber has made room since*, in which case a wakeup of the
  worker is due. `HeldBackOnlyWhenFull` rests on that exception: the room was computed
  before the copying, and is stale when it is used;
- `Held`, `Ending`: the same between callbacks; an end in the queue is behind the
  last byte, and the application hears of it when the queue is empty.

`ReactorProofs`: for any finite set of requests and any ceiling. The parts of `IInv`:
the counter is the number of permits (`Leases`); a permit is held by exactly the
requests that are admitted, queued, about to start or at work, each in one of these
places only (`Whereabouts`, from which `PermitCoversWork` and
`ShutdownReturnsPermits` follow); what each place of the runtime thread allows
(`Thread`); how far a shutdown is (`Closing`); a fiber that is done has told how it
ended (`Answered`, needed for `AckMeansQuiet`); and from the end of a drain to the
next one an empty socket means that whoever sent what is queued has still to signal
it (`Doorbell`, the reason why `NoCommandAsleep` holds although bytes are drained
before the channel). The permits are counted with the cardinality theorems of
`FiniteSetTheorems`. The assumption on the constants, that the reactor's name is no
request's, is about the model's names only.

`Reactor` takes and drops a permit in one step; the last part of the module is about
`Budget`, the same `Ceiling` at the grain of its atomic operations (`CounterExact`, `CounterType`, `CounterImplementsPool`). `Exact` needs that
every thread's observed value is a natural number and that `used` counts the holders;
the compare-and-exchange makes the admission decision apply to the current value, so
stale loads do no harm. The refinement maps a successful exchange to `Acquire`, a
dropped lease to `Release` and everything else to a stutter. `Threads` is any finite
set and `Capacity` any natural number (`BudgetAssumption`).

`ProcessRuntimeProofs`: for any set of rackup files, any number of bootstrap entries
and any filter configurations. `Made` says that there is a runtime exactly in the
states of the cell that have one, that it was made with the first settings and
accepted with those only after its hooks ran; `Loading` that the main thread waits
for readiness only while it loads the entry that made it; `Stopping` that the runtime
is taken once, by the stage that then waits. `FirstIsFinal` and `NoVMLeftBehind`
follow.

`SyncRuntimeProofs`: for any filters, callers and body limit. A command is in the
channel at most once (`Channel`); the reply of the start is taken first (`Start`); the
thread is at a command it has taken (`Serving`); and, of each request, what was sent,
decided and run of it (`Request`): a request that is answered and still queued is
answered because the thread is on its way out, so nobody will take it. The action
property `TurnedAwayNeverRuns` and the refinement of `Answers` are proved action by
action from `IInv`.

`UpstreamStreamProofs`: for every positive limit, every bound on the response, every
positive length of the request body and every set of modes. Here a callback is
several steps, Envoy calls back from inside a send, and the fibers act in between, so
what makes a state safe is often a step that is still to come. `IInv` reads the
worker's list as the set `Todo` of steps left, with an order on them:

- `Plan`: the list follows the order of `Rank`; whatever gives the reader something,
  or gives up the request body, is followed by the steps that tell the reader and the
  writer; a call into Envoy is followed by a pump; an end and a failure are never both
  to come. The lemmas `Joins` and `Pops` say what prepending a callback's list and
  taking a step do to this, once for all actions, and `Drops` what taking a step means
  for each of the other parts;
- `Handle`: the `OpenStream` is open exactly as long as Envoy's stream is, and a
  "send" is left only for an open one, from which `HandleIsLive` follows. A callback
  that ends the stream can come only at "inside", where no "send" is left;
- `Early`, `Places`: before the call everything is untouched; a call that was made is
  queued, about to start or in the table, unless it was refused; where the fibers may
  be, and with what `result`;
- `Counts`, `Reasons`: a stream that left the table has an outcome and is counted, or
  about to be; whoever closes the channel of a call without a body has given up before
  and said why. `CountedOnce` needs both: the count is taken from the outcome, which
  the reset settles from a mark that the fiber set first;
- `ResponseQueue`, `RequestQueue`, `Finishing`: the queues hold what their counters
  say; there is at most one head, in front; nothing follows an end;
- `Told`, `WriterTold`: a fiber that found its queue empty, or full, and has parked or
  is about to, is owed a wakeup for whatever happened since, or the step that owes it
  is still to come. `NoStrandedReader` is not inductive without the two places before
  the park: the push and the park are in different threads;
- `Ending`: a reader that finds the queue ended without a failure finds the exchange
  completed, and the trailers set when there are any.

The proof also settles what wakes a parked writer: neither a pending event nor a reset
that was sent is relied on, so `NoStrandedUpload` does not accept them as an excuse, and
a reader that is about to close is one only where it stops the upload and does not wait
for it (`ReaderStops` in `WriterTold`).

`UpstreamCallsProofs`: for any calls, any deadlines and any positive limit. The
parts of `IInv`:

- `Whereabouts`: a call is queued, in the batch or in flight exactly while it was made
  and nothing was decided of it, and in one of the three only; a queued one has an
  event committed, or its fiber is about to commit one. The fiber queues the call and
  wakes the worker in two steps, and the route may be closed in between;
- `Steps`: what the worker has left to do for the call in its hand is one of twelve
  lists, and it fits the decision: a head is left only for a queue nobody has pushed
  to, an end only for a completed call, a count only for one that is not waiting to be
  counted with the abandoned ones. `ScriptFacts` says what taking a step does to such
  a list, once for all steps;
- `Contents`: the queue holds the answer from what the fiber has taken (`body`) to what
  the worker has pushed (`PushedUpto`), is ended exactly when the last step that pushes
  is done, holds a failure only if the call was not completed, and begins with the head
  until the fiber has it. This is what makes a part of a response no response;
- `Counts`: nothing was counted until the step that counts, and then the decision;
- `Caller`: the slot of the queue is the fiber's exactly while it is parked; one parked
  on an ended queue is owed a wakeup, is in the pass the reactor is making, or the step
  that owes it is left; a fiber that returned has the head and all of the body;
- `PassOver`: wakeups the reactor has taken are resolved before it waits again, so a
  fiber cannot give up, or be resumed, in the middle of a pass.

`NothingLost` follows; that a call is in exactly one place is a cardinality, from
`Whereabouts` and `Steps`. The refinement maps `Dispatch` on an open route to `Ask`,
a refusal, a report and an abandonment to `Decide`, the taking of the last item to
`Learn`, and everything else, the pushes included, to a stutter.

Every `IInv` was checked with TLC, as an invariant of its run's instance, before it
was proved.

What stays with TLC:

- the liveness properties: the prover has no rules for fairness and `ENABLED`;
- `ProxiedIsFaithful` and `UpgradeIsAgreed` of `RackExchange`: both say what folds and
  selections over a list of any length compute (`rack_headers`, `copy_headers`), which
  takes an induction over the list. The induction theorems of the library take an
  operator as a parameter, which the installed provers cannot instantiate. The run
  checks them for all lists within its bounds;
- the properties TLC refutes.

Every other invariant, action property and refinement that a passing run checks is
proved. No module of the project uses a `RECURSIVE` operator.

## 6. Not modelled

- Splitting authorities and paths, the strings of the Rack environment, copying
  Envoy attributes (`context.rs`), metric registration, the heartbeat gauge, command
  line, packaging, the baseline filter, benchmarks: conversions and I/O without state
  of their own.
- `Ruvoy.offload` (`ruby/offload.rb`): a semaphore around `Thread.new`, which shares
  no state with the rest of the system.
- `FiberRuntimeClient::call` and `submit_collected`, which gather a response for
  examples and probes; no filter uses them.
- Diagnostics (`x-ruvoy-stage-timing`), `force_gc`, pinning the library in memory.
- The branch of `drain` for a channel whose senders are all gone: the runtime's
  owner keeps a client for as long as the thread runs.
- A callback for a stream from inside `start_http_stream`, before its handle was
  returned: the code has no entry for it yet and the models, like the code, assume
  that none comes.
- Lock poisoning: every lock recovers from it.
- A fiber other than the request's own writing to the same response (a body that
  spawns tasks).
- In the scheduled-event interface of Envoy, the number of commits: two pending
  commits of one event are one, since the second finds nothing to do.

## 7. What could follow

The components with concurrency of their own are modelled, and what the runs check of
their safety is proved. Two things would say more:

1. An abstract specification of a request ("admitted, answered once, released once")
   that `Reactor` implements; a shutdown releases several permits in one step, so
   `Admission` as it stands is not it.
2. `ProxiedIsFaithful` and `UpgradeIsAgreed` for lists of any length, with a prover that
   does induction.
