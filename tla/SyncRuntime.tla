----------------------------- MODULE SyncRuntime ----------------------------
(***************************************************************************)
(* The serial runtime: one Ruby thread that serves a channel of commands,  *)
(* the filters and blocking callers that send them, and the owner that     *)
(* starts the thread and shuts it down.                                    *)
(*                                                                         *)
(* A command is queued and its wakeup byte written in two steps; when the  *)
(* Ruby thread ends it closes its socket and then drops the channel, with  *)
(* the commands still in it.                                               *)
(***************************************************************************)
EXTENDS Naturals, Sequences, FiniteSets

CONSTANTS
  Filters,                    \* requests, each with its SyncRackFilter
  Callers,                    \* threads in `call` or `force_gc`
  MaxBodyBytes                \* MAX_REQUEST_BODY_BYTES

ASSUME BodyAssumption == MaxBodyBytes \in Nat

Owner == "owner"              \* of the RubyRuntime; sends the Shutdown
Clients == Filters \cup Callers

ASSUME NamesAssumption ==
  Filters \cap Callers = {} /\ Owner \notin Clients /\ "none" \notin Clients

VARIABLES
  queue,                      \* the channel: commands by who sent them
  bell,                       \* the wake socket has an unread byte
  ruby, current, failed,      \* the Ruby thread, the command it runs, how it ended
  pc,                         \* where each sender is
  received,                   \* bytes of the request body a filter has
  slot, event,                \* a filter's ResultSlot, and RESPONSE_EVENT_ID
  sent,                       \* what a filter sent downstream
  reply,                      \* the channel of a caller, or of the shutdown
  result,                     \* what a caller, or the shutdown, returned
  ran                         \* requests the application was called for

rubyVars == <<ruby, current, failed, ran>>
filterVars == <<received, slot, event, sent>>
vars == <<queue, bell, rubyVars, pc, filterVars, reply, result>>

Init ==
  /\ queue = << >> /\ bell = FALSE
  /\ ruby = "starting" /\ current = "none" /\ failed = FALSE /\ ran = {}
  /\ pc = [x \in Clients \cup {Owner} |-> IF x = Owner THEN "starting" ELSE "new"]
  /\ received = [f \in Filters |-> 0] /\ slot = [f \in Filters |-> "none"]
  /\ event = {} /\ sent = [f \in Filters |-> << >>]
  /\ reply = [x \in Callers \cup {Owner} |-> "none"]
  /\ result = [x \in Callers \cup {Owner} |-> "none"]

Goto(x, where) == pc' = [pc EXCEPT ![x] = where]

-----------------------------------------------------------------------------
(* The Ruby thread. *)

\* prepare: the VM is ready, or start-up fails or panics, which the starter
\* hears of in either case.
Prepare ==
  /\ ruby = "starting"
  /\ \/ ruby' = "wait" /\ reply' = [reply EXCEPT ![Owner] = "ready"] /\ UNCHANGED failed
     \/ ruby' = "leaving" /\ reply' = [reply EXCEPT ![Owner] = "failed"] /\ failed' = TRUE
  /\ UNCHANGED <<queue, bell, current, ran, pc, filterVars, result>>

\* thread_wait_fd, drain
Drain ==
  /\ ruby = "wait" /\ bell
  /\ bell' = FALSE /\ ruby' = "poll"
  /\ UNCHANGED <<queue, current, failed, ran, pc, filterVars, reply, result>>

\* Waiting or draining fails, and the thread with it.
Breaks ==
  /\ ruby = "wait"
  /\ ruby' = "leaving" /\ failed' = TRUE
  /\ UNCHANGED <<queue, bell, current, ran, pc, filterVars, reply, result>>

\* Mutant of Poll: the thread looks at one command for each wakeup.
PollOne ==
  /\ ruby = "poll" /\ queue # << >> /\ queue' = Tail(queue)
  /\ IF Head(queue) = Owner
     THEN ruby' = "leaving" /\ reply' = [reply EXCEPT ![Owner] = "ok"] /\ UNCHANGED <<current, ran>>
     ELSE ruby' = "wait" /\ UNCHANGED <<current, ran, reply>>
  /\ UNCHANGED <<bell, failed, pc, filterVars, result>>

\* try_recv: until the channel is empty.  A ForceGc is answered at once.
Poll ==
  /\ ruby = "poll"
  /\ \/ queue = << >> /\ ruby' = "wait" /\ UNCHANGED <<queue, current, ran, reply>>
     \/ /\ queue # << >> /\ queue' = Tail(queue)
        /\ IF Head(queue) = Owner
           THEN /\ ruby' = "leaving" /\ reply' = [reply EXCEPT ![Owner] = "ok"]
                /\ UNCHANGED <<current, ran>>
           ELSE \/ /\ ruby' = "run" /\ current' = Head(queue) /\ ran' = ran \cup {Head(queue)}
                   /\ UNCHANGED reply
                \/ /\ Head(queue) \in Callers
                   /\ reply' = [reply EXCEPT ![Head(queue)] = "ok"]
                   /\ UNCHANGED <<ruby, current, ran>>
  /\ UNCHANGED <<bell, failed, pc, filterVars, result>>

\* rack::call, and the completion of a `call` or the first half of a filter's.
Run ==
  /\ ruby = "run"
  /\ \E outcome \in {"ok", "error"} :
       IF current \in Filters
       THEN slot' = [slot EXCEPT ![current] = outcome] /\ ruby' = "commit" /\ UNCHANGED reply
       ELSE reply' = [reply EXCEPT ![current] = outcome] /\ ruby' = "poll" /\ UNCHANGED slot
  /\ UNCHANGED <<queue, bell, current, failed, ran, pc, received, event, sent, result>>

Panics ==
  /\ ruby = "run"
  /\ ruby' = "leaving" /\ failed' = TRUE
  /\ UNCHANGED <<queue, bell, current, ran, pc, filterVars, reply, result>>

\* scheduler.commit, of a filter that may be gone.
Commit ==
  /\ ruby = "commit"
  /\ event' = IF pc[current] = "destroyed" THEN event ELSE event \cup {current}
  /\ ruby' = "poll"
  /\ UNCHANGED <<queue, bell, current, failed, ran, pc, received, slot, sent, reply, result>>

\* `main` returns: its socket is closed first, the channel dropped last.
CloseSocket ==
  /\ ruby = "leaving" /\ ruby' = "closed" /\ bell' = FALSE
  /\ UNCHANGED <<queue, current, failed, ran, pc, filterVars, reply, result>>

DropChannel ==
  /\ ruby = "closed" /\ ruby' = "gone" /\ queue' = << >>
  /\ UNCHANGED <<bell, current, failed, ran, pc, filterVars, reply, result>>

-----------------------------------------------------------------------------
(* RuntimeClient. *)

Queued(x) == Append(queue, x)

\* send, first half; a filter that cannot answers 503.
Send(x) ==
  /\ pc[x] = "send"
  /\ IF ruby # "gone"
     THEN /\ queue' = Queued(x) /\ Goto(x, "signal")
          /\ UNCHANGED <<result, sent>>
     ELSE /\ Goto(x, IF x = Owner THEN "join" ELSE "done")
          /\ sent' = IF x \in Filters THEN [sent EXCEPT ![x] = Append(@, "unavailable")] ELSE sent
          /\ result' = IF x \in Filters THEN result ELSE [result EXCEPT ![x] = "stopped"]
          /\ UNCHANGED queue
  /\ UNCHANGED <<bell, rubyVars, received, slot, event, reply>>

\* Mutant of Signal: a full socket is a failure too.
SignalOrBlocks(x) ==
  /\ pc[x] = "signal"
  /\ IF ruby \notin {"closed", "gone"} /\ ~bell
     THEN /\ bell' = TRUE /\ Goto(x, "waiting")
          /\ UNCHANGED <<result, sent>>
     ELSE /\ Goto(x, IF x = Owner THEN "join" ELSE "done")
          /\ sent' = IF x \in Filters THEN [sent EXCEPT ![x] = Append(@, "unavailable")] ELSE sent
          /\ result' = IF x \in Filters THEN result ELSE [result EXCEPT ![x] = "io"]
          /\ UNCHANGED bell
  /\ UNCHANGED <<queue, rubyVars, received, slot, event, reply>>

\* send, second half: wake::signal, which fails when the socket is closed.
Signal(x) ==
  /\ pc[x] = "signal"
  /\ IF ruby \notin {"closed", "gone"}
     THEN /\ bell' = TRUE /\ Goto(x, "waiting")
          /\ UNCHANGED <<result, sent>>
     ELSE /\ Goto(x, IF x = Owner THEN "join" ELSE "done")
          /\ sent' = IF x \in Filters THEN [sent EXCEPT ![x] = Append(@, "unavailable")] ELSE sent
          /\ result' = IF x \in Filters THEN result ELSE [result EXCEPT ![x] = "io"]
          /\ UNCHANGED bell
  /\ UNCHANGED <<queue, rubyVars, received, slot, event, reply>>

\* The sender of a command's reply is gone: run and not answered, or dropped.
Disconnected(x) ==
  /\ \A i \in 1 .. Len(queue) : queue[i] # x
  /\ ~(ruby = "run" /\ current = x)

\* recv_timeout: the reply, the loss of its sender, or neither in time.
Receive(x) ==
  /\ x \in Callers \cup {Owner} /\ pc[x] = "waiting"
  /\ Goto(x, IF x = Owner THEN "join" ELSE "done")
  /\ result' = [result EXCEPT ![x] = IF reply[x] # "none" THEN reply[x] ELSE "stopped"]
  /\ reply[x] # "none" \/ Disconnected(x)
  /\ UNCHANGED <<queue, bell, rubyVars, filterVars, reply>>

ReceiveTimesOut(x) ==
  /\ x \in Callers \cup {Owner} /\ pc[x] = "waiting" /\ reply[x] = "none"
  /\ Goto(x, IF x = Owner THEN "join" ELSE "done")
  /\ result' = [result EXCEPT ![x] = "timeout"]
  /\ UNCHANGED <<queue, bell, rubyVars, filterVars, reply>>

-----------------------------------------------------------------------------
(* The owner. *)

\* start: clients exist once the thread is ready.
Started ==
  /\ pc[Owner] = "starting" /\ reply[Owner] # "none"
  /\ reply[Owner] = "failed" => ruby = "gone"
  /\ Goto(Owner, IF reply[Owner] = "ready" THEN "running" ELSE "done")
  /\ result' = IF reply[Owner] = "failed" THEN [result EXCEPT ![Owner] = "failed"] ELSE result
  /\ reply' = [reply EXCEPT ![Owner] = "none"]
  /\ UNCHANGED <<queue, bell, rubyVars, filterVars>>

Running == pc[Owner] # "starting" /\ result[Owner] # "failed"

\* shutdown, or Drop
Shutdown ==
  /\ pc[Owner] = "running"
  /\ Goto(Owner, "send")
  /\ UNCHANGED <<queue, bell, rubyVars, filterVars, reply, result>>

\* join.join(): however the shutdown went.  Its own failure comes first.
Join ==
  /\ pc[Owner] = "join" /\ ruby = "gone"
  /\ Goto(Owner, "done")
  /\ result' = [result EXCEPT ![Owner] = IF @ = "ok" /\ failed THEN "panicked" ELSE @]
  /\ UNCHANGED <<queue, bell, rubyVars, filterVars, reply>>

-----------------------------------------------------------------------------
(* Callers, and the filter's callbacks. *)

Call(c) ==
  /\ c \in Callers /\ Running /\ pc[c] = "new"
  /\ Goto(c, "send")
  /\ UNCHANGED <<queue, bell, rubyVars, filterVars, reply, result>>

\* on_request_headers
OnRequestHeaders(f) ==
  /\ Running /\ pc[f] = "new"
  /\ \E end_of_stream \in BOOLEAN : Goto(f, IF end_of_stream THEN "send" ELSE "collecting")
  /\ UNCHANGED <<queue, bell, rubyVars, filterVars, reply, result>>

\* copy_received_body
Fits(f, n) == received[f] + n =< MaxBodyBytes

\* on_request_body: what comes after the response is dropped.
OnRequestBody(f) ==
  /\ pc[f] = "collecting"
  /\ \E n \in 0 .. MaxBodyBytes + 1, end_of_stream \in BOOLEAN :
       IF Fits(f, n)
       THEN /\ received' = [received EXCEPT ![f] = @ + n]
            /\ Goto(f, IF end_of_stream THEN "send" ELSE "collecting")
            /\ UNCHANGED sent
       ELSE /\ sent' = [sent EXCEPT ![f] = Append(@, "too_large")]
            /\ Goto(f, "done")
            /\ UNCHANGED received
  /\ UNCHANGED <<queue, bell, rubyVars, slot, event, reply, result>>

\* on_request_trailers
OnRequestTrailers(f) ==
  /\ pc[f] = "collecting"
  /\ Goto(f, "send")
  /\ UNCHANGED <<queue, bell, rubyVars, filterVars, reply, result>>

\* Mutant of MayRespond: a late result is looked at whatever was sent.
MayRespondAlways(f) == pc[f] \in {"waiting", "done"}

MayRespond(f) == pc[f] = "waiting"

\* on_scheduled
OnScheduled(f) ==
  /\ f \in event /\ pc[f] \in {"waiting", "done"}
  /\ event' = event \ {f}
  /\ IF MayRespond(f)
     THEN /\ sent' = [sent EXCEPT ![f] = Append(@, IF slot[f] = "none" THEN "missing" ELSE slot[f])]
          /\ slot' = [slot EXCEPT ![f] = "none"]
          /\ Goto(f, "done")
     ELSE UNCHANGED <<sent, slot, pc>>
  /\ UNCHANGED <<queue, bell, rubyVars, received, reply, result>>

\* The client goes away, and the filter with its events.
Destroy(f) ==
  /\ pc[f] \in {"collecting", "waiting", "done"}
  /\ Goto(f, "destroyed") /\ event' = event \ {f}
  /\ UNCHANGED <<queue, bell, rubyVars, received, slot, sent, reply, result>>

-----------------------------------------------------------------------------

RubyStep == Drain \/ Poll \/ Run \/ Commit \/ CloseSocket \/ DropChannel

ClientStep(x) == Send(x) \/ Signal(x) \/ Receive(x)

Next ==
  \/ Prepare \/ RubyStep \/ Breaks \/ Panics \/ Started \/ Shutdown \/ Join
  \/ \E x \in Clients \cup {Owner} : ClientStep(x) \/ ReceiveTimesOut(x)
  \/ \E c \in Callers : Call(c)
  \/ \E f \in Filters : OnRequestHeaders(f) \/ OnRequestBody(f) \/ OnRequestTrailers(f)
                        \/ OnScheduled(f) \/ Destroy(f)

Spec == Init /\ [][Next]_vars

\* The threads go on, an application answers, and Envoy delivers a committed
\* event.  No timeout is counted on.
FairSpec ==
  /\ Spec /\ WF_vars(Prepare) /\ WF_vars(RubyStep) /\ WF_vars(Started) /\ WF_vars(Join)
  /\ \A x \in Clients \cup {Owner} : WF_vars(ClientStep(x))
  /\ \A f \in Filters : WF_vars(OnScheduled(f))

-----------------------------------------------------------------------------
(* Properties. *)

\* Every variable has the type the code gives it.
TypeOK ==
  /\ queue \in Seq(Clients \cup {Owner}) /\ bell \in BOOLEAN /\ failed \in BOOLEAN
  /\ ruby \in {"starting", "wait", "poll", "run", "commit", "leaving", "closed", "gone"}
  /\ current \in Clients \cup {"none"} /\ ran \subseteq Clients
  /\ pc \in [Clients \cup {Owner} -> {"starting", "new", "running", "collecting", "send",
                                      "signal", "waiting", "join", "done", "destroyed"}]
  /\ received \in [Filters -> 0 .. MaxBodyBytes]
  /\ slot \in [Filters -> {"none", "ok", "error"}] /\ event \subseteq Filters
  /\ sent \in [Filters -> Seq({"ok", "error", "missing", "too_large", "unavailable"})]
  /\ reply \in [Callers \cup {Owner} -> {"none", "ready", "failed", "ok", "error"}]
  /\ result \in [Callers \cup {Owner} ->
                   {"none", "failed", "ok", "error", "stopped", "io", "timeout", "panicked"}]

\* A request over the limit is never run; one turned away because the runtime
\* stopped may have been, but is not once its filter has answered.
TurnedAwayNeverRuns ==
  [][\A f \in Filters :
       /\ sent[f] # << >> => (f \in ran' => f \in ran)
       /\ sent'[f] = <<"too_large">> => f \notin ran']_vars

\* A blocking caller returns without counting on its timeout, also when the
\* runtime ends with its command in the channel; and the owner, which joins the
\* thread however its shutdown went, returns with the thread and the VM gone.
CallerReturns ==
  /\ \A c \in Callers : pc[c] = "waiting" ~> pc[c] = "done"
  /\ pc[Owner] = "send" ~> pc[Owner] = "done" /\ ruby = "gone" /\ queue = << >>

\* Claimed by "queues the request and reports the outcome to completion": no
\* request that submit accepted is left without an outcome.
OutcomeIsReported ==
  ruby = "gone" => \A f \in Filters : pc[f] = "waiting" => f \in event

Learned(f) ==
  IF sent[f] \in {<<"ok">>, <<"error">>} THEN sent[f][1] ELSE "none"

\* What the application made of a request: in the slot until the filter sent it.
Decided(f) == IF slot[f] # "none" THEN slot[f] ELSE Learned(f)

\* The requests on their way: submitted, queued, run, answered or abandoned.
Asked ==
  {f \in Filters : \/ pc[f] \in {"signal", "waiting"}
                   \/ f \in ran \/ \E i \in 1 .. Len(queue) : queue[i] = f
                   \/ sent[f] # << >> \/ pc[f] \in {"done", "destroyed"}}

Abstract == INSTANCE Answers WITH
  Questions <- Filters, Decisions <- {"ok", "error"}, Undecided <- "none", asked <- Asked,
  decision <- [f \in Filters |-> Decided(f)], learned <- [f \in Filters |-> Learned(f)]

\* A request is decided once, by the Ruby thread, and its filter sends that:
\* the serial filter implements Answers.
ImplementsAnswers == Abstract!Spec
=============================================================================
