---------------------------- MODULE UpstreamCalls ---------------------------
(***************************************************************************)
(* The calls one request makes to upstreams, each from a fiber of its own: *)
(* queued on the request's route, sent by the worker that owns the request *)
(* and answered through a queue the fiber parks on.                        *)
(*                                                                         *)
(* The worker takes calls one by one from what it collected (`batch`), and *)
(* for the one in `hand` has steps left `todo`, each touching one thing    *)
(* that the Ruby thread reads.                                             *)
(***************************************************************************)
EXTENDS ResponseStream, FiniteSets

CONSTANTS
  Calls,                      \* by the fibers that make them
  Timeouts                    \* deadlines the application asks for, microseconds

ASSUME TimeoutsAssumption == Timeouts \subseteq Nat
ASSUME CallsAssumption == NoFiber \notin Calls /\ "reactor" \notin Calls

VARIABLES
  response,                   \* the queue of each call
  closed, queued,             \* Calls: the route is closed, the calls queued on it
  event,                      \* UPSTREAM_EVENT_ID is committed and not delivered
  in_flight,                  \* the filter's table of callouts
  out,                        \* callouts Envoy has not reported or cancelled
  batch, doing,               \* calls the worker collected, and to do what
  hand, todo,
  ended,                      \* calls abandoned and not yet counted
  outcome,                    \* what the worker decided of a call
  size,                       \* bytes of the body it was answered with
  counted,                    \* what upstream_calls_total was told
  deadline,                   \* the milliseconds Envoy was given
  owed, resolving, reactor,   \* Wakeups, and the reactor's pass over them
  cpu, pc,                    \* who has the Ruby thread, where the fibers are
  head, body,                 \* what UpstreamCall has taken of the answer
  result                      \* what `call` did: returned, raised, ...

routeVars == <<closed, queued, event>>
workerVars == <<in_flight, out, batch, doing, hand, todo, ended, outcome, size, counted, deadline>>
rubyVars == <<owed, resolving, reactor, cpu, pc, head, body, result>>
vars == <<response, routeVars, workerVars, rubyVars>>

Init ==
  /\ response = [c \in Calls |-> EmptyStream]
  /\ closed = FALSE /\ queued = {} /\ event = FALSE
  /\ in_flight = {} /\ out = {} /\ batch = {} /\ doing = "none"
  /\ hand = NoFiber /\ todo = << >> /\ ended = {}
  /\ outcome = [c \in Calls |-> "none"] /\ size = [c \in Calls |-> 0]
  /\ counted = [c \in Calls |-> << >>] /\ deadline = [c \in Calls |-> 0]
  /\ owed = {} /\ resolving = {} /\ reactor = "wait"
  /\ cpu = "reactor" /\ pc = [c \in Calls |-> "idle"]
  /\ head = {} /\ body = [c \in Calls |-> 0] /\ result = [c \in Calls |-> "none"]

-----------------------------------------------------------------------------
(* The fibers. *)

FiberAt(c, where) == cpu = c /\ pc[c] = where

Goto(c, where) == pc' = [pc EXCEPT ![c] = where]

\* The call is over for the fiber.
Leaves(c, how) ==
  /\ Goto(c, "done") /\ cpu' = "reactor"
  /\ result' = [result EXCEPT ![c] = how]

\* Mutant of TimeoutMs: a deadline below a millisecond becomes none at all.
TimeoutMsTruncated(us) == us \div 1000

\* Envoy reads zero as no deadline.
TimeoutMs(us) == IF us \div 1000 > 1 THEN us \div 1000 ELSE 1

\* dispatch: a cluster that is not allowed, or no positive deadline ...
DispatchRejected(c) ==
  /\ FiberAt(c, "idle")
  /\ Leaves(c, "rejected")
  /\ UNCHANGED <<response, routeVars, workerVars, owed, resolving, reactor, head, body>>

\* Mutant of Dispatch: the route is not looked at.
DispatchAnyway(c) ==
  /\ FiberAt(c, "idle")
  /\ \E us \in Timeouts \ {0} : deadline' = [deadline EXCEPT ![c] = TimeoutMs(us)]
  /\ queued' = queued \cup {c} /\ Goto(c, "wake") /\ UNCHANGED <<cpu, result>>
  /\ UNCHANGED <<response, closed, event, in_flight, out, batch, doing, hand, todo, ended,
                 outcome, size, counted, owed, resolving, reactor, head, body>>

\* ... or a route that is closed raises; else the call is queued, in one step,
Dispatch(c) ==
  /\ FiberAt(c, "idle")
  /\ \E us \in Timeouts \ {0} : deadline' = [deadline EXCEPT ![c] = TimeoutMs(us)]
  /\ IF closed
     THEN Leaves(c, "refused") /\ UNCHANGED queued
     ELSE queued' = queued \cup {c} /\ Goto(c, "wake") /\ UNCHANGED <<cpu, result>>
  /\ UNCHANGED <<response, closed, event, in_flight, out, batch, doing, hand, todo, ended,
                 outcome, size, counted, owed, resolving, reactor, head, body>>

\* and the worker woken in another.
WakeWorker(c) ==
  /\ FiberAt(c, "wake")
  /\ event' = TRUE /\ Goto(c, "take")
  /\ UNCHANGED <<response, closed, queued, workerVars, owed, resolving, reactor, cpu, head,
                 body, result>>

\* UpstreamCall#response, one item of its loop.
Take(c) ==
  /\ FiberAt(c, "take")
  /\ response' = [response EXCEPT ![c] = TakeNext(@)]
  /\ IF ~CanTake(response[c])
     THEN Goto(c, "park") /\ UNCHANGED <<cpu, head, body, result>>
     ELSE LET item == Head(response[c].items)
          IN  /\ head' = IF item.kind = "head" THEN head \cup {c} ELSE head
              /\ body' = IF item.kind = "chunk" THEN [body EXCEPT ![c] = @ + Size(item)] ELSE body
              /\ CASE item.kind = "end" -> Leaves(c, IF c \in head THEN "returned" ELSE "raised")
                   [] item.kind = "failed" -> Leaves(c, "raised")
                   [] OTHER -> UNCHANGED <<cpu, pc, result>>
  /\ UNCHANGED <<routeVars, workerVars, owed, resolving, reactor>>

\* Park.on(pending)
ParkOn(c) ==
  /\ FiberAt(c, "park")
  /\ response' = [response EXCEPT ![c] = Park(@, c)]
  /\ IF MayPark(response[c])
     THEN Goto(c, "parked") /\ cpu' = "reactor"
     ELSE Goto(c, "take") /\ UNCHANGED cpu
  /\ UNCHANGED <<routeVars, workerVars, owed, resolving, reactor, head, body, result>>

\* The wait returns, or is cut short: the fiber is stopped, or a timeout of the
\* application's strikes.  Either way the queue is left without a waiter.
WaitEnds(c) ==
  /\ FiberAt(c, "resumed")
  /\ response' = [response EXCEPT ![c] = Unpark(@)]
  /\ Goto(c, "take")
  /\ UNCHANGED <<routeVars, workerVars, owed, resolving, reactor, cpu, head, body, result>>

GivesUp(c) ==
  /\ cpu = "reactor" /\ reactor = "wait" /\ pc[c] \in {"parked", "resumed"}
  /\ response' = [response EXCEPT ![c] = Unpark(@)]
  /\ Leaves(c, "left")
  /\ UNCHANGED <<routeVars, workerVars, owed, resolving, reactor, head, body>>

-----------------------------------------------------------------------------
(* The reactor. *)

FiberResume(c) ==
  /\ cpu = "reactor" /\ reactor = "wait" /\ pc[c] \in {"idle", "resumed"}
  /\ cpu' = c
  /\ UNCHANGED <<response, routeVars, workerVars, owed, resolving, reactor, pc, head, body, result>>

TakeWakeups ==
  /\ cpu = "reactor" /\ reactor = "wait"
  /\ resolving' = owed /\ owed' = {} /\ reactor' = "resolve"
  /\ UNCHANGED <<response, routeVars, workerVars, cpu, pc, head, body, result>>

ResolveBodies ==
  /\ cpu = "reactor" /\ reactor = "resolve"
  /\ IF resolving = {}
     THEN reactor' = "wait" /\ UNCHANGED <<response, resolving, pc>>
     ELSE \E c \in resolving :
            /\ resolving' = resolving \ {c}
            /\ response' = [response EXCEPT ![c] = Unpark(@)]
            /\ Goto(c, IF response[c].waiter = c THEN "resumed" ELSE pc[c])
            /\ UNCHANGED reactor
  /\ UNCHANGED <<routeVars, workerVars, owed, cpu, head, body, result>>

-----------------------------------------------------------------------------
(* The worker. *)

Idle == batch = {} /\ todo = << >> /\ ended = {}

\* on_scheduled(UPSTREAM_EVENT_ID): the route is looked at only until it is
\* closed, and everything queued is taken at once.
OnScheduled ==
  /\ Idle /\ event
  /\ event' = FALSE
  /\ batch' = IF closed THEN {} ELSE queued
  /\ queued' = IF closed THEN queued ELSE {}
  /\ doing' = "send"
  /\ UNCHANGED <<response, closed, in_flight, out, hand, todo, ended, outcome, size, counted,
                 deadline, rubyVars>>

Decided(c, how) ==
  outcome' = [outcome EXCEPT ![c] = how] /\ hand' = c

Refusal == <<"failure", "wake", "count">>

\* send: Envoy takes the call and gives it an id, or turns it away.
Send(c) ==
  /\ todo = << >> /\ doing = "send" /\ c \in batch
  /\ batch' = batch \ {c}
  /\ \/ /\ in_flight' = in_flight \cup {c} /\ out' = out \cup {c}
        /\ UNCHANGED <<outcome, hand, todo>>
     \/ /\ Decided(c, "refused") /\ todo' = Refusal
        /\ UNCHANGED <<in_flight, out>>
  /\ UNCHANGED <<response, routeVars, doing, ended, size, counted, deadline, rubyVars>>

\* deliver, and what on_http_callout_done does next: an empty body is no piece.
Delivery(how, n) ==
  CASE how # "completed" -> <<"failure", "count", "wake">>
    [] how = "completed" /\ n > 0 -> <<"head", "chunk", "end", "count", "wake">>
    [] how = "completed" /\ n = 0 -> <<"head", "end", "count", "wake">>

\* answer: what a successful callout stands for; its size is looked at first.
Answer(n, valid) ==
  IF n > MaxBufferedBytes THEN "too_large" ELSE IF valid THEN "completed" ELSE "reset"

\* Mutant of CalloutDone: the callout stays in the table.
CalloutDoneKept(c) ==
  /\ Idle /\ c \in out
  /\ out' = out \ {c}
  /\ IF c \notin in_flight
     THEN UNCHANGED <<outcome, hand, todo, size>>
     ELSE /\ Decided(c, "reset") /\ todo' = <<"failure", "count", "wake">>
          /\ UNCHANGED size
  /\ UNCHANGED <<response, routeVars, in_flight, batch, doing, ended, counted, deadline, rubyVars>>

\* on_http_callout_done, deliver
CalloutDone(c) ==
  /\ Idle /\ c \in out
  /\ out' = out \ {c}
  /\ IF c \notin in_flight
     THEN UNCHANGED <<outcome, hand, todo, size>>
     ELSE \/ \E n \in 0 .. MaxBufferedBytes + 1, valid \in BOOLEAN :
               /\ Decided(c, Answer(n, valid))
               /\ size' = [size EXCEPT ![c] = n]
               /\ todo' = Delivery(Answer(n, valid), n)
          \/ \E failed \in {"reset", "too_large"} :
               /\ Decided(c, failed) /\ todo' = Delivery(failed, 0)
               /\ UNCHANGED size
  /\ in_flight' = in_flight \ {c}
  /\ UNCHANGED <<response, routeVars, batch, doing, ended, counted, deadline, rubyVars>>

\* on_stream_complete, abandon_upstreams: calls never sent, and those sent.
OnStreamComplete ==
  /\ Idle /\ ~closed
  /\ closed' = TRUE /\ queued' = {} /\ in_flight' = {}
  /\ batch' = queued \cup in_flight /\ doing' = "abandon"
  /\ UNCHANGED <<response, event, out, hand, todo, ended, outcome, size, counted, deadline, rubyVars>>

Abandon(c) ==
  /\ todo = << >> /\ doing = "abandon" /\ c \in batch
  /\ batch' = batch \ {c} /\ ended' = ended \cup {c}
  /\ Decided(c, "abandoned") /\ todo' = <<"failure", "wake">>
  /\ UNCHANGED <<response, routeVars, in_flight, out, doing, size, counted, deadline, rubyVars>>

\* The abandoned calls are counted when all of their fibers were told.
CountEnded ==
  /\ batch = {} /\ todo = << >> /\ ended # {}
  /\ counted' = [c \in Calls |-> IF c \in ended THEN Append(counted[c], outcome[c]) ELSE counted[c]]
  /\ ended' = {}
  /\ UNCHANGED <<response, routeVars, in_flight, out, batch, doing, hand, todo, outcome, size,
                 deadline, rubyVars>>

\* The filter is destroyed: Envoy cancels what is out without reporting back.
Destroy ==
  /\ Idle /\ closed /\ out # {}
  /\ out' = {}
  /\ UNCHANGED <<response, routeVars, in_flight, batch, doing, hand, todo, ended, outcome, size,
                 counted, deadline, rubyVars>>

\* What a step pushes for a call whose answer has n bytes.
Pushed(step, n) ==
  CASE step = "head" -> Item("head", 0, 0)
    [] step = "chunk" -> Item("chunk", 0, n)
    [] step = "end" -> Item("end", n, n)
    [] OTHER -> Item("failed", 0, 0)

WorkerStep ==
  /\ todo # << >> /\ todo' = Tail(todo)
  /\ response' = IF Head(todo) \in {"head", "chunk", "end", "failure"}
                 THEN [response EXCEPT ![hand] = Push(@, Pushed(Head(todo), size[hand]))]
                 ELSE response
  /\ counted' = IF Head(todo) = "count"
                THEN [counted EXCEPT ![hand] = Append(@, outcome[hand])] ELSE counted
  /\ owed' = IF Head(todo) = "wake" THEN owed \cup {hand} ELSE owed
  /\ UNCHANGED <<routeVars, in_flight, out, batch, doing, hand, ended, outcome, size, deadline,
                 resolving, reactor, cpu, pc, head, body, result>>

-----------------------------------------------------------------------------

FiberStep(c) ==
  DispatchRejected(c) \/ Dispatch(c) \/ WakeWorker(c) \/ Take(c) \/ ParkOn(c) \/ WaitEnds(c)

CallStep(c) == Send(c) \/ Abandon(c)

Next ==
  \/ \E c \in Calls :
       FiberStep(c) \/ GivesUp(c) \/ FiberResume(c) \/ CallStep(c) \/ CalloutDone(c)
  \/ TakeWakeups \/ ResolveBodies
  \/ OnScheduled \/ OnStreamComplete \/ CountEnded \/ Destroy \/ WorkerStep

Spec == Init /\ [][Next]_vars

\* The threads go on; Envoy delivers a committed event, and answers a call
\* within its deadline, if it has one.
Fairness ==
  /\ WF_vars(WorkerStep) /\ WF_vars(CountEnded) /\ WF_vars(OnScheduled)
  /\ WF_vars(ResolveBodies) /\ SF_vars(TakeWakeups)
  /\ \A c \in Calls :
       /\ WF_vars(FiberStep(c)) /\ SF_vars(FiberResume(c)) /\ WF_vars(CallStep(c))
       /\ WF_vars(deadline[c] > 0 /\ CalloutDone(c))

FairSpec == Spec /\ Fairness

-----------------------------------------------------------------------------
(* Properties. *)

Outcomes == {"completed", "refused", "too_large", "reset", "abandoned"}

\* Every variable has the type the code gives it.
TypeOK ==
  /\ response \in [Calls -> StreamsOf(Calls)]
  /\ closed \in BOOLEAN /\ event \in BOOLEAN
  /\ queued \subseteq Calls /\ in_flight \subseteq Calls /\ out \subseteq Calls
  /\ batch \subseteq Calls /\ ended \subseteq Calls /\ head \subseteq Calls
  /\ owed \subseteq Calls /\ resolving \subseteq Calls
  /\ doing \in {"none", "send", "abandon"} /\ reactor \in {"wait", "resolve"}
  /\ hand \in {NoFiber} \cup Calls
  /\ todo \in Seq({"head", "chunk", "end", "failure", "count", "wake"})
  /\ outcome \in [Calls -> {"none"} \cup Outcomes] /\ counted \in [Calls -> Seq(Outcomes)]
  /\ size \in [Calls -> Nat] /\ body \in [Calls -> Nat] /\ deadline \in [Calls -> Nat]
  /\ cpu \in {"reactor"} \cup Calls
  /\ pc \in [Calls -> {"idle", "wake", "take", "park", "parked", "resumed", "done"}]
  /\ result \in [Calls -> {"none", "rejected", "refused", "returned", "raised", "left"}]

Waiting(c) == pc[c] \in {"take", "park", "parked", "resumed"}

Left(step) == \E i \in 1 .. Len(todo) : todo[i] = step

\* Between the queue of the route, the worker's batch, Envoy and the worker's
\* hand no call is dropped: one that is not over is with exactly one of them,
\* and on the route only if the worker will come for it; and a fiber parked on
\* one that is over is about to be woken, and the call counted once, as what
\* ended it first.
NothingLost ==
  \A c \in Calls :
    /\ Len(counted[c]) =< 1 /\ (Idle /\ response[c].ended => counted[c] = <<outcome[c]>>)
    /\ pc[c] = "parked" /\ response[c].ended =>
         response[c].waiter = c /\ (c \in owed \cup resolving \/ (hand = c /\ Left("wake")))
    /\ Waiting(c) /\ ~response[c].ended =>
         Cardinality({i \in 1 .. 4 : c \in <<queued, batch, in_flight, {hand}>>[i]
                                      /\ (i = 4 => Left("end") \/ Left("failure"))}) = 1
    /\ c \in queued => ~closed /\ (event \/ pc[c] = "wake")
    /\ c \in in_flight /\ ~closed => c \in out

\* A fiber does not wait for ever, though the application set a deadline of
\* less than Envoy's smallest, or the request ended around its call.
CallerGoesOn == \A c \in Calls : pc[c] = "parked" ~> pc[c] # "parked"

\* What the fiber makes of the answer: a part of a response is no response.
Learned(c) ==
  CASE result[c] = "returned" -> IF c \in head /\ body[c] = size[c] THEN "completed" ELSE "part"
    [] result[c] = "raised" -> IF outcome[c] = "completed" THEN "raised" ELSE outcome[c]
    [] OTHER -> "none"

Abstract == INSTANCE Answers WITH
  Questions <- Calls, Decisions <- Outcomes, Undecided <- "none",
  asked <- {c \in Calls : pc[c] # "idle" /\ result[c] \notin {"rejected", "refused"}},
  decision <- outcome, learned <- [c \in Calls |-> Learned(c)]

\* The worker decides a call once and after it was made, and the fiber learns
\* just that, although the answer is delivered and taken in pieces: the calls
\* implement Answers.
ImplementsAnswers == Abstract!Spec
=============================================================================
