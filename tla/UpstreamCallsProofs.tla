------------------------ MODULE UpstreamCallsProofs -------------------------
(***************************************************************************)
(* The calls of a request to upstreams (src/upstream.rs and the worker's   *)
(* upstream.rs) for any calls, deadlines and limit: no call is dropped     *)
(* between the route, the worker and Envoy, and the fiber learns what the  *)
(* worker decided.                                                         *)
(*                                                                         *)
(* The inductive invariant says of each call where it is until its outcome *)
(* is decided, how much of the answer the worker has yet to push, and what *)
(* of the answer the queue holds between what was pushed and what was      *)
(* taken.                                                                  *)
(***************************************************************************)
EXTENDS UpstreamCalls, ResponseStreamProofs, FiniteSetTheorems

\* What the worker may have left to do for the call in its hand.
Scripts ==
  { << >>, <<"wake">>, <<"count">>, <<"count", "wake">>, <<"wake", "count">>,
    <<"failure", "wake">>, <<"failure", "wake", "count">>, <<"failure", "count", "wake">>,
    <<"end", "count", "wake">>, <<"head", "end", "count", "wake">>,
    <<"chunk", "end", "count", "wake">>, <<"head", "chunk", "end", "count", "wake">> }

\* The call was made: neither rejected nor refused by `dispatch`.
Asked(c) == pc[c] # "idle" /\ result[c] \notin {"rejected", "refused"}

\* The worker has a step of the call left.
LeftOf(c, step) == hand = c /\ Left(step)

\* A call that is made and not decided is in one place, any other in none.
Whereabouts ==
  /\ \A c \in Calls :
       /\ c \in queued \cup batch \cup in_flight <=> Asked(c) /\ outcome[c] = "none"
       /\ outcome[c] # "none" => Asked(c)
       /\ c \in queued => ~closed /\ (event \/ pc[c] = "wake")
       /\ c \in in_flight /\ ~closed => c \in out
  /\ queued \cap batch = {} /\ queued \cap in_flight = {} /\ batch \cap in_flight = {}

\* The steps the worker has left fit what it decided, and what it did so far.
Steps ==
  /\ todo \in Scripts
  /\ hand # NoFiber => outcome[hand] # "none"
  /\ todo # << >> => hand # NoFiber
  /\ Left("head") => /\ response[hand].items = << >> /\ hand \notin head
                     /\ size[hand] > 0 => Left("chunk")
  /\ Left("end") => outcome[hand] = "completed"
  /\ Left("failure") => outcome[hand] # "completed"
  /\ Left("count") => hand \notin ended

\* The place in the body up to which the answer to c was pushed.
PushedUpto(c) == IF outcome[c] # "completed" \/ LeftOf(c, "chunk") THEN 0 ELSE size[c]

\* What the queue holds is the answer, from what was taken to what was pushed.
Contents(c) ==
  /\ ~response[c].cancelled /\ ~response[c].paused
  /\ response[c].ended <=> outcome[c] # "none" /\ ~LeftOf(c, "end") /\ ~LeftOf(c, "failure")
  /\ outcome[c] = "none" => response[c].items = << >>
  /\ c \in head => outcome[c] = "completed"
  /\ Ordered(response[c].items, body[c], PushedUpto(c))
  /\ response[c].buffered_bytes = PushedUpto(c) - body[c]
  /\ \A i \in 1 .. Len(response[c].items) :
       /\ response[c].items[i].kind = "failed" <=> outcome[c] # "completed"
       /\ response[c].items[i].kind = "end" => response[c].items[i].from = size[c]
  /\ outcome[c] = "completed" =>
       \/ c \in head
       \/ response[c].items # << >> /\ response[c].items[1].kind = "head"
       \/ LeftOf(c, "head")

\* The call is counted when it is told so, as what was decided.
Counts(c) ==
  /\ c \in ended => outcome[c] # "none"
  /\ counted[c] = IF outcome[c] = "none" \/ c \in ended \/ LeftOf(c, "count")
                  THEN << >> ELSE <<outcome[c]>>

\* The fiber has the slot of the queue while it is parked, is woken if there is
\* nothing more to come, and leaves with what was decided.
Caller(c) ==
  /\ result[c] = "none" <=> pc[c] # "done"
  /\ response[c].waiter = IF pc[c] = "parked" THEN c ELSE NoFiber
  /\ pc[c] = "parked" /\ response[c].ended => c \in owed \cup resolving \/ LeftOf(c, "wake")
  /\ result[c] = "returned" => outcome[c] = "completed" /\ c \in head /\ body[c] = size[c]
  /\ result[c] = "raised" => outcome[c] \notin {"none", "completed"}

\* Between its passes the reactor owes no wakeup it has taken.
PassOver == reactor = "wait" => resolving = {}

\* The inductive invariant.
IInv ==
  /\ TypeOK /\ Whereabouts /\ Steps /\ PassOver
  /\ \A c \in Calls : Contents(c) /\ Counts(c) /\ Caller(c)

-----------------------------------------------------------------------------
(* What is left of a script. *)

\* The step x is among those of q.
Has(q, x) == \E i \in 1 .. Len(q) : q[i] = x

\* Which steps a script of a given length has.
LEMMA HasFacts ==
  /\ \A x : ~Has(<< >>, x)
  /\ \A x, a : Has(<<a>>, x) <=> x = a
  /\ \A x, a, b : Has(<<a, b>>, x) <=> x \in {a, b}
  /\ \A x, a, b, e : Has(<<a, b, e>>, x) <=> x \in {a, b, e}
  /\ \A x, a, b, e, f : Has(<<a, b, e, f>>, x) <=> x \in {a, b, e, f}
  /\ \A x, a, b, e, f, g : Has(<<a, b, e, f, g>>, x) <=> x \in {a, b, e, f, g}
  <1>1. \A x : ~Has(<< >>, x)  BY DEF Has
  <1>2. \A x, a : Has(<<a>>, x) <=> x = a  BY DEF Has
  <1>3. \A x, a, b : Has(<<a, b>>, x) <=> x \in {a, b}  BY DEF Has
  <1>4. \A x, a, b, e : Has(<<a, b, e>>, x) <=> x \in {a, b, e}  BY DEF Has
  <1>5. \A x, a, b, e, f : Has(<<a, b, e, f>>, x) <=> x \in {a, b, e, f}  BY DEF Has
  <1>6. \A x, a, b, e, f, g : Has(<<a, b, e, f, g>>, x) <=> x \in {a, b, e, f, g}  BY DEF Has
  <1> QED BY <1>1, <1>2, <1>3, <1>4, <1>5, <1>6

\* What a script says of its steps and of what comes after its first.
ScriptSays(q) ==
  /\ Tail(q) \in Scripts
  /\ Head(q) \in {"head", "chunk", "end", "failure", "count", "wake"} /\ Has(q, Head(q))
  /\ \A x : Has(Tail(q), x) <=> Has(q, x) /\ x # Head(q)
  /\ Has(q, "head") \/ Has(q, "chunk") => Has(q, "end")
  /\ Has(q, "end") \/ Has(q, "failure") => Has(q, "wake")
  /\ ~(Has(q, "end") /\ Has(q, "failure"))
  /\ Has(q, "head") => Head(q) = "head"
  /\ Has(q, "chunk") => Head(q) \in {"head", "chunk"}
  /\ Has(q, "end") => Head(q) \in {"head", "chunk", "end"}
  /\ Has(q, "failure") => Head(q) = "failure"

\* A script that is not empty begins and goes on as ScriptSays.
LEMMA ScriptFacts ==
  ASSUME NEW q \in Scripts, q # << >>
  PROVE  ScriptSays(q)
  <1>1. CASE q = <<"wake">>
    <2>1. Tail(q) = << >> /\ Head(q) = "wake"  BY <1>1
    <2> QED BY <1>1, <2>1, HasFacts DEF ScriptSays, Scripts
  <1>2. CASE q = <<"count">>
    <2>1. Tail(q) = << >> /\ Head(q) = "count"  BY <1>2
    <2> QED BY <1>2, <2>1, HasFacts DEF ScriptSays, Scripts
  <1>3. CASE q = <<"count", "wake">>
    <2>1. Tail(q) = <<"wake">> /\ Head(q) = "count"  BY <1>3
    <2> QED BY <1>3, <2>1, HasFacts DEF ScriptSays, Scripts
  <1>4. CASE q = <<"wake", "count">>
    <2>1. Tail(q) = <<"count">> /\ Head(q) = "wake"  BY <1>4
    <2> QED BY <1>4, <2>1, HasFacts DEF ScriptSays, Scripts
  <1>5. CASE q = <<"failure", "wake">>
    <2>1. Tail(q) = <<"wake">> /\ Head(q) = "failure"  BY <1>5
    <2> QED BY <1>5, <2>1, HasFacts DEF ScriptSays, Scripts
  <1>6. CASE q = <<"failure", "wake", "count">>
    <2>1. Tail(q) = <<"wake", "count">> /\ Head(q) = "failure"  BY <1>6
    <2> QED BY <1>6, <2>1, HasFacts DEF ScriptSays, Scripts
  <1>7. CASE q = <<"failure", "count", "wake">>
    <2>1. Tail(q) = <<"count", "wake">> /\ Head(q) = "failure"  BY <1>7
    <2> QED BY <1>7, <2>1, HasFacts DEF ScriptSays, Scripts
  <1>8. CASE q = <<"end", "count", "wake">>
    <2>1. Tail(q) = <<"count", "wake">> /\ Head(q) = "end"  BY <1>8
    <2> QED BY <1>8, <2>1, HasFacts DEF ScriptSays, Scripts
  <1>9. CASE q = <<"head", "end", "count", "wake">>
    <2>1. Tail(q) = <<"end", "count", "wake">> /\ Head(q) = "head"  BY <1>9
    <2> QED BY <1>9, <2>1, HasFacts DEF ScriptSays, Scripts
  <1>10. CASE q = <<"chunk", "end", "count", "wake">>
    <2>1. Tail(q) = <<"end", "count", "wake">> /\ Head(q) = "chunk"  BY <1>10
    <2> QED BY <1>10, <2>1, HasFacts DEF ScriptSays, Scripts
  <1>11. CASE q = <<"head", "chunk", "end", "count", "wake">>
    <2>1. Tail(q) = <<"chunk", "end", "count", "wake">> /\ Head(q) = "head"  BY <1>11
    <2> QED BY <1>11, <2>1, HasFacts DEF ScriptSays, Scripts
  <1> QED BY <1>1, <1>2, <1>3, <1>4, <1>5, <1>6,
             <1>7, <1>8, <1>9, <1>10, <1>11 DEF Scripts

\* A script is typed as the variable that holds it.
LEMMA ScriptType ==
  Scripts \subseteq Seq({"head", "chunk", "end", "failure", "count", "wake"})
  BY DEF Scripts

\* What is left, and was left before, in terms of the script.
LEMMA LeftFacts ==
  /\ \A x : Left(x) <=> Has(todo, x)
  /\ \A x : Left(x)' <=> Has(todo', x)
  BY DEF Left, Has

\* Nothing is left of an empty script.
LEMMA NothingLeft ==
  /\ todo = << >> => \A x : ~Left(x)
  /\ todo' = << >> => \A x : ~Left(x)'
  BY LeftFacts, HasFacts

-----------------------------------------------------------------------------
(* The steps preserve the invariant. *)

\* A step that does not concern a call keeps what is said of it.
LEMMA OtherCall ==
  ASSUME NEW d \in Calls, Contents(d), Counts(d), Caller(d),
         response'[d] = response[d], outcome'[d] = outcome[d], size'[d] = size[d],
         counted'[d] = counted[d], body'[d] = body[d], result'[d] = result[d], pc'[d] = pc[d],
         d \in head' <=> d \in head, d \in ended' <=> d \in ended,
         d \in owed \cup resolving => d \in owed' \cup resolving',
         \A x : LeftOf(d, x)' <=> LeftOf(d, x)
  PROVE  Contents(d)' /\ Counts(d)' /\ Caller(d)'
  <1>1. PushedUpto(d)' = PushedUpto(d)  BY DEF PushedUpto
  <1>2. Contents(d)'  BY <1>1 DEF Contents
  <1>3. Counts(d)'  BY DEF Counts
  <1>4. Caller(d)'  BY DEF Caller
  <1> QED BY <1>2, <1>3, <1>4

\* The worker's side stays as it is in a step of the Ruby thread.
LEMMA WorkerIdles ==
  ASSUME UNCHANGED workerVars
  PROVE  \A x, d : LeftOf(d, x)' <=> LeftOf(d, x)
  BY DEF workerVars, LeftOf, Left

\* A call that names no allowed cluster or has no deadline goes nowhere.
LEMMA DispatchRejectedStep ==
  ASSUME IInv, NEW c \in Calls, DispatchRejected(c) PROVE IInv'
  <1> USE DEF IInv
  <1>1. TypeOK'  BY DEF DispatchRejected, Leaves, Goto, TypeOK, routeVars, workerVars
  <1>2. ~Asked(c) /\ ~Asked(c)'
    BY DEF DispatchRejected, FiberAt, Leaves, Goto, Asked, TypeOK
  <1>3. \A d \in Calls \ {c} : pc'[d] = pc[d] /\ result'[d] = result[d]
    BY DEF DispatchRejected, Leaves, Goto, TypeOK
  <1>4. Whereabouts'
    BY <1>2, <1>3 DEF DispatchRejected, FiberAt, Leaves, Goto, Asked, Whereabouts, TypeOK,
       routeVars, workerVars
  <1>5. Steps' /\ PassOver'
    BY DEF DispatchRejected, PassOver, Steps, Left, workerVars
  <1>6. ASSUME NEW d \in Calls PROVE Contents(d)' /\ Counts(d)' /\ Caller(d)'
    <2>1. \A x : LeftOf(d, x)' <=> LeftOf(d, x)
      BY WorkerIdles DEF DispatchRejected
    <2>2. CASE d # c
      BY <1>3, <2>1, <2>2, OtherCall DEF DispatchRejected, workerVars
    <2>3. CASE d = c
      <3>1. PushedUpto(c)' = PushedUpto(c)
        BY <2>1, <2>3 DEF DispatchRejected, PushedUpto, workerVars
      <3>2. Contents(c)' /\ Counts(c)'
        BY <2>1, <2>3, <3>1 DEF DispatchRejected, Contents, Counts, workerVars
      <3>3. Caller(c)'
        BY <2>1, <2>3 DEF DispatchRejected, FiberAt, Leaves, Goto, Caller, workerVars, TypeOK
      <3> QED BY <2>3, <3>2, <3>3
    <2> QED BY <2>2, <2>3
  <1> QED BY <1>1, <1>4, <1>5, <1>6

\* An open route takes the call, in no other place yet; a closed one refuses it.
LEMMA DispatchStep ==
  ASSUME IInv, NEW c \in Calls, Dispatch(c) PROVE IInv'
  <1> USE DEF IInv
  <1>0. \A us \in Timeouts : TimeoutMs(us) \in Nat
    BY TimeoutsAssumption DEF TimeoutMs
  <1>1. TypeOK'
    <2>1. deadline' \in [Calls -> Nat]  BY <1>0 DEF Dispatch, TypeOK
    <2>2. CASE closed
      <3>1. /\ queued' = queued /\ pc' = [pc EXCEPT ![c] = "done"]
            /\ cpu' = "reactor" /\ result' = [result EXCEPT ![c] = "refused"]
        BY <2>2 DEF Dispatch, Leaves, Goto
      <3> QED BY <2>1, <3>1 DEF Dispatch, TypeOK
    <2>3. CASE ~closed
      <3>1. /\ queued' = queued \cup {c} /\ pc' = [pc EXCEPT ![c] = "wake"]
            /\ cpu' = cpu /\ result' = result
        BY <2>3 DEF Dispatch, Goto
      <3>2. queued' \subseteq Calls  BY <3>1 DEF TypeOK
      <3> QED BY <2>1, <3>1, <3>2 DEF Dispatch, TypeOK
    <2> QED BY <2>2, <2>3
  <1>2. /\ ~Asked(c) /\ outcome[c] = "none" /\ c \notin queued \cup batch \cup in_flight
        /\ result[c] = "none"
    BY DEF Dispatch, FiberAt, Asked, Whereabouts, Caller
  <1>3. \A d \in Calls \ {c} : pc'[d] = pc[d] /\ result'[d] = result[d]
    BY DEF Dispatch, Leaves, Goto, TypeOK
  <1>4. Whereabouts'
    <2>1. CASE closed
      <3>1. ~Asked(c)'  BY <2>1 DEF Dispatch, Leaves, Goto, Asked, TypeOK
      <3> QED BY <1>2, <1>3, <2>1, <3>1 DEF Dispatch, Asked, Whereabouts
    <2>2. CASE ~closed
      <3>1. Asked(c)' /\ pc'[c] = "wake"
        BY <1>2, <2>2 DEF Dispatch, Leaves, Goto, Asked, TypeOK
      <3> QED BY <1>2, <1>3, <2>2, <3>1 DEF Dispatch, Asked, Whereabouts
    <2> QED BY <2>1, <2>2
  <1>5. Steps' /\ PassOver'  BY DEF Dispatch, PassOver, Steps, Left
  <1>6. ASSUME NEW d \in Calls PROVE Contents(d)' /\ Counts(d)' /\ Caller(d)'
    <2>1. \A x : LeftOf(d, x)' <=> LeftOf(d, x)  BY DEF Dispatch, LeftOf, Left
    <2>2. CASE d # c
      BY <1>3, <2>1, <2>2, OtherCall DEF Dispatch
    <2>3. CASE d = c
      <3>1. PushedUpto(c)' = PushedUpto(c)  BY <2>1, <2>3 DEF Dispatch, PushedUpto
      <3>2. Contents(c)' /\ Counts(c)'
        BY <2>1, <2>3, <3>1 DEF Dispatch, Contents, Counts
      <3>3. Caller(c)'
        BY <2>1, <2>3 DEF Dispatch, FiberAt, Leaves, Goto, Caller, TypeOK
      <3> QED BY <2>3, <3>2, <3>3
    <2> QED BY <2>2, <2>3
  <1> QED BY <1>1, <1>4, <1>5, <1>6

\* The event that brings the worker is committed before the fiber waits.
LEMMA WakeWorkerStep ==
  ASSUME IInv, NEW c \in Calls, WakeWorker(c) PROVE IInv'
  <1> USE DEF IInv
  <1>1. TypeOK'  BY DEF WakeWorker, Goto, TypeOK, workerVars
  <1>3. \A d \in Calls : (pc'[d] = pc[d] \/ (d = c /\ pc[d] = "wake" /\ pc'[d] = "take"))
    BY DEF WakeWorker, FiberAt, Goto, TypeOK
  <1>4. Whereabouts'
    BY <1>3 DEF WakeWorker, Asked, Whereabouts, workerVars
  <1>5. Steps' /\ PassOver'  BY DEF WakeWorker, PassOver, Steps, Left, workerVars
  <1>6. ASSUME NEW d \in Calls PROVE Contents(d)' /\ Counts(d)' /\ Caller(d)'
    <2>1. \A x : LeftOf(d, x)' <=> LeftOf(d, x)  BY WorkerIdles DEF WakeWorker
    <2>3. PushedUpto(d)' = PushedUpto(d)  BY <2>1 DEF WakeWorker, PushedUpto, workerVars
    <2>4. Contents(d)' /\ Counts(d)'
      BY <2>1, <2>3 DEF WakeWorker, Contents, Counts, workerVars
    <2>5. Caller(d)'
      BY <1>3, <2>1 DEF WakeWorker, Caller, workerVars
    <2> QED BY <2>4, <2>5
  <1> QED BY <1>1, <1>4, <1>5, <1>6

\* The bytes at the front of a call's queue are those the fiber takes next.
LEMMA FirstItem ==
  ASSUME TypeOK, NEW c \in Calls, Contents(c), response[c].items # << >>
  PROVE  LET s == response[c]
             item == s.items[1]
         IN  /\ item \in Items /\ Head(s.items) = item /\ item.from = body[c]
             /\ item.from =< item.upto /\ item.upto - item.from =< s.buffered_bytes
             /\ item.upto =< PushedUpto(c) /\ Ordered(Tail(s.items), item.upto, PushedUpto(c))
             /\ item.kind # "chunk" => item.upto = item.from
             /\ TakeNext(s) \in StreamsOf(Calls) /\ TakeNext(s).items = Tail(s.items)
             /\ TakeNext(s).buffered_bytes = PushedUpto(c) - item.upto
             /\ TakeNext(s).ended = s.ended /\ TakeNext(s).waiter = s.waiter
             /\ ~TakeNext(s).cancelled /\ ~TakeNext(s).paused
  <1> DEFINE s == response[c]
             item == s.items[1]
             upto == PushedUpto(c)
  <1>1. s \in StreamsOf(Calls) /\ s.items \in Seq(Items) /\ upto \in Nat /\ body[c] \in Nat
    BY DEF TypeOK, StreamsOf, PushedUpto
  <1>2. item \in Items /\ Head(s.items) = item  BY <1>1, TailFacts
  <1>3. Ordered(s.items, body[c], upto) /\ s.buffered_bytes = upto - body[c]
    BY DEF Contents
  <1> HIDE DEF s, upto
  <1>4. /\ Ordered(Tail(s.items), item.upto, upto) /\ item.from = body[c]
        /\ body[c] =< item.upto /\ item.upto =< upto
        /\ item.kind # "chunk" => item.upto = body[c]
    BY <1>1, <1>3, OrderedTail DEF s
  <1>5. CanTake(s)  BY DEF CanTake, Contents, s
  <1>6. item.from \in Nat /\ item.upto \in Nat  BY <1>2 DEF Items
  <1>7. item.from =< item.upto /\ item.upto - item.from =< s.buffered_bytes
    BY <1>1, <1>3, <1>4, <1>6
  <1>8. /\ TakeNext(s) \in StreamsOf(Calls) /\ TakeNext(s).items = Tail(s.items)
        /\ TakeNext(s).buffered_bytes = s.buffered_bytes - (item.upto - item.from)
        /\ TakeNext(s).ended = s.ended /\ TakeNext(s).waiter = s.waiter
        /\ TakeNext(s).cancelled = s.cancelled /\ TakeNext(s).paused = s.paused
    BY <1>1, <1>5, <1>7, TakeFacts
  <1>9. TakeNext(s).buffered_bytes = upto - item.upto
    BY <1>1, <1>3, <1>4, <1>6, <1>8
  <1>10. ~s.cancelled /\ ~s.paused  BY DEF Contents, s
  <1> QED BY <1>2, <1>4, <1>7, <1>8, <1>9, <1>10 DEF s, upto

\* A queue with nothing to take: the fiber goes on to park.
LEMMA TakeNothingStep ==
  ASSUME IInv, NEW c \in Calls, Take(c), response[c].items = << >> PROVE IInv'
  <1> USE DEF IInv
  <1>0. /\ pc[c] = "take" /\ pc' = [pc EXCEPT ![c] = "park"]
        /\ response' = response /\ UNCHANGED <<cpu, head, body, result>>
        /\ UNCHANGED <<routeVars, workerVars, owed, resolving, reactor>>
    <2>1. ~CanTake(response[c])  BY DEF CanTake
    <2>2. TakeNext(response[c]) = response[c]  BY <2>1 DEF TakeNext
    <2> QED BY <2>1, <2>2 DEF Take, FiberAt, Goto, TypeOK
  <1>1. TypeOK'  BY <1>0 DEF TypeOK, routeVars, workerVars
  <1>2. \A d \in Calls : pc'[d] = pc[d] \/ (d = c /\ pc[d] = "take" /\ pc'[d] = "park")
    BY <1>0 DEF TypeOK
  <1>3. Whereabouts'  BY <1>0, <1>2 DEF Asked, Whereabouts, routeVars, workerVars
  <1>4. Steps' /\ PassOver'  BY <1>0 DEF PassOver, Steps, Left, workerVars
  <1>5. ASSUME NEW d \in Calls PROVE Contents(d)' /\ Counts(d)' /\ Caller(d)'
    <2>1. \A x : LeftOf(d, x)' <=> LeftOf(d, x)  BY <1>0, WorkerIdles
    <2>2. PushedUpto(d)' = PushedUpto(d)  BY <1>0, <2>1 DEF PushedUpto, workerVars
    <2>3. Contents(d)' /\ Counts(d)'
      BY <1>0, <2>1, <2>2 DEF Contents, Counts, workerVars
    <2>4. Caller(d)'  BY <1>0, <1>2, <2>1 DEF Caller, workerVars
    <2> QED BY <2>3, <2>4
  <1> QED BY <1>1, <1>3, <1>4, <1>5

\* An item is taken: what is left in the queue starts where the fiber now is,
\* and the fiber leaves with the outcome if the item was the last.
LEMMA TakeItemStep ==
  ASSUME IInv, NEW c \in Calls, Take(c), response[c].items # << >> PROVE IInv'
  <1> USE DEF IInv
  <1> DEFINE s == response[c]
             item == s.items[1]
             t == TakeNext(s)
  <1>0. /\ item \in Items /\ Head(s.items) = item /\ item.from = body[c]
        /\ item.from =< item.upto
        /\ item.upto =< PushedUpto(c) /\ Ordered(Tail(s.items), item.upto, PushedUpto(c))
        /\ item.kind # "chunk" => item.upto = item.from
        /\ t \in StreamsOf(Calls) /\ t.items = Tail(s.items)
        /\ t.buffered_bytes = PushedUpto(c) - item.upto
        /\ t.ended = s.ended /\ t.waiter = s.waiter /\ ~t.cancelled /\ ~t.paused
    BY FirstItem
  <1>1. /\ s \in StreamsOf(Calls) /\ s.items \in Seq(Items) /\ s.items # << >> /\ CanTake(s)
        /\ \A i \in 1 .. Len(s.items) :
             /\ s.items[i].kind = "failed" <=> outcome[c] # "completed"
             /\ s.items[i].kind = "end" => s.items[i].from = size[c]
        /\ outcome[c] = "completed" => c \in head \/ item.kind = "head" \/ LeftOf(c, "head")
        /\ outcome[c] # "none" /\ ~LeftOf(c, "head")
    <2>1. ~LeftOf(c, "head")  BY DEF Steps, LeftOf
    <2> QED BY <2>1 DEF TypeOK, StreamsOf, Contents, CanTake
  <1>2. /\ Len(s.items) \in Nat /\ 1 \in 1 .. Len(s.items)
        /\ \A i \in 1 .. Len(t.items) : i + 1 \in 1 .. Len(s.items) /\ t.items[i] = s.items[i + 1]
    BY <1>0, <1>1, TailFacts
  <1>3. /\ item.kind \in Kinds /\ item.from \in Nat /\ item.upto \in Nat
        /\ item.kind = "failed" <=> outcome[c] # "completed"
        /\ item.kind = "end" => item.from = size[c]
        /\ item.kind \in {"chunk", "end"} => c \in head
    BY <1>0, <1>1, <1>2 DEF Items, Kinds
  <1>4. /\ pc[c] = "take" /\ response' = [response EXCEPT ![c] = t]
        /\ head' = IF item.kind = "head" THEN head \cup {c} ELSE head
        /\ body' = IF item.kind = "chunk" THEN [body EXCEPT ![c] = @ + Size(item)] ELSE body
        /\ item.kind \in {"head", "chunk"} => UNCHANGED <<cpu, pc, result>>
        /\ item.kind = "end" => Leaves(c, IF c \in head THEN "returned" ELSE "raised")
        /\ item.kind = "failed" => Leaves(c, "raised")
        /\ UNCHANGED <<routeVars, workerVars, owed, resolving, reactor>>
    BY <1>0, <1>1 DEF Take, FiberAt
  <1> HIDE DEF s, item, t
  <1>5. /\ response'[c] = t /\ \A d \in Calls \ {c} : response'[d] = response[d]
        /\ response' \in [Calls -> StreamsOf(Calls)]
    BY <1>0, <1>4 DEF TypeOK
  <1>6. /\ body'[c] = item.upto /\ \A d \in Calls \ {c} : body'[d] = body[d]
        /\ body' \in [Calls -> Nat]
    BY <1>0, <1>3, <1>4 DEF TypeOK, Size
  <1>7. /\ pc' \in [Calls -> {"idle", "wake", "take", "park", "parked", "resumed", "done"}]
        /\ result' \in [Calls -> {"none", "rejected", "refused", "returned", "raised", "left"}]
        /\ cpu' \in {"reactor"} \cup Calls
        /\ \A d \in Calls \ {c} : pc'[d] = pc[d] /\ result'[d] = result[d]
        /\ \/ pc'[c] = "take" /\ result'[c] = "none"
           \/ pc'[c] = "done" /\ result'[c] = "returned" /\ item.kind = "end"
           \/ pc'[c] = "done" /\ result'[c] = "raised" /\ item.kind = "failed"
    <2>1. result[c] = "none"  BY <1>4 DEF Caller
    <2>2. CASE item.kind \in {"head", "chunk"}  BY <1>4, <2>1, <2>2 DEF TypeOK
    <2>3. CASE item.kind = "end"  BY <1>3, <1>4, <2>3 DEF Leaves, Goto, TypeOK
    <2>4. CASE item.kind = "failed"  BY <1>4, <2>4 DEF Leaves, Goto, TypeOK
    <2> QED BY <1>3, <2>2, <2>3, <2>4 DEF Kinds
  <1>8. TypeOK'
    <2>1. head' \subseteq Calls  BY <1>4 DEF TypeOK
    <2> QED BY <1>4, <1>5, <1>6, <1>7, <2>1 DEF TypeOK, routeVars, workerVars
  <1>9. Whereabouts'
    <2>1. \A d \in Calls : Asked(d)' <=> Asked(d)
      BY <1>4, <1>7 DEF Asked, Caller
    <2>2. \A d \in Calls : pc[d] = "wake" => pc'[d] = "wake"  BY <1>4, <1>7
    <2> QED BY <1>4, <2>1, <2>2 DEF Whereabouts, routeVars, workerVars
  <1>10. Steps' /\ PassOver'
    <2>1. Left("head") => hand # c /\ hand \in Calls
      BY <1>1, LeftFacts, HasFacts DEF Steps, LeftOf, TypeOK
    <2>2. \A x : Left(x)' <=> Left(x)  BY <1>4 DEF workerVars, Left
    <2> QED BY <1>4, <1>5, <2>1, <2>2 DEF PassOver, Steps, workerVars
  <1>11. ASSUME NEW d \in Calls PROVE Contents(d)' /\ Counts(d)' /\ Caller(d)'
    <2>1. \A x : LeftOf(d, x)' <=> LeftOf(d, x)  BY <1>4, WorkerIdles
    <2>2. CASE d # c
      <3>1. d \in head' <=> d \in head  BY <1>4, <2>2
      <3> QED BY <1>4, <1>5, <1>6, <1>7, <2>1, <2>2, <3>1, OtherCall DEF workerVars
    <2>3. CASE d = c
      <3>1. PushedUpto(c)' = PushedUpto(c)
        BY <1>4, <2>1, <2>3 DEF PushedUpto, workerVars
      <3>2. /\ Ordered(t.items, body'[c], PushedUpto(c))
            /\ t.buffered_bytes = PushedUpto(c) - body'[c]
        BY <1>0, <1>6
      <3>3. /\ outcome[c] = "completed" => c \in head'
            /\ c \in head' => outcome[c] = "completed"
        BY <1>1, <1>3, <1>4 DEF Contents
      <3>4. \A i \in 1 .. Len(t.items) :
              /\ t.items[i].kind = "failed" <=> outcome[c] # "completed"
              /\ t.items[i].kind = "end" => t.items[i].from = size[c]
        BY <1>1, <1>2
      <3>5. t.ended <=> outcome[c] # "none" /\ ~LeftOf(c, "end") /\ ~LeftOf(c, "failure")
        BY <1>0 DEF Contents, s
      <3>6. Contents(c)'
        <4>1. outcome' = outcome /\ size' = size /\ response'[c] = t
          BY <1>4, <1>5 DEF workerVars
        <4>2. ~t.cancelled /\ ~t.paused  BY <1>0 DEF Contents, s
        <4>3. \A x : LeftOf(c, x)' <=> LeftOf(c, x)  BY <2>1, <2>3
        <4>4. outcome[c] # "none"  BY <1>1
        <4> QED BY <3>1, <3>2, <3>3, <3>4, <3>5, <4>1, <4>2, <4>3, <4>4 DEF Contents
      <3>7. Counts(c)'  BY <1>4, <2>1, <2>3 DEF Counts, workerVars
      <3>8. t.waiter = NoFiber  BY <1>0, <1>4 DEF Caller, s
      <3>9. Caller(c)'
        BY <1>0, <1>1, <1>3, <1>4, <1>5, <1>6, <1>7, <3>3, <3>8 DEF Caller, workerVars
      <3> QED BY <2>3, <3>6, <3>7, <3>9
    <2> QED BY <2>2, <2>3
  <1> QED BY <1>8, <1>9, <1>10, <1>11

\* The fiber takes what the queue has, or goes to wait.
LEMMA TakeStep ==
  ASSUME IInv, NEW c \in Calls, Take(c) PROVE IInv'
  BY TakeNothingStep, TakeItemStep

\* A step that touches the slot of one queue, and where its fiber is.
LEMMA SlotStep ==
  ASSUME IInv, NEW c \in Calls, NEW t \in StreamsOf(Calls),
         t.items = response[c].items, t.buffered_bytes = response[c].buffered_bytes,
         t.ended = response[c].ended, t.cancelled = response[c].cancelled,
         t.paused = response[c].paused,
         response' = [response EXCEPT ![c] = t],
         UNCHANGED <<routeVars, workerVars, head, body>>,
         owed' \subseteq Calls, resolving' \subseteq Calls, reactor' \in {"wait", "resolve"},
         cpu' \in {"reactor"} \cup Calls, PassOver',
         NEW where \in {"take", "park", "parked", "resumed", "done", pc[c]},
         NEW how \in {"left", result[c]},
         pc' = [pc EXCEPT ![c] = where], result' = [result EXCEPT ![c] = how],
         \A d \in Calls \ {c} : d \in owed \cup resolving => d \in owed' \cup resolving',
         Asked(c)' <=> Asked(c), pc[c] = "wake" => where = "wake", Caller(c)'
  PROVE  IInv'
  <1> USE DEF IInv
  <1>1. /\ response'[c] = t /\ \A d \in Calls \ {c} : response'[d] = response[d]
        /\ response' \in [Calls -> StreamsOf(Calls)]
    BY DEF TypeOK
  <1>2. \A d \in Calls \ {c} : pc'[d] = pc[d] /\ result'[d] = result[d]
    BY DEF TypeOK
  <1>3. TypeOK'
    <2>1. pc' \in [Calls -> {"idle", "wake", "take", "park", "parked", "resumed", "done"}]
      BY DEF TypeOK
    <2>2. result' \in [Calls -> {"none", "rejected", "refused", "returned", "raised", "left"}]
      BY DEF TypeOK
    <2> QED BY <1>1, <2>1, <2>2 DEF TypeOK, routeVars, workerVars
  <1>4. Whereabouts'
    <2>1. \A d \in Calls : Asked(d)' <=> Asked(d)  BY <1>2 DEF Asked
    <2>2. \A d \in Calls : pc[d] = "wake" => pc'[d] = "wake"  BY <1>2 DEF TypeOK
    <2> QED BY <2>1, <2>2 DEF Whereabouts, routeVars, workerVars
  <1>5. Steps'
    <2>1. \A x : Left(x)' <=> Left(x)  BY DEF Left, workerVars
    <2>2. \A d \in Calls : response'[d].items = response[d].items  BY <1>1
    <2>3. Left("head") => hand \in Calls
      BY LeftFacts, HasFacts DEF Steps, TypeOK
    <2> QED BY <2>1, <2>2, <2>3 DEF Steps, workerVars
  <1>6. ASSUME NEW d \in Calls PROVE Contents(d)' /\ Counts(d)' /\ Caller(d)'
    <2>1. \A x : LeftOf(d, x)' <=> LeftOf(d, x)  BY WorkerIdles
    <2>2. CASE d # c
      BY <1>1, <1>2, <2>1, <2>2, OtherCall DEF workerVars
    <2>3. CASE d = c
      <3>1. PushedUpto(c)' = PushedUpto(c)
        BY <2>1, <2>3 DEF PushedUpto, workerVars
      <3>2. Contents(c)'
        BY <1>1, <2>1, <2>3, <3>1 DEF Contents, workerVars
      <3>3. Counts(c)'  BY <2>1, <2>3 DEF Counts, workerVars
      <3> QED BY <2>3, <3>2, <3>3
    <2> QED BY <2>2, <2>3
  <1> QED BY <1>3, <1>4, <1>5, <1>6

\* A fiber has the slot of its own queue, and no other mark means the same.
LEMMA SlotIsOwn ==
  ASSUME IInv, NEW c \in Calls
  PROVE  /\ response[c] \in StreamsOf(Calls) /\ c # NoFiber /\ c # "reactor"
         /\ response[c].waiter = c <=> pc[c] = "parked"
         /\ result[c] = "none" <=> pc[c] # "done"
  BY CallsAssumption DEF IInv, TypeOK, Caller

\* A fiber parks only while there is more to come.
LEMMA ParkOnStep ==
  ASSUME IInv, NEW c \in Calls, ParkOn(c) PROVE IInv'
  <1> DEFINE t == Park(response[c], c)
             where == IF MayPark(response[c]) THEN "parked" ELSE "take"
  <1>1. /\ t \in StreamsOf(Calls) /\ t.items = response[c].items /\ t.ended = response[c].ended
        /\ t.buffered_bytes = response[c].buffered_bytes
        /\ t.cancelled = response[c].cancelled /\ t.paused = response[c].paused
        /\ t.waiter = IF MayPark(response[c]) THEN c ELSE response[c].waiter
    BY SlotIsOwn, ParkFacts
  <1>2. /\ pc[c] = "park" /\ response' = [response EXCEPT ![c] = t]
        /\ pc' = [pc EXCEPT ![c] = where] /\ cpu' \in {"reactor", c}
        /\ UNCHANGED <<routeVars, workerVars, owed, resolving, reactor, head, body, result>>
    BY DEF ParkOn, FiberAt, Goto
  <1>3. MayPark(response[c]) => ~response[c].ended  BY DEF MayPark
  <1>4. where \in {"take", "parked"} /\ (where = "parked" <=> MayPark(response[c]))  OBVIOUS
  <1> HIDE DEF t, where
  <1>5. response'[c] = t /\ pc'[c] = where  BY <1>1, <1>2 DEF IInv, TypeOK
  <1>6. result[c] = "none"  BY <1>2, SlotIsOwn
  <1>7. Caller(c)'
    BY <1>1, <1>2, <1>3, <1>4, <1>5, <1>6, SlotIsOwn DEF IInv, Caller
  <1>8. Asked(c)' <=> Asked(c)  BY <1>2, <1>4, <1>5 DEF Asked
  <1>9. result' = [result EXCEPT ![c] = result[c]]  BY <1>2 DEF IInv, TypeOK
  <1>10.  /\ owed' \subseteq Calls /\ resolving' \subseteq Calls
         /\ reactor' \in {"wait", "resolve"} /\ cpu' \in {"reactor"} \cup Calls /\ PassOver'
         /\ \A d \in Calls \ {c} : d \in owed \cup resolving => d \in owed' \cup resolving'
    BY <1>2 DEF IInv, TypeOK, PassOver
  <1> QED BY <1>1, <1>2, <1>4, <1>7, <1>8, <1>9, <1>10, SlotStep

\* A fiber that was woken gives the slot of its queue back.
LEMMA WaitEndsStep ==
  ASSUME IInv, NEW c \in Calls, WaitEnds(c) PROVE IInv'
  <1> DEFINE t == Unpark(response[c])
  <1>1. /\ t \in StreamsOf(Calls) /\ t.items = response[c].items /\ t.ended = response[c].ended
        /\ t.buffered_bytes = response[c].buffered_bytes
        /\ t.cancelled = response[c].cancelled /\ t.paused = response[c].paused
        /\ t.waiter = NoFiber
    BY SlotIsOwn, UnparkFacts
  <1>2. /\ pc[c] = "resumed" /\ response' = [response EXCEPT ![c] = t]
        /\ pc' = [pc EXCEPT ![c] = "take"]
        /\ UNCHANGED <<routeVars, workerVars, owed, resolving, reactor, cpu, head, body, result>>
    BY DEF WaitEnds, FiberAt, Goto
  <1> HIDE DEF t
  <1>3. response'[c] = t /\ pc'[c] = "take"  BY <1>1, <1>2 DEF IInv, TypeOK
  <1>4. result[c] = "none"  BY <1>2, SlotIsOwn
  <1>5. Caller(c)'  BY <1>1, <1>2, <1>3, <1>4 DEF Caller
  <1>6. Asked(c)' <=> Asked(c)  BY <1>2, <1>3 DEF Asked
  <1>7. result' = [result EXCEPT ![c] = result[c]]  BY <1>2 DEF IInv, TypeOK
  <1>8.  /\ owed' \subseteq Calls /\ resolving' \subseteq Calls
         /\ reactor' \in {"wait", "resolve"} /\ cpu' \in {"reactor"} \cup Calls /\ PassOver'
         /\ \A d \in Calls \ {c} : d \in owed \cup resolving => d \in owed' \cup resolving'
    BY <1>2 DEF IInv, TypeOK, PassOver
  <1> QED BY <1>1, <1>2, <1>5, <1>6, <1>7, <1>8, SlotStep

\* So does one that leaves without the answer.
LEMMA GivesUpStep ==
  ASSUME IInv, NEW c \in Calls, GivesUp(c) PROVE IInv'
  <1> DEFINE t == Unpark(response[c])
  <1>1. /\ t \in StreamsOf(Calls) /\ t.items = response[c].items /\ t.ended = response[c].ended
        /\ t.buffered_bytes = response[c].buffered_bytes
        /\ t.cancelled = response[c].cancelled /\ t.paused = response[c].paused
        /\ t.waiter = NoFiber
    BY SlotIsOwn, UnparkFacts
  <1>2. /\ pc[c] \in {"parked", "resumed"} /\ response' = [response EXCEPT ![c] = t]
        /\ pc' = [pc EXCEPT ![c] = "done"] /\ result' = [result EXCEPT ![c] = "left"]
        /\ cpu' = "reactor"
        /\ UNCHANGED <<routeVars, workerVars, owed, resolving, reactor, head, body>>
    BY DEF GivesUp, Leaves, Goto
  <1> HIDE DEF t
  <1>3. response'[c] = t /\ pc'[c] = "done" /\ result'[c] = "left"
    BY <1>1, <1>2 DEF IInv, TypeOK
  <1>4. result[c] = "none"  BY <1>2, SlotIsOwn
  <1>5. Caller(c)'  BY <1>1, <1>3 DEF Caller
  <1>6. Asked(c)' <=> Asked(c)  BY <1>2, <1>3, <1>4 DEF Asked
  <1>7.  /\ owed' \subseteq Calls /\ resolving' \subseteq Calls
         /\ reactor' \in {"wait", "resolve"} /\ cpu' \in {"reactor"} \cup Calls /\ PassOver'
         /\ \A d \in Calls \ {c} : d \in owed \cup resolving => d \in owed' \cup resolving'
    BY <1>2 DEF IInv, TypeOK, PassOver
  <1> QED BY <1>1, <1>2, <1>5, <1>6, <1>7, SlotStep

\* The reactor wakes one of the fibers it owes.
LEMMA ResolveBodiesStep ==
  ASSUME IInv, ResolveBodies PROVE IInv'
  <1>1. CASE resolving = {}
    <2>1. UNCHANGED <<response, resolving, pc, routeVars, workerVars, owed, cpu, head, body, result>>
      BY <1>1 DEF ResolveBodies
    <2>2. TypeOK'
      BY <1>1, <2>1 DEF ResolveBodies, IInv, TypeOK, routeVars, workerVars
    <2>3. Whereabouts' /\ Steps' /\ PassOver'
      BY <1>1, <2>1 DEF PassOver, IInv, Whereabouts, Asked, Steps, Left, routeVars, workerVars
    <2>4. ASSUME NEW d \in Calls PROVE Contents(d)' /\ Counts(d)' /\ Caller(d)'
      <3>1. \A x : LeftOf(d, x)' <=> LeftOf(d, x)  BY <2>1, WorkerIdles
      <3> QED BY <2>1, <3>1, OtherCall DEF IInv, workerVars
    <2> QED BY <2>2, <2>3, <2>4 DEF IInv
  <1>2. ASSUME resolving # {} PROVE IInv'
    <2>1. PICK c \in resolving :
            /\ resolving' = resolving \ {c}
            /\ response' = [response EXCEPT ![c] = Unpark(@)]
            /\ Goto(c, IF response[c].waiter = c THEN "resumed" ELSE pc[c])
            /\ UNCHANGED reactor
      BY <1>2 DEF ResolveBodies
    <2>2. c \in Calls  BY <2>1 DEF IInv, TypeOK
    <2> DEFINE t == Unpark(response[c])
               where == IF response[c].waiter = c THEN "resumed" ELSE pc[c]
    <2>3. /\ t \in StreamsOf(Calls) /\ t.items = response[c].items /\ t.ended = response[c].ended
          /\ t.buffered_bytes = response[c].buffered_bytes
          /\ t.cancelled = response[c].cancelled /\ t.paused = response[c].paused
          /\ t.waiter = NoFiber
      BY <2>2, SlotIsOwn, UnparkFacts
    <2>4. /\ response' = [response EXCEPT ![c] = t] /\ pc' = [pc EXCEPT ![c] = where]
          /\ UNCHANGED <<routeVars, workerVars, owed, cpu, head, body, result>>
      BY <2>1 DEF ResolveBodies, Goto
    <2>5. /\ where \in {"resumed", pc[c]} /\ where # "parked"
          /\ pc[c] # "parked" => where = pc[c]
      BY <2>2, SlotIsOwn
    <2> HIDE DEF t, where
    <2>6. response'[c] = t /\ pc'[c] = where  BY <2>2, <2>3, <2>4 DEF IInv, TypeOK
    <2>7. Caller(c)'
      <3>1. result[c] = "none" <=> where # "done"  BY <2>2, <2>5, SlotIsOwn
      <3> QED BY <2>2, <2>3, <2>4, <2>5, <2>6, <3>1 DEF IInv, Caller, workerVars
    <2>8. Asked(c)' <=> Asked(c)  BY <2>4, <2>5, <2>6 DEF Asked
    <2>9. result' = [result EXCEPT ![c] = result[c]]  BY <2>2, <2>4 DEF IInv, TypeOK
    <2>10. pc[c] = "wake" => where = "wake"  BY <2>5
    <2>11. /\ owed' \subseteq Calls /\ resolving' \subseteq Calls
           /\ reactor' \in {"wait", "resolve"} /\ cpu' \in {"reactor"} \cup Calls /\ PassOver'
           /\ \A d \in Calls \ {c} : d \in owed \cup resolving => d \in owed' \cup resolving'
      BY <2>1, <2>4 DEF IInv, TypeOK, PassOver, ResolveBodies
    <2> QED BY <2>2, <2>3, <2>4, <2>5, <2>7, <2>8, <2>9, <2>10, <2>11, SlotStep
  <1> QED BY <1>1, <1>2

\* A fiber gets the Ruby thread.
LEMMA FiberResumeStep ==
  ASSUME IInv, NEW c \in Calls, FiberResume(c) PROVE IInv'
  <1>1. TypeOK'
    BY DEF FiberResume, IInv, TypeOK, routeVars, workerVars
  <1>2. Whereabouts' /\ Steps' /\ PassOver'
    BY DEF FiberResume, PassOver, IInv, Whereabouts, Asked, Steps, Left, routeVars, workerVars
  <1>3. ASSUME NEW d \in Calls PROVE Contents(d)' /\ Counts(d)' /\ Caller(d)'
    <2>1. \A x : LeftOf(d, x)' <=> LeftOf(d, x)  BY WorkerIdles DEF FiberResume
    <2> QED BY <2>1, OtherCall DEF FiberResume, IInv, workerVars
  <1> QED BY <1>1, <1>2, <1>3 DEF IInv

\* The reactor starts a pass over the wakeups.
LEMMA TakeWakeupsStep ==
  ASSUME IInv, TakeWakeups PROVE IInv'
  <1>1. TypeOK'
    BY DEF TakeWakeups, IInv, TypeOK, routeVars, workerVars
  <1>2. Whereabouts' /\ Steps' /\ PassOver'
    BY DEF TakeWakeups, PassOver, IInv, Whereabouts, Asked, Steps, Left, routeVars, workerVars
  <1>3. ASSUME NEW d \in Calls PROVE Contents(d)' /\ Counts(d)' /\ Caller(d)'
    <2>1. \A x : LeftOf(d, x)' <=> LeftOf(d, x)  BY WorkerIdles DEF TakeWakeups
    <2> QED BY <2>1, OtherCall DEF TakeWakeups, IInv, PassOver, workerVars
  <1> QED BY <1>1, <1>2, <1>3 DEF IInv

-----------------------------------------------------------------------------
(* The worker's steps. *)

\* A step that moves undecided calls between the route, the worker and Envoy.
LEMMA MoveStep ==
  ASSUME IInv, Whereabouts',
         UNCHANGED <<response, hand, todo, ended, outcome, size, counted, deadline, rubyVars>>,
         closed' \in BOOLEAN, event' \in BOOLEAN, queued' \subseteq Calls, batch' \subseteq Calls,
         in_flight' \subseteq Calls, out' \subseteq Calls, doing' \in {"none", "send", "abandon"}
  PROVE  IInv'
  <1>1. TypeOK'  BY DEF IInv, TypeOK, rubyVars
  <1>2. Steps' /\ PassOver'
    BY DEF IInv, Steps, Left, PassOver, rubyVars
  <1>3. ASSUME NEW d \in Calls PROVE Contents(d)' /\ Counts(d)' /\ Caller(d)'
    <2>1. \A x : LeftOf(d, x)' <=> LeftOf(d, x)  BY DEF LeftOf, Left
    <2> QED BY <2>1, OtherCall DEF IInv, rubyVars
  <1> QED BY <1>1, <1>2, <1>3 DEF IInv

\* The worker collects what the route holds.
LEMMA OnScheduledStep ==
  ASSUME IInv, OnScheduled PROVE IInv'
  <1>1. closed' \in BOOLEAN /\ event' \in BOOLEAN  BY DEF OnScheduled, IInv, TypeOK
  <1>2. queued' \subseteq Calls /\ batch' \subseteq Calls  BY DEF OnScheduled, IInv, TypeOK
  <1>3. Whereabouts'
    <2>1. \A d \in Calls : Asked(d)' <=> Asked(d)  BY DEF OnScheduled, Asked, rubyVars
    <2>2. CASE closed
      <3>1. queued = {}  BY <2>2 DEF IInv, TypeOK, Whereabouts
      <3>2. queued' = {} /\ batch' = {} /\ batch = {}  BY <2>2, <3>1 DEF OnScheduled, Idle
      <3> QED BY <2>1, <2>2, <3>1, <3>2 DEF OnScheduled, IInv, Whereabouts
    <2>3. CASE ~closed
      <3>1. queued' = {} /\ batch' = queued /\ batch = {}  BY <2>3 DEF OnScheduled, Idle
      <3> QED BY <2>1, <2>3, <3>1 DEF OnScheduled, IInv, Whereabouts
    <2> QED BY <2>2, <2>3
  <1> QED BY <1>1, <1>2, <1>3, MoveStep DEF OnScheduled, IInv, TypeOK

\* The request ends: what was queued and what was sent is to be abandoned.
LEMMA OnStreamCompleteStep ==
  ASSUME IInv, OnStreamComplete PROVE IInv'
  <1>1. closed' \in BOOLEAN /\ event' \in BOOLEAN  BY DEF OnStreamComplete, IInv, TypeOK
  <1>2. queued' \subseteq Calls /\ batch' \subseteq Calls /\ in_flight' \subseteq Calls
    BY DEF OnStreamComplete, IInv, TypeOK
  <1>3. Whereabouts'
    <2>1. \A d \in Calls : Asked(d)' <=> Asked(d)  BY DEF OnStreamComplete, Asked, rubyVars
    <2> QED BY <2>1 DEF OnStreamComplete, Idle, IInv, Whereabouts
  <1> QED BY <1>1, <1>2, <1>3, MoveStep DEF OnStreamComplete, IInv, TypeOK

\* Envoy forgets the callouts that nobody is waiting for.
LEMMA DestroyStep ==
  ASSUME IInv, Destroy PROVE IInv'
  <1>1. closed' \in BOOLEAN /\ event' \in BOOLEAN  BY DEF Destroy, IInv, TypeOK, routeVars
  <1>2. Whereabouts'
    <2>1. \A d \in Calls : Asked(d)' <=> Asked(d)  BY DEF Destroy, Asked, rubyVars
    <2> QED BY <2>1 DEF Destroy, IInv, Whereabouts, routeVars
  <1> QED BY <1>1, <1>2, MoveStep DEF Destroy, IInv, TypeOK, routeVars

\* What a script decided on says, as far as the invariant asks.
Fits(q, how, n) ==
  /\ q \in Scripts /\ q # << >> /\ Has(q, "wake")
  /\ Has(q, "end") <=> how = "completed"
  /\ Has(q, "failure") <=> how # "completed"
  /\ Has(q, "head") <=> how = "completed"
  /\ Has(q, "chunk") => how = "completed"
  /\ how = "completed" /\ n > 0 => Has(q, "chunk")
  /\ Has(q, "count") <=> how # "abandoned"

\* The scripts the worker takes up fit what it decided.
LEMMA FittingScripts ==
  ASSUME NEW n \in Nat, NEW how \in Outcomes
  PROVE  /\ how = "refused" => Fits(Refusal, how, n)
         /\ how = "abandoned" => Fits(<<"failure", "wake">>, how, n)
         /\ how \in {"too_large", "reset", "completed"} => Fits(Delivery(how, n), how, n)
  <1>1. how = "refused" => Fits(Refusal, how, n)
    BY HasFacts DEF Fits, Refusal, Scripts
  <1>2. how = "abandoned" => Fits(<<"failure", "wake">>, how, n)
    BY HasFacts DEF Fits, Scripts
  <1>3. ASSUME how \in {"too_large", "reset"} PROVE Fits(Delivery(how, n), how, n)
    <2>1. Delivery(how, n) = <<"failure", "count", "wake">>  BY <1>3 DEF Delivery
    <2> QED BY <1>3, <2>1, HasFacts DEF Fits, Scripts
  <1>4. ASSUME how = "completed", n > 0 PROVE Fits(Delivery(how, n), how, n)
    <2>1. Delivery(how, n) = <<"head", "chunk", "end", "count", "wake">>  BY <1>4 DEF Delivery
    <2> QED BY <1>4, <2>1, HasFacts DEF Fits, Scripts
  <1>5. ASSUME how = "completed", n = 0 PROVE Fits(Delivery(how, n), how, n)
    <2>1. Delivery(how, n) = <<"head", "end", "count", "wake">>  BY <1>5 DEF Delivery
    <2> QED BY <1>5, <2>1, HasFacts, SMTT(40) DEF Fits, Scripts
  <1> QED BY <1>1, <1>2, <1>3, <1>4, <1>5

\* The worker decides a call that is in its batch or with Envoy.
LEMMA DecisionStep ==
  ASSUME IInv, NEW c \in batch \cup in_flight, todo = << >>,
         NEW how \in Outcomes, Decided(c, how), Fits(todo', how, size'[c]),
         batch' = batch \ {c}, in_flight' = in_flight \ {c}, out \ {c} \subseteq out',
         out' \subseteq Calls,
         ended' = IF how = "abandoned" THEN ended \cup {c} ELSE ended,
         size' \in [Calls -> Nat], \A d \in Calls \ {c} : size'[d] = size[d],
         UNCHANGED <<response, routeVars, doing, counted, deadline, rubyVars>>
  PROVE  IInv'
  <1>0. c \in Calls /\ outcome[c] = "none" /\ Asked(c) /\ c # NoFiber
    BY CallsAssumption DEF IInv, TypeOK, Whereabouts
  <1>1. /\ outcome' = [outcome EXCEPT ![c] = how] /\ hand' = c /\ how # "none"
        /\ outcome'[c] = how /\ \A d \in Calls \ {c} : outcome'[d] = outcome[d]
    BY <1>0 DEF Decided, IInv, TypeOK, Outcomes
  <1>2. todo' \in Scripts /\ \A x : ~Left(x)  BY NothingLeft DEF Fits
  <1>3. TypeOK'
    <2>1. outcome' \in [Calls -> {"none"} \cup Outcomes]  BY <1>0, <1>1 DEF IInv, TypeOK
    <2>2. todo' \in Seq({"head", "chunk", "end", "failure", "count", "wake"})
      BY <1>2, ScriptType
    <2>3. ended' \subseteq Calls  BY <1>0 DEF IInv, TypeOK
    <2> QED BY <1>0, <1>1, <2>1, <2>2, <2>3 DEF IInv, TypeOK, routeVars, rubyVars
  <1>4. Whereabouts'
    <2>1. \A d \in Calls : Asked(d)' <=> Asked(d)  BY DEF Asked, rubyVars
    <2> QED BY <1>0, <1>1, <2>1 DEF IInv, Whereabouts, routeVars, rubyVars
  <1>5. /\ response[c].items = << >> /\ c \notin head /\ ~response[c].ended
        /\ PushedUpto(c) = 0 /\ counted[c] = << >> /\ c \notin ended
    BY <1>0 DEF IInv, Contents, Counts, PushedUpto
  <1>6. Steps' /\ PassOver'
    <2>1. \A x : Left(x)' <=> Has(todo', x)  BY LeftFacts
    <2> QED BY <1>0, <1>1, <1>2, <1>5, <2>1 DEF Fits, IInv, Steps, PassOver, rubyVars
  <1>7. ASSUME NEW d \in Calls PROVE Contents(d)' /\ Counts(d)' /\ Caller(d)'
    <2>1. CASE d # c
      <3>1. \A x : LeftOf(d, x)' <=> LeftOf(d, x)  BY <1>1, <1>2, <2>1 DEF LeftOf
      <3>2. d \in ended' <=> d \in ended  BY <2>1
      <3> QED BY <1>1, <2>1, <3>1, <3>2, OtherCall DEF IInv, rubyVars
    <2>2. CASE d = c
      <3>1. \A x : LeftOf(c, x)' <=> Has(todo', x)  BY <1>1, LeftFacts DEF LeftOf
      <3>2. PushedUpto(c)' = 0
        BY <1>0, <1>1, <3>1 DEF PushedUpto, Fits
      <3>3. Contents(c)'
        BY <1>0, <1>1, <1>5, <3>1, <3>2 DEF IInv, Contents, Fits, rubyVars
      <3>4. Counts(c)'
        BY <1>1, <1>5, <3>1 DEF Counts, Fits
      <3>5. Caller(c)'
        BY <1>0, <1>1, <1>5 DEF IInv, Caller, rubyVars
      <3> QED BY <2>2, <3>3, <3>4, <3>5
    <2> QED BY <2>1, <2>2
  <1> QED BY <1>3, <1>4, <1>6, <1>7 DEF IInv

\* Envoy takes a call, or turns it away and that is its outcome.
LEMMA SendStep ==
  ASSUME IInv, NEW c \in Calls, Send(c) PROVE IInv'
  <1>1. CASE in_flight' = in_flight \cup {c} /\ out' = out \cup {c} /\ UNCHANGED <<outcome, hand, todo>>
    <2>1. closed' \in BOOLEAN /\ event' \in BOOLEAN  BY DEF Send, IInv, TypeOK, routeVars
    <2>2. Whereabouts'
      <3>1. \A d \in Calls : Asked(d)' <=> Asked(d)  BY DEF Send, Asked, rubyVars
      <3> QED BY <1>1, <3>1 DEF Send, IInv, Whereabouts, routeVars, rubyVars
    <2>3. batch' \subseteq Calls /\ in_flight' \subseteq Calls /\ out' \subseteq Calls
      BY <1>1 DEF Send, IInv, TypeOK
    <2> QED BY <1>1, <2>1, <2>2, <2>3, MoveStep DEF Send, IInv, TypeOK, routeVars
  <1>2. CASE Decided(c, "refused") /\ todo' = Refusal /\ UNCHANGED <<in_flight, out>>
    <2>1. c \in batch /\ c \notin in_flight  BY DEF Send, IInv, Whereabouts
    <2>2. "refused" \in Outcomes /\ size[c] \in Nat /\ size' = size
      BY DEF Outcomes, Send, IInv, TypeOK
    <2>3. Fits(todo', "refused", size'[c])  BY <1>2, <2>2, FittingScripts
    <2>4. in_flight' = in_flight \ {c} /\ out \ {c} \subseteq out' /\ out' \subseteq Calls
      BY <1>2, <2>1 DEF IInv, TypeOK
    <2>5. size' \in [Calls -> Nat] /\ \A d \in Calls \ {c} : size'[d] = size[d]
      BY <2>2 DEF IInv, TypeOK
    <2> QED BY <1>2, <2>1, <2>2, <2>3, <2>4, <2>5, DecisionStep DEF Send
  <1> QED BY <1>1, <1>2 DEF Send

\* A call abandoned is decided like any other, and counted later.
LEMMA AbandonStep ==
  ASSUME IInv, NEW c \in Calls, Abandon(c) PROVE IInv'
  <1>1. c \in batch /\ c \notin in_flight  BY DEF Abandon, IInv, Whereabouts
  <1>2. "abandoned" \in Outcomes /\ size[c] \in Nat /\ size' = size
    BY DEF Outcomes, Abandon, IInv, TypeOK
  <1>3. Fits(todo', "abandoned", size'[c])  BY <1>2, FittingScripts DEF Abandon
  <1>4. in_flight' = in_flight \ {c} /\ out \ {c} \subseteq out' /\ out' \subseteq Calls
    BY <1>1 DEF Abandon, IInv, TypeOK
  <1>5. size' \in [Calls -> Nat] /\ \A d \in Calls \ {c} : size'[d] = size[d]
    BY <1>2 DEF IInv, TypeOK
  <1> QED BY <1>1, <1>2, <1>3, <1>4, <1>5, DecisionStep DEF Abandon

\* A report decides a call that is in flight and says nothing of another.
LEMMA CalloutDoneStep ==
  ASSUME IInv, NEW c \in Calls, CalloutDone(c) PROVE IInv'
  <1>1. CASE c \notin in_flight
    <2>1. closed' \in BOOLEAN /\ event' \in BOOLEAN  BY DEF CalloutDone, IInv, TypeOK, routeVars
    <2>2. in_flight' = in_flight /\ UNCHANGED <<outcome, hand, todo, size>>
      BY <1>1 DEF CalloutDone
    <2>3. Whereabouts'
      <3>1. \A d \in Calls : Asked(d)' <=> Asked(d)  BY DEF CalloutDone, Asked, rubyVars
      <3> QED BY <1>1, <2>2, <3>1 DEF CalloutDone, IInv, Whereabouts, routeVars, rubyVars
    <2> QED BY <2>1, <2>2, <2>3, MoveStep DEF CalloutDone, IInv, TypeOK, routeVars
  <1>2. ASSUME c \in in_flight PROVE IInv'
    <2>1. /\ todo = << >> /\ batch' = batch \ {c} /\ in_flight' = in_flight \ {c}
          /\ out \ {c} \subseteq out' /\ out' \subseteq Calls /\ c \in batch \cup in_flight
          /\ ended' = ended /\ UNCHANGED <<response, routeVars, doing, counted, deadline, rubyVars>>
      BY <1>2 DEF CalloutDone, Idle, IInv, TypeOK
    <2>2. CASE \E n \in 0 .. MaxBufferedBytes + 1, valid \in BOOLEAN :
                 /\ Decided(c, Answer(n, valid)) /\ size' = [size EXCEPT ![c] = n]
                 /\ todo' = Delivery(Answer(n, valid), n)
      <3>1. PICK n \in 0 .. MaxBufferedBytes + 1, valid \in BOOLEAN :
                 /\ Decided(c, Answer(n, valid)) /\ size' = [size EXCEPT ![c] = n]
                 /\ todo' = Delivery(Answer(n, valid), n)
        BY <2>2
      <3> DEFINE how == Answer(n, valid)
      <3>2. how \in {"too_large", "reset", "completed"}  BY DEF Answer
      <3> HIDE DEF how
      <3>3. n \in Nat  BY <3>1, MaxBufferedBytesAssumption
      <3>4. how \in Outcomes /\ how # "abandoned"  BY <3>2 DEF Outcomes
      <3>5. /\ size' \in [Calls -> Nat] /\ size'[c] = n
            /\ \A d \in Calls \ {c} : size'[d] = size[d]
        BY <3>1, <3>3 DEF IInv, TypeOK
      <3>6. Fits(todo', how, size'[c])
        BY <3>1, <3>2, <3>3, <3>4, <3>5, FittingScripts DEF how
      <3>7. Decided(c, how)  BY <3>1 DEF how
      <3> QED BY <2>1, <3>4, <3>5, <3>6, <3>7, DecisionStep
    <2>3. CASE \E failed \in {"reset", "too_large"} :
                 Decided(c, failed) /\ todo' = Delivery(failed, 0) /\ UNCHANGED size
      <3>1. PICK failed \in {"reset", "too_large"} :
                 Decided(c, failed) /\ todo' = Delivery(failed, 0) /\ UNCHANGED size
        BY <2>3
      <3>2. failed \in Outcomes /\ failed # "abandoned" /\ failed # "completed"
        BY DEF Outcomes
      <3>3. size' \in [Calls -> Nat] /\ \A d \in Calls \ {c} : size'[d] = size[d]
        BY <3>1 DEF IInv, TypeOK
      <3>4. Fits(todo', failed, 0)  BY <3>1, <3>2, FittingScripts
      <3>5. Fits(todo', failed, size'[c])  BY <3>2, <3>4 DEF Fits
      <3> QED BY <2>1, <3>1, <3>2, <3>3, <3>5, DecisionStep
    <2> QED BY <1>2, <2>2, <2>3 DEF CalloutDone
  <1> QED BY <1>1, <1>2

\* The first thing counted.
LEMMA CountOne ==
  ASSUME NEW S, NEW x \in S PROVE Append(<< >>, x) = <<x>> /\ <<x>> \in Seq(S)
  OBVIOUS

\* The calls abandoned are counted, each once.
LEMMA CountEndedStep ==
  ASSUME IInv, CountEnded PROVE IInv'
  <1>1. \A x : ~Left(x) /\ ~Left(x)'  BY NothingLeft DEF CountEnded
  <1>2. ASSUME NEW d \in Calls, d \in ended
        PROVE  counted'[d] = <<outcome[d]>> /\ outcome[d] \in Outcomes
    <2>1. outcome[d] \in Outcomes /\ counted[d] = << >>  BY <1>2 DEF IInv, TypeOK, Counts
    <2>2. counted'[d] = Append(counted[d], outcome[d])  BY <1>2 DEF CountEnded
    <2> QED BY <2>1, <2>2, CountOne
  <1>3. \A d \in Calls \ ended : counted'[d] = counted[d]
    BY DEF CountEnded, IInv, TypeOK
  <1>4. counted' \in [Calls -> Seq(Outcomes)]
    <2>1. \A d \in Calls : counted'[d] \in Seq(Outcomes)
      <3>1. ASSUME NEW d \in ended PROVE counted'[d] \in Seq(Outcomes)
        <4>1. d \in Calls  BY DEF IInv, TypeOK
        <4> QED BY <1>2, <4>1, CountOne
      <3>2. ASSUME NEW d \in Calls \ ended PROVE counted'[d] \in Seq(Outcomes)
        BY <1>3 DEF IInv, TypeOK
      <3> QED BY <3>1, <3>2
    <2> QED BY <2>1 DEF CountEnded
  <1>5. TypeOK'
    BY <1>4 DEF CountEnded, IInv, TypeOK, routeVars, rubyVars
  <1>6. Whereabouts' /\ PassOver'
    BY DEF CountEnded, IInv, Whereabouts, Asked, PassOver, routeVars, rubyVars
  <1>7. Steps'
    BY <1>1 DEF CountEnded, IInv, Steps, rubyVars
  <1>8. ASSUME NEW d \in Calls PROVE Contents(d)' /\ Counts(d)' /\ Caller(d)'
    <2>1. \A x : ~LeftOf(d, x) /\ ~LeftOf(d, x)'  BY <1>1 DEF LeftOf
    <2>2. PushedUpto(d)' = PushedUpto(d)  BY <2>1 DEF PushedUpto, CountEnded
    <2>3. Contents(d)'  BY <2>1, <2>2 DEF CountEnded, IInv, Contents, rubyVars
    <2>4. Caller(d)'  BY <2>1 DEF CountEnded, IInv, Caller, rubyVars
    <2>5. Counts(d)'
      BY <1>2, <1>3, <2>1 DEF CountEnded, IInv, Counts
    <2> QED BY <2>3, <2>4, <2>5
  <1> QED BY <1>5, <1>6, <1>7, <1>8 DEF IInv

\* A step of the script: what is left of it, and whose it is.
LEMMA ScriptStep ==
  ASSUME IInv, todo # << >>, todo' = Tail(todo), hand' = hand, NEW c, c = hand
  PROVE  /\ c \in Calls /\ outcome[c] # "none" /\ ScriptSays(todo)
         /\ todo' \in Scripts
         /\ \A x : Left(x)' <=> Left(x) /\ x # Head(todo)
         /\ \A x : LeftOf(c, x)' <=> Left(x) /\ x # Head(todo)
         /\ \A x : LeftOf(c, x) <=> Left(x)
         /\ \A d \in Calls \ {c} : \A x : ~LeftOf(d, x)' /\ ~LeftOf(d, x)
         /\ Left(Head(todo))
  <1>1. todo \in Scripts /\ c \in Calls /\ outcome[c] # "none"
    BY DEF IInv, Steps, TypeOK
  <1>2. ScriptSays(todo)  BY <1>1, ScriptFacts
  <1>3. \A x : Left(x)' <=> Left(x) /\ x # Head(todo)  BY <1>2, LeftFacts DEF ScriptSays
  <1>4. Left(Head(todo)) /\ todo' \in Scripts  BY <1>2, LeftFacts DEF ScriptSays
  <1> QED BY <1>1, <1>2, <1>3, <1>4 DEF LeftOf

\* What the worker pushes follows what it pushed before.
LEMMA PushFollows ==
  ASSUME IInv, WorkerStep, Head(todo) \in {"head", "chunk", "end", "failure"}, NEW c, c = hand
  PROVE  LET e == Pushed(Head(todo), size[c])
         IN  /\ e \in Items /\ e.from = PushedUpto(c) /\ e.upto = PushedUpto(c)'
             /\ e.from =< e.upto
             /\ e.kind # "chunk" => e.from = e.upto
             /\ e.kind \in {"end", "failed"} <=> Head(todo) \in {"end", "failure"}
             /\ e.kind = "failed" <=> outcome[c] # "completed"
             /\ e.kind = "end" => e.from = size[c]
             /\ Head(todo) = "head" => e.kind = "head"
  <1> DEFINE e == Pushed(Head(todo), size[c])
  <1>0. todo # << >> /\ todo' = Tail(todo) /\ hand' = hand /\ outcome' = outcome /\ size' = size
    BY DEF WorkerStep
  <1>1. /\ c \in Calls /\ outcome[c] # "none" /\ ScriptSays(todo)
        /\ \A x : LeftOf(c, x)' <=> Left(x) /\ x # Head(todo)
        /\ \A x : LeftOf(c, x) <=> Left(x)
        /\ \A x : Left(x) <=> Has(todo, x)
        /\ Left(Head(todo)) /\ size[c] \in Nat
    BY <1>0, ScriptStep, LeftFacts DEF IInv, TypeOK
  <1>2. /\ Left("end") => outcome[c] = "completed"
        /\ Left("failure") => outcome[c] # "completed"
        /\ Left("head") /\ size[c] > 0 => Left("chunk")
    BY DEF IInv, Steps
  <1>3. /\ PushedUpto(c) = IF outcome[c] # "completed" \/ Left("chunk") THEN 0 ELSE size[c]
        /\ PushedUpto(c)' = IF outcome[c] # "completed" \/ (Left("chunk") /\ "chunk" # Head(todo))
                            THEN 0 ELSE size[c]
    BY <1>0, <1>1 DEF PushedUpto
  <1>4. CASE Head(todo) = "head"
    <2>1. e = Item("head", 0, 0)  BY <1>4 DEF Pushed
    <2>2. e \in Items /\ e.kind = "head" /\ e.from = 0 /\ e.upto = 0
      BY <2>1, ItemFacts DEF Kinds
    <2>3. outcome[c] = "completed" /\ PushedUpto(c) = 0 /\ PushedUpto(c)' = 0
      BY <1>1, <1>2, <1>3, <1>4 DEF ScriptSays
    <2> HIDE DEF e
    <2> QED BY <1>4, <2>2, <2>3 DEF e
  <1>5. CASE Head(todo) = "chunk"
    <2>1. e = Item("chunk", 0, size[c])  BY <1>5 DEF Pushed
    <2>2. e \in Items /\ e.kind = "chunk" /\ e.from = 0 /\ e.upto = size[c]
      BY <1>1, <2>1, ItemFacts DEF Kinds
    <2>3. outcome[c] = "completed" /\ PushedUpto(c) = 0 /\ PushedUpto(c)' = size[c]
      BY <1>1, <1>2, <1>3, <1>5 DEF ScriptSays
    <2> HIDE DEF e
    <2> QED BY <1>1, <1>5, <2>2, <2>3 DEF e
  <1>6. CASE Head(todo) = "end"
    <2>1. e = Item("end", size[c], size[c])  BY <1>6 DEF Pushed
    <2>2. e \in Items /\ e.kind = "end" /\ e.from = size[c] /\ e.upto = size[c]
      BY <1>1, <2>1, ItemFacts DEF Kinds
    <2>3. outcome[c] = "completed" /\ PushedUpto(c) = size[c] /\ PushedUpto(c)' = size[c]
      BY <1>1, <1>2, <1>3, <1>6 DEF ScriptSays
    <2> HIDE DEF e
    <2> QED BY <1>1, <1>6, <2>2, <2>3 DEF e
  <1>7. CASE Head(todo) = "failure"
    <2>1. e = Item("failed", 0, 0)  BY <1>7 DEF Pushed
    <2>2. e \in Items /\ e.kind = "failed" /\ e.from = 0 /\ e.upto = 0
      BY <2>1, ItemFacts DEF Kinds
    <2>3. outcome[c] # "completed" /\ PushedUpto(c) = 0 /\ PushedUpto(c)' = 0
      BY <1>1, <1>2, <1>3, <1>7 DEF ScriptSays
    <2> HIDE DEF e
    <2> QED BY <1>7, <2>2, <2>3 DEF e
  <1> QED BY <1>4, <1>5, <1>6, <1>7

\* The worker pushes a piece of the answer, or why there is none.
LEMMA PushStep ==
  ASSUME IInv, WorkerStep, Head(todo) \in {"head", "chunk", "end", "failure"}, NEW c, c = hand
  PROVE  IInv'
  <1> DEFINE s == response[c]
             e == Pushed(Head(todo), size[c])
             t == Push(s, e)
  <1>0. /\ todo # << >> /\ todo' = Tail(todo) /\ response' = [response EXCEPT ![c] = t]
        /\ counted' = counted /\ owed' = owed
        /\ UNCHANGED <<routeVars, in_flight, out, batch, doing, hand, ended, outcome, size,
                       deadline, resolving, reactor, cpu, pc, head, body, result>>
    BY DEF WorkerStep
  <1>1. /\ c \in Calls /\ outcome[c] # "none" /\ ScriptSays(todo) /\ todo' \in Scripts
        /\ \A x : Left(x)' <=> Left(x) /\ x # Head(todo)
        /\ \A x : LeftOf(c, x)' <=> Left(x) /\ x # Head(todo)
        /\ \A x : LeftOf(c, x) <=> Left(x)
        /\ \A d \in Calls \ {c} : \A x : ~LeftOf(d, x)' /\ ~LeftOf(d, x)
        /\ Left(Head(todo)) /\ \A x : Left(x) <=> Has(todo, x)
    BY <1>0, ScriptStep, LeftFacts
  <1>2. /\ e \in Items /\ e.from = PushedUpto(c) /\ e.upto = PushedUpto(c)'
        /\ e.from =< e.upto
        /\ e.kind # "chunk" => e.from = e.upto
        /\ e.kind \in {"end", "failed"} <=> Head(todo) \in {"end", "failure"}
        /\ e.kind = "failed" <=> outcome[c] # "completed"
        /\ e.kind = "end" => e.from = size[c]
        /\ Head(todo) = "head" => e.kind = "head"
    BY PushFollows
  <1>3. /\ s \in StreamsOf(Calls) /\ s.items \in Seq(Items) /\ ~s.cancelled /\ ~s.paused
        /\ Ordered(s.items, body[c], PushedUpto(c)) /\ s.buffered_bytes = PushedUpto(c) - body[c]
        /\ body[c] \in Nat /\ PushedUpto(c) \in Nat
        /\ \A i \in 1 .. Len(s.items) :
             /\ s.items[i].kind = "failed" <=> outcome[c] # "completed"
             /\ s.items[i].kind = "end" => s.items[i].from = size[c]
    BY <1>1 DEF IInv, TypeOK, StreamsOf, Contents, PushedUpto
  <1>4. ~Refuses(s)
    <2>1. Left("end") \/ Left("failure")  BY <1>1 DEF ScriptSays
    <2>2. ~s.ended  BY <1>1, <2>1 DEF IInv, Contents
    <2> QED BY <1>3, <2>2 DEF Refuses
  <1>5. outcome[c] = "completed" =>
          \/ c \in head
          \/ s.items # << >> /\ s.items[1].kind = "head"
          \/ Head(todo) = "head" /\ s.items = << >>
    BY <1>1 DEF IInv, Contents, Steps, ScriptSays
  <1> HIDE DEF e, s
  <1>6. /\ t \in StreamsOf(Calls) /\ t.items = Append(s.items, e)
        /\ t.buffered_bytes = s.buffered_bytes + (e.upto - e.from)
        /\ t.ended <=> e.kind \in {"end", "failed"}
        /\ t.cancelled = s.cancelled /\ t.paused = s.paused /\ t.waiter = s.waiter
    <2>1. e \in Items /\ e.from =< e.upto  BY <1>2
    <2>2. s \in StreamsOf(Calls)  BY <1>3
    <2> QED BY <2>1, <2>2, <1>4, PushFacts
  <1> HIDE DEF t
  <1>7. /\ Len(s.items) \in Nat /\ Len(t.items) = Len(s.items) + 1 /\ t.items # << >>
        /\ \A i \in 1 .. Len(s.items) : t.items[i] = s.items[i]
        /\ t.items[Len(s.items) + 1] = e
        /\ s.items = << >> <=> Len(s.items) = 0
    BY <1>2, <1>3, <1>6, AppendFacts
  <1>8. /\ response'[c] = t /\ \A d \in Calls \ {c} : response'[d] = response[d]
        /\ response' \in [Calls -> StreamsOf(Calls)]
    BY <1>0, <1>1, <1>6 DEF IInv, TypeOK
  <1>9. TypeOK'
    <2>1. todo' \in Seq({"head", "chunk", "end", "failure", "count", "wake"})
      BY <1>1, ScriptType
    <2> QED BY <1>0, <1>8, <2>1 DEF IInv, TypeOK, routeVars
  <1>10. Whereabouts' /\ PassOver'
    BY <1>0 DEF IInv, Whereabouts, Asked, PassOver, routeVars
  <1>11. Steps'
    <2>1. ~Left("head")'  BY <1>1 DEF ScriptSays
    <2> QED BY <1>0, <1>1, <2>1 DEF IInv, Steps
  <1>12. Contents(c)'
    <2>1. t.ended <=> ~LeftOf(c, "end")' /\ ~LeftOf(c, "failure")'
      BY <1>1, <1>2, <1>6 DEF ScriptSays
    <2>2. Ordered(t.items, body[c], PushedUpto(c)')
      <3>1. s.items \in Seq(Items) /\ body[c] \in Nat /\ PushedUpto(c) \in Nat
        BY <1>3
      <3>2. /\ Ordered(s.items, body[c], PushedUpto(c)) /\ e \in Items
            /\ e.from = PushedUpto(c) /\ e.from =< e.upto
            /\ e.kind # "chunk" => e.from = e.upto
        BY <1>2, <1>3
      <3>3. Ordered(Append(s.items, e), body[c], e.upto)
        BY <3>1, <3>2, OrderedAppend
      <3> QED BY <1>2, <1>6, <3>3
    <2>3. t.buffered_bytes = PushedUpto(c)' - body[c]
      <3>1. e.from \in Nat /\ e.upto \in Nat  BY <1>2 DEF Items
      <3> QED BY <1>2, <1>3, <1>6, <3>1
    <2>4. ASSUME NEW i \in 1 .. Len(t.items)
          PROVE  /\ t.items[i].kind = "failed" <=> outcome[c] # "completed"
                 /\ t.items[i].kind = "end" => t.items[i].from = size[c]
      <3>1. CASE i \in 1 .. Len(s.items)  BY <1>3, <1>7, <3>1
      <3>2. CASE i = Len(s.items) + 1  BY <1>2, <1>7, <3>2
      <3> QED BY <1>7, <3>1, <3>2
    <2>5. outcome[c] = "completed" => c \in head \/ t.items[1].kind = "head"
      BY <1>2, <1>5, <1>7
    <2>6. c \in head => outcome[c] = "completed"  BY <1>1 DEF IInv, Contents
    <2>7. /\ outcome' = outcome /\ size' = size /\ head' = head /\ body' = body
          /\ outcome[c] # "none" /\ response'[c] = t
          /\ ~t.cancelled /\ ~t.paused /\ t.items # << >>
      BY <1>0, <1>1, <1>3, <1>6, <1>7, <1>8
    <2> QED BY <2>1, <2>2, <2>3, <2>4, <2>5, <2>6, <2>7 DEF Contents
  <1>13. Counts(c)'
    <2>1. LeftOf(c, "count")' <=> LeftOf(c, "count")  BY <1>1
    <2> QED BY <1>0, <1>1, <2>1 DEF IInv, Counts
  <1>14. Caller(c)'
    <2>1. LeftOf(c, "wake")'  BY <1>1 DEF ScriptSays
    <2>2. t.waiter = IF pc[c] = "parked" THEN c ELSE NoFiber
      BY <1>1, <1>6 DEF IInv, Caller, s
    <2> QED BY <1>0, <1>1, <1>8, <2>1, <2>2 DEF IInv, Caller
  <1>15. ASSUME NEW d \in Calls \ {c} PROVE Contents(d)' /\ Counts(d)' /\ Caller(d)'
    BY <1>0, <1>1, <1>8, OtherCall DEF IInv
  <1> QED BY <1>9, <1>10, <1>11, <1>12, <1>13, <1>14, <1>15 DEF IInv

\* The worker counts the call, or asks the reactor to wake its fiber.
LEMMA TellStep ==
  ASSUME IInv, WorkerStep, Head(todo) \in {"count", "wake"}, NEW c, c = hand PROVE IInv'
  <1>0. /\ todo # << >> /\ todo' = Tail(todo) /\ response' = response
        /\ counted' = IF Head(todo) = "count"
                      THEN [counted EXCEPT ![c] = Append(@, outcome[c])] ELSE counted
        /\ owed' = IF Head(todo) = "wake" THEN owed \cup {c} ELSE owed
        /\ UNCHANGED <<routeVars, in_flight, out, batch, doing, hand, ended, outcome, size,
                       deadline, resolving, reactor, cpu, pc, head, body, result>>
    BY DEF WorkerStep
  <1>1. /\ c \in Calls /\ outcome[c] # "none" /\ ScriptSays(todo) /\ todo' \in Scripts
        /\ \A x : Left(x)' <=> Left(x) /\ x # Head(todo)
        /\ \A x : LeftOf(c, x)' <=> Left(x) /\ x # Head(todo)
        /\ \A x : LeftOf(c, x) <=> Left(x)
        /\ \A d \in Calls \ {c} : \A x : ~LeftOf(d, x)' /\ ~LeftOf(d, x)
        /\ Left(Head(todo)) /\ \A x : Left(x) <=> Has(todo, x)
    BY <1>0, ScriptStep, LeftFacts
  <1>2. outcome[c] \in Outcomes  BY <1>1 DEF IInv, TypeOK
  <1>3. Left("count") => c \notin ended /\ counted[c] = << >>
    BY <1>1 DEF IInv, Steps, Counts
  <1>4. /\ \A d \in Calls \ {c} : counted'[d] = counted[d]
        /\ Head(todo) = "count" => counted'[c] = <<outcome[c]>>
        /\ Head(todo) = "wake" => counted'[c] = counted[c]
        /\ counted' \in [Calls -> Seq(Outcomes)]
    <2>1. CASE Head(todo) = "count"
      <3>1. counted' = [counted EXCEPT ![c] = <<outcome[c]>>]
        BY <1>0, <1>1, <1>2, <1>3, <2>1, CountOne DEF IInv, TypeOK
      <3>2. <<outcome[c]>> \in Seq(Outcomes)  BY <1>2, CountOne
      <3> QED BY <1>1, <2>1, <3>1, <3>2 DEF IInv, TypeOK
    <2>2. CASE Head(todo) = "wake"  BY <1>0, <2>2 DEF IInv, TypeOK
    <2> QED BY <2>1, <2>2
  <1>5. TypeOK'
    <2>1. todo' \in Seq({"head", "chunk", "end", "failure", "count", "wake"})
      BY <1>1, ScriptType
    <2>2. owed' \subseteq Calls  BY <1>0, <1>1 DEF IInv, TypeOK
    <2> QED BY <1>0, <1>4, <2>1, <2>2 DEF IInv, TypeOK, routeVars
  <1>6. Whereabouts' /\ PassOver'
    BY <1>0 DEF IInv, Whereabouts, Asked, PassOver, routeVars
  <1>7. /\ ~Left("head") /\ ~Left("chunk") /\ ~Left("end") /\ ~Left("failure")
    BY <1>1 DEF ScriptSays
  <1>8. Steps'  BY <1>0, <1>1, <1>7 DEF IInv, Steps
  <1>9. Contents(c)'
    <2>1. PushedUpto(c)' = PushedUpto(c)  BY <1>0, <1>1, <1>7 DEF PushedUpto
    <2> QED BY <1>0, <1>1, <1>7, <2>1 DEF IInv, Contents
  <1>10. Counts(c)'
    <2>1. CASE Head(todo) = "count"
      BY <1>0, <1>1, <1>3, <1>4, <2>1 DEF IInv, Counts
    <2>2. CASE Head(todo) = "wake"
      <3>1. LeftOf(c, "count")' <=> LeftOf(c, "count")  BY <1>1, <2>2
      <3> QED BY <1>0, <1>1, <1>4, <2>2, <3>1 DEF IInv, Counts
    <2> QED BY <2>1, <2>2
  <1>11. Caller(c)'
    <2>1. LeftOf(c, "wake") => LeftOf(c, "wake")' \/ c \in owed'  BY <1>0, <1>1
    <2>2. owed \subseteq owed'  BY <1>0
    <2> QED BY <1>0, <1>1, <2>1, <2>2 DEF IInv, Caller
  <1>12. ASSUME NEW d \in Calls \ {c} PROVE Contents(d)' /\ Counts(d)' /\ Caller(d)'
    <2>1. owed \subseteq owed'  BY <1>0
    <2> QED BY <1>0, <1>1, <1>4, <2>1, OtherCall DEF IInv
  <1> QED BY <1>5, <1>6, <1>8, <1>9, <1>10, <1>11, <1>12 DEF IInv

\* The worker takes a step of its script.
LEMMA WorkerStepStep ==
  ASSUME IInv, WorkerStep PROVE IInv'
  <1>1. todo # << >> /\ todo \in Scripts  BY DEF WorkerStep, IInv, Steps
  <1>2. Head(todo) \in {"head", "chunk", "end", "failure", "count", "wake"}
    BY <1>1, ScriptFacts DEF ScriptSays
  <1>3. PICK c : c = hand  OBVIOUS
  <1> QED BY <1>2, <1>3, PushStep, TellStep

-----------------------------------------------------------------------------
(* The invariant holds. *)

\* No call was made.
LEMMA InitIInv == Init => IInv
  <1> SUFFICES ASSUME Init PROVE IInv
    OBVIOUS
  <1>1. EmptyStream \in StreamsOf(Calls)  BY DEF EmptyStream, StreamsOf
  <1>2. \A x : ~Left(x)  BY NothingLeft DEF Init
  <1>3. TypeOK
    <2>1. closed \in BOOLEAN /\ event \in BOOLEAN  BY DEF Init
    <2>2. << >> \in Seq(Outcomes) /\ todo \in Seq({"head", "chunk", "end", "failure", "count", "wake"})
      BY DEF Init
    <2> QED BY <1>1, <2>1, <2>2 DEF Init, TypeOK
  <1>4. Whereabouts /\ PassOver  BY DEF Init, Whereabouts, Asked, PassOver
  <1>5. Steps  BY <1>2 DEF Init, Steps, Scripts
  <1>6. ASSUME NEW c \in Calls PROVE Contents(c) /\ Counts(c) /\ Caller(c)
    <2>1. /\ response[c].items = << >> /\ response[c].buffered_bytes = 0
          /\ ~response[c].cancelled /\ ~response[c].paused /\ ~response[c].ended
          /\ response[c].waiter = NoFiber
      BY DEF Init, EmptyStream
    <2>2. PushedUpto(c) = 0 /\ body[c] = 0  BY DEF Init, PushedUpto
    <2>3. Ordered(<< >>, 0, 0)  BY DEF Ordered
    <2>4. Contents(c)  BY <2>1, <2>2, <2>3 DEF Init, Contents
    <2>5. Counts(c)  BY DEF Init, Counts
    <2>6. Caller(c)  BY <2>1 DEF Init, Caller
    <2> QED BY <2>4, <2>5, <2>6
  <1> QED BY <1>3, <1>4, <1>5, <1>6 DEF IInv

\* Every step preserves it.
LEMMA NextIInv == IInv /\ [Next]_vars => IInv'
  <1> SUFFICES ASSUME IInv, [Next]_vars PROVE IInv'
    OBVIOUS
  <1>1. ASSUME NEW c \in Calls, FiberStep(c) PROVE IInv'
    BY <1>1, DispatchRejectedStep, DispatchStep, WakeWorkerStep, TakeStep, ParkOnStep, WaitEndsStep
    DEF FiberStep
  <1>2. ASSUME NEW c \in Calls, GivesUp(c) \/ FiberResume(c) PROVE IInv'
    BY <1>2, GivesUpStep, FiberResumeStep
  <1>3. ASSUME NEW c \in Calls, CallStep(c) \/ CalloutDone(c) PROVE IInv'
    BY <1>3, SendStep, AbandonStep, CalloutDoneStep DEF CallStep
  <1>4. CASE TakeWakeups \/ ResolveBodies
    BY <1>4, TakeWakeupsStep, ResolveBodiesStep
  <1>5. CASE OnScheduled \/ OnStreamComplete \/ CountEnded \/ Destroy \/ WorkerStep
    BY <1>5, OnScheduledStep, OnStreamCompleteStep, CountEndedStep, DestroyStep, WorkerStepStep
  <1>6. CASE UNCHANGED vars
    <2>1. UNCHANGED <<response, hand, todo, ended, outcome, size, counted, deadline, rubyVars>>
      BY <1>6 DEF vars, workerVars
    <2>2. UNCHANGED <<closed, event, queued, batch, in_flight, out, doing>>
      BY <1>6 DEF vars, routeVars, workerVars
    <2>3. Whereabouts'
      BY <2>1, <2>2 DEF IInv, Whereabouts, Asked, rubyVars
    <2>4. closed' \in BOOLEAN /\ event' \in BOOLEAN  BY <2>2 DEF IInv, TypeOK
    <2> QED BY <2>1, <2>2, <2>3, <2>4, MoveStep DEF IInv, TypeOK
  <1> QED BY <1>1, <1>2, <1>3, <1>4, <1>5, <1>6 DEF Next

\* Every reachable state of the calls satisfies the inductive invariant.
THEOREM Invariance == Spec => []IInv
  BY InitIInv, NextIInv, PTL DEF Spec

\* The variables keep the types the code gives them.
THEOREM TypeCorrect == Spec => []TypeOK
  <1>1. IInv => TypeOK  BY DEF IInv
  <1> QED BY <1>1, Invariance, PTL

\* A call that is not over is with exactly one of those who can end it.
LEMMA OnePlace ==
  ASSUME IInv, NEW c \in Calls, Waiting(c), ~response[c].ended
  PROVE  Cardinality({i \in 1 .. 4 : c \in <<queued, batch, in_flight, {hand}>>[i]
                                      /\ (i = 4 => Left("end") \/ Left("failure"))}) = 1
  <1> DEFINE At(i) == /\ c \in <<queued, batch, in_flight, {hand}>>[i]
                      /\ i = 4 => Left("end") \/ Left("failure")
  <1>1. /\ At(1) <=> c \in queued
        /\ At(2) <=> c \in batch
        /\ At(3) <=> c \in in_flight
        /\ At(4) <=> hand = c /\ (Left("end") \/ Left("failure"))
    OBVIOUS
  <1>2. Asked(c)
    BY DEF IInv, TypeOK, Waiting, Asked, Caller
  <1>3. hand = c => outcome[c] # "none"
    BY CallsAssumption DEF IInv, Steps
  <1>4. outcome[c] # "none" => hand = c /\ (Left("end") \/ Left("failure"))
    BY DEF IInv, Contents, LeftOf
  <1> HIDE DEF At
  <1>5. \E k \in 1 .. 4 : At(k) /\ \A i \in 1 .. 4 : At(i) => i = k
    <2>1. CASE outcome[c] # "none"
      <3>1. At(4) /\ ~At(1) /\ ~At(2) /\ ~At(3)  BY <1>1, <1>4, <2>1 DEF IInv, Whereabouts
      <3>2. \A i \in 1 .. 4 : i \in {1, 2, 3, 4}  OBVIOUS
      <3> QED BY <3>1, <3>2
    <2>2. CASE outcome[c] = "none"
      <3>1. c \in queued \cup batch \cup in_flight /\ ~At(4)
        BY <1>1, <1>2, <1>3, <2>2 DEF IInv, Whereabouts
      <3>2. \A i \in 1 .. 4 : i \in {1, 2, 3, 4}  OBVIOUS
      <3> QED BY <1>1, <3>1, <3>2 DEF IInv, Whereabouts
    <2> QED BY <2>1, <2>2
  <1>6. PICK k \in 1 .. 4 : At(k) /\ \A i \in 1 .. 4 : At(i) => i = k  BY <1>5
  <1> DEFINE places == {i \in 1 .. 4 : At(i)}
  <1>7. \A i : i \in places <=> i = k  BY <1>6
  <1> HIDE DEF places
  <1>8. Cardinality(places) = 1
    <2>1. places = {k}  BY <1>7
    <2> QED BY <2>1, FS_Singleton
  <1> QED BY <1>8 DEF places, At

\* No call is dropped between the route, the worker and Envoy, a fiber parked on
\* one that is over is woken, and the call is counted once (dispatch, send,
\* on_http_callout_done, abandon_upstreams).
THEOREM CallsAreKept == Spec => []NothingLost
  <1>1. ASSUME IInv, NEW c \in Calls
        PROVE  /\ Len(counted[c]) =< 1
               /\ Idle /\ response[c].ended => counted[c] = <<outcome[c]>>
    <2>1. Len(<< >>) = 0 /\ Len(<<outcome[c]>>) = 1  OBVIOUS
    <2>2. Len(counted[c]) =< 1
      <3>1. counted[c] = << >> \/ counted[c] = <<outcome[c]>>  BY <1>1 DEF IInv, Counts
      <3>2. CASE counted[c] = << >>  BY <2>1, <3>2
      <3>3. CASE counted[c] = <<outcome[c]>>  BY <2>1, <3>3
      <3> QED BY <3>1, <3>2, <3>3
    <2>3. ASSUME Idle, response[c].ended PROVE counted[c] = <<outcome[c]>>
      <3>1. ~LeftOf(c, "count") /\ c \notin ended  BY <2>3, NothingLeft DEF Idle, LeftOf
      <3> QED BY <1>1, <2>3, <3>1 DEF IInv, Contents, Counts
    <2> QED BY <2>2, <2>3
  <1>2. ASSUME IInv, NEW c \in Calls, pc[c] = "parked", response[c].ended
        PROVE  response[c].waiter = c /\ (c \in owed \cup resolving \/ (hand = c /\ Left("wake")))
    BY <1>2 DEF IInv, Caller, LeftOf
  <1>3. ASSUME IInv, NEW c \in Calls
        PROVE  /\ c \in queued => ~closed /\ (event \/ pc[c] = "wake")
               /\ c \in in_flight /\ ~closed => c \in out
    BY <1>3 DEF IInv, Whereabouts
  <1>4. IInv => NothingLost
    BY <1>1, <1>2, <1>3, OnePlace DEF NothingLost
  <1> QED BY <1>4, Invariance, PTL

-----------------------------------------------------------------------------
(* The calls implement Answers. *)

\* The calls made, and what their fibers learned: Answers' asked and learned.
Made == {c \in Calls : pc[c] # "idle" /\ result[c] \notin {"rejected", "refused"}}
Told == [c \in Calls |-> Learned(c)]

\* The fiber was told the outcome.
Knows(c) == result[c] \in {"returned", "raised"}

\* What a fiber learned is what the worker decided.
LEMMA LearnedIs ==
  ASSUME IInv, NEW c \in Calls
  PROVE  /\ Learned(c) = IF Knows(c) THEN outcome[c] ELSE "none"
         /\ Knows(c) => outcome[c] # "none"
         /\ c \in Made <=> Asked(c)
  BY DEF IInv, Caller, Learned, Knows, Made, Asked

\* The same after a step.
LEMMA LearnedIsThen ==
  ASSUME IInv', NEW c \in Calls
  PROVE  /\ Learned(c)' = IF Knows(c)' THEN outcome'[c] ELSE "none"
         /\ Knows(c)' => outcome'[c] # "none"
         /\ c \in Made' <=> Asked(c)'
  BY DEF IInv, Caller, Learned, Knows, Made, Asked

\* A step that makes no call, decides nothing and tells nothing.
LEMMA Stutters ==
  ASSUME IInv, IInv', outcome' = outcome,
         \A c \in Calls : (Asked(c)' <=> Asked(c)) /\ (Knows(c)' <=> Knows(c))
  PROVE  UNCHANGED Abstract!vars
  <1>1. Made' = Made  BY LearnedIs, LearnedIsThen DEF Made
  <1>2. Told' = Told  BY LearnedIs, LearnedIsThen DEF Told
  <1> QED BY <1>1, <1>2 DEF Abstract!vars, Made, Told

\* The worker decides one call that was made.
LEMMA Decides ==
  ASSUME IInv, IInv', NEW c \in Calls, NEW how \in Outcomes,
         outcome' = [outcome EXCEPT ![c] = how], outcome[c] = "none", Asked(c),
         UNCHANGED rubyVars
  PROVE  Abstract!Next
  <1>1. \A d \in Calls : (Asked(d)' <=> Asked(d)) /\ (Knows(d)' <=> Knows(d))
    BY DEF Asked, Knows, rubyVars
  <1>2. ~Knows(c) /\ c \in Made  BY LearnedIs
  <1>3. \A d \in Calls : d # c => outcome'[d] = outcome[d]  BY DEF IInv, TypeOK
  <1>4. Made' = Made  BY <1>1, LearnedIs, LearnedIsThen DEF Made
  <1>5. \A d \in Calls : Learned(d)' = Learned(d)
    BY <1>1, <1>2, <1>3, LearnedIs, LearnedIsThen
  <1>6. Told' = Told  BY <1>5 DEF Told
  <1>7. Abstract!Decide(c)
    BY <1>2, <1>4, <1>6 DEF Abstract!Decide, Made, Told
  <1> QED BY <1>7 DEF Abstract!Next

\* Every step of the calls is a step of Answers, or none.
LEMMA StepImplements ==
  ASSUME IInv, IInv', [Next]_vars
  PROVE  [Abstract!Next]_(Abstract!vars)
  <1> DEFINE Same == \A d \in Calls : (Asked(d)' <=> Asked(d)) /\ (Knows(d)' <=> Knows(d))
  <1>1. ASSUME NEW c \in Calls, DispatchRejected(c) PROVE UNCHANGED Abstract!vars
    <2>1. outcome' = outcome  BY <1>1 DEF DispatchRejected, workerVars
    <2>2. pc[c] = "idle" /\ result[c] = "none"
      BY <1>1 DEF DispatchRejected, FiberAt, IInv, Caller
    <2>3. /\ pc' = [pc EXCEPT ![c] = "done"]
          /\ result' = [result EXCEPT ![c] = "rejected"]
      BY <1>1 DEF DispatchRejected, Leaves, Goto
    <2>4. /\ result'[c] = "rejected"
          /\ \A d \in Calls : d # c => pc'[d] = pc[d] /\ result'[d] = result[d]
      BY <2>3 DEF IInv, TypeOK
    <2>5. ~Asked(c) /\ ~Asked(c)' /\ ~Knows(c) /\ ~Knows(c)'
      BY <2>2, <2>4 DEF Asked, Knows
    <2>6. Same  BY <2>4, <2>5 DEF Asked, Knows
    <2> QED BY <2>1, <2>6, Stutters
  <1>2. ASSUME NEW c \in Calls, Dispatch(c) PROVE [Abstract!Next]_(Abstract!vars)
    <2>1. outcome' = outcome /\ pc[c] = "idle" /\ result[c] = "none"
      BY <1>2 DEF Dispatch, FiberAt, IInv, Caller
    <2>2. CASE closed
      <3>1. Same
        BY <1>2, <2>1, <2>2 DEF Dispatch, Leaves, Goto, Asked, Knows, IInv, TypeOK
      <3> QED BY <2>1, <3>1, Stutters
    <2>3. CASE ~closed
      <3>1. pc' = [pc EXCEPT ![c] = "wake"] /\ result' = result
        BY <1>2, <2>3 DEF Dispatch, Goto
      <3>2. /\ \A d \in Calls : (d # c => (Asked(d)' <=> Asked(d))) /\ (Knows(d)' <=> Knows(d))
            /\ ~Asked(c) /\ Asked(c)'
        BY <2>1, <3>1 DEF Asked, Knows, IInv, TypeOK
      <3>3. Made' = Made \cup {c} /\ c \notin Made
        BY <3>2, LearnedIs, LearnedIsThen DEF Made
      <3>4. Told' = Told  BY <2>1, <3>2, LearnedIs, LearnedIsThen DEF Told
      <3>5. Abstract!Ask(c)  BY <2>1, <3>3, <3>4 DEF Abstract!Ask, Made, Told
      <3> QED BY <3>5 DEF Abstract!Next
    <2> QED BY <2>2, <2>3
  <1>3. ASSUME NEW c \in Calls, Take(c) PROVE [Abstract!Next]_(Abstract!vars)
    <2>1. outcome' = outcome /\ pc[c] = "take" /\ result[c] = "none"
      BY <1>3 DEF Take, FiberAt, workerVars, IInv, Caller
    <2>2. /\ \A d \in Calls : d # c => pc'[d] = pc[d] /\ result'[d] = result[d]
          /\ \/ pc'[c] \in {"take", "park"} /\ result'[c] = "none"
             \/ pc'[c] = "done" /\ result'[c] \in {"returned", "raised"}
      BY <1>3, <2>1, SMTT(40) DEF Take, Leaves, Goto, IInv, TypeOK
    <2>3. \A d \in Calls : (Asked(d)' <=> Asked(d)) /\ (d # c => (Knows(d)' <=> Knows(d)))
      BY <2>1, <2>2 DEF Asked, Knows
    <2>4. Made' = Made  BY <2>3, LearnedIs, LearnedIsThen DEF Made
    <2>5. CASE ~Knows(c)'
      <3>1. ~Knows(c)  BY <2>1 DEF Knows
      <3> QED BY <2>1, <2>3, <2>5, <3>1, Stutters
    <2>6. CASE Knows(c)'
      <3>1. ~Knows(c)  BY <2>1 DEF Knows
      <3>2. outcome[c] # "none" /\ Learned(c) = "none" /\ Learned(c)' = outcome[c]
        BY <2>1, <2>6, <3>1, LearnedIs, LearnedIsThen
      <3>3. \A d \in Calls : d # c => Learned(d)' = Learned(d)
        BY <2>1, <2>3, LearnedIs, LearnedIsThen
      <3>4. Told' = [Told EXCEPT ![c] = outcome[c]]  BY <3>2, <3>3 DEF Told
      <3>5. Told[c] = "none"  BY <3>2 DEF Told
      <3>6. Abstract!Learn(c)
        BY <2>1, <2>4, <3>2, <3>4, <3>5 DEF Abstract!Learn, Made, Told
      <3> QED BY <3>6 DEF Abstract!Next
    <2> QED BY <2>5, <2>6
  <1>4. ASSUME NEW c \in Calls, WakeWorker(c) \/ ParkOn(c) \/ WaitEnds(c)
        PROVE  UNCHANGED Abstract!vars
    <2>1. outcome' = outcome /\ result' = result
      BY <1>4 DEF WakeWorker, ParkOn, WaitEnds, workerVars
    <2>2. \E where : where # "idle" /\ pc[c] # "idle" /\ pc' = [pc EXCEPT ![c] = where]
      BY <1>4 DEF WakeWorker, ParkOn, WaitEnds, FiberAt, Goto
    <2>3. \A d \in Calls : pc'[d] = "idle" <=> pc[d] = "idle"
      BY <2>2 DEF IInv, TypeOK
    <2>4. Same  BY <2>1, <2>3 DEF Asked, Knows
    <2> QED BY <2>1, <2>4, Stutters
  <1>5. ASSUME NEW c \in Calls, GivesUp(c) PROVE UNCHANGED Abstract!vars
    <2>1. outcome' = outcome /\ result[c] = "none"
      BY <1>5 DEF GivesUp, workerVars, IInv, Caller
    <2>2. Same
      BY <1>5, <2>1 DEF GivesUp, Leaves, Goto, Asked, Knows, IInv, TypeOK
    <2> QED BY <2>1, <2>2, Stutters
  <1>6. ASSUME (\E c \in Calls : FiberResume(c)) \/ TakeWakeups PROVE UNCHANGED Abstract!vars
    <2>1. outcome' = outcome /\ result' = result /\ pc' = pc
      BY <1>6 DEF FiberResume, TakeWakeups, workerVars
    <2> QED BY <2>1, Stutters DEF Asked, Knows
  <1>7. CASE ResolveBodies
    <2>1. outcome' = outcome /\ result' = result  BY <1>7 DEF ResolveBodies, workerVars
    <2>2. \A d \in Calls : pc'[d] = "idle" <=> pc[d] = "idle"
      <3>1. CASE resolving = {}  BY <1>7, <3>1 DEF ResolveBodies
      <3>2. ASSUME NEW c \in resolving, NEW d \in Calls,
                   Goto(c, IF response[c].waiter = c THEN "resumed" ELSE pc[c])
            PROVE  pc'[d] = "idle" <=> pc[d] = "idle"
        <4>1. c \in Calls  BY <3>2 DEF IInv, TypeOK
        <4>2. response[c].waiter = c => pc[c] = "parked"  BY <4>1, SlotIsOwn
        <4> QED BY <3>2, <4>1, <4>2 DEF Goto, IInv, TypeOK
      <3> QED BY <1>7, <3>1, <3>2 DEF ResolveBodies
    <2> QED BY <2>1, <2>2, Stutters DEF Asked, Knows
  <1>8. CASE OnScheduled \/ OnStreamComplete \/ CountEnded \/ Destroy \/ WorkerStep
    <2>1. outcome' = outcome /\ result' = result /\ pc' = pc
      BY <1>8 DEF OnScheduled, OnStreamComplete, CountEnded, Destroy, WorkerStep, rubyVars
    <2> QED BY <2>1, Stutters DEF Asked, Knows
  <1>9. \A c \in Calls : c \in batch \cup in_flight => outcome[c] = "none" /\ Asked(c)
    BY DEF IInv, Whereabouts
  <1>10. ASSUME NEW c \in Calls, Send(c) PROVE [Abstract!Next]_(Abstract!vars)
    <2>1. UNCHANGED rubyVars /\ c \in batch  BY <1>10 DEF Send
    <2>2. CASE outcome' = outcome
      BY <2>1, <2>2, Stutters DEF Asked, Knows, rubyVars
    <2>3. CASE Decided(c, "refused")
      <3>1. "refused" \in Outcomes  BY DEF Outcomes
      <3> QED BY <1>9, <2>1, <2>3, <3>1, Decides DEF Decided
    <2> QED BY <1>10, <2>2, <2>3 DEF Send
  <1>11. ASSUME NEW c \in Calls, Abandon(c) PROVE [Abstract!Next]_(Abstract!vars)
    <2>1. UNCHANGED rubyVars /\ c \in batch /\ Decided(c, "abandoned")  BY <1>11 DEF Abandon
    <2>2. "abandoned" \in Outcomes  BY DEF Outcomes
    <2> QED BY <1>9, <2>1, <2>2, Decides DEF Decided
  <1>12. ASSUME NEW c \in Calls, CalloutDone(c) PROVE [Abstract!Next]_(Abstract!vars)
    <2>1. UNCHANGED rubyVars  BY <1>12 DEF CalloutDone
    <2>2. CASE c \notin in_flight
      <3>1. outcome' = outcome  BY <1>12, <2>2 DEF CalloutDone
      <3> QED BY <2>1, <3>1, Stutters DEF Asked, Knows, rubyVars
    <2>3. CASE c \in in_flight
      <3>1. \E how \in Outcomes : Decided(c, how)
        BY <1>12, <2>3 DEF CalloutDone, Answer, Outcomes
      <3> QED BY <1>9, <2>1, <2>3, <3>1, Decides DEF Decided
    <2> QED BY <2>2, <2>3
  <1>13. CASE UNCHANGED vars
    <2>1. outcome' = outcome /\ result' = result /\ pc' = pc
      BY <1>13 DEF vars, workerVars, rubyVars
    <2> QED BY <2>1, Stutters DEF Asked, Knows
  <1> QED BY <1>1, <1>2, <1>3, <1>4, <1>5, <1>6, <1>7, <1>8, <1>10, <1>11, <1>12, <1>13
          DEF Next, FiberStep, CallStep

\* At first nothing was asked, decided or learned.
LEMMA InitImplements == Init => Abstract!Init
  <1> SUFFICES ASSUME Init PROVE Abstract!Init
    OBVIOUS
  <1>1. Made = {}  BY DEF Init, Made
  <1>2. Told = [c \in Calls |-> "none"]  BY DEF Init, Told, Learned
  <1> QED BY <1>1, <1>2 DEF Init, Abstract!Init, Made, Told

\* The calls implement Answers: a call is decided at most once, after it was
\* made, and its fiber learns that decision, whole, or none.
THEOREM Refinement == Spec => ImplementsAnswers
  <1>1. IInv /\ IInv' /\ [Next]_vars => [Abstract!Next]_(Abstract!vars)  BY StepImplements
  <1> QED BY <1>1, InitImplements, Invariance, PTL DEF Spec, ImplementsAnswers, Abstract!Spec
=============================================================================
