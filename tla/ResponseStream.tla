--------------------------- MODULE ResponseStream ---------------------------
(***************************************************************************)
(* The chunk queue of src/stream.rs: the hand-off between the Ruby thread  *)
(* and one Envoy worker.  The same structure carries a response, a request *)
(* body and both directions of an upstream exchange.                       *)
(*                                                                         *)
(* A queue is a record; every method of ResponseStream takes its mutex     *)
(* once and returns, so each is one operator from a queue to a queue (and, *)
(* where it returns something, one operator for the answer).               *)
(*                                                                         *)
(* Bytes are positions.  An item stands for the bytes from..upto-1 of the  *)
(* body it belongs to; a head, an end and a failure stand for no byte, and *)
(* carry the position they were queued at.                                 *)
(***************************************************************************)
EXTENDS Naturals, Sequences

CONSTANT MaxBufferedBytes     \* ResponseStream.max_buffered_bytes

\* ResponseStream::new raises a zero limit to one.
ASSUME MaxBufferedBytesAssumption == MaxBufferedBytes \in Nat \ {0}

NoFiber == "none"             \* waiter: None

Kinds == {"head", "chunk", "end", "failed"}

Items == [kind : Kinds, from : Nat, upto : Nat]

\* The queues a fiber of `fibers` may wait on.
StreamsOf(fibers) ==
  [ items : Seq(Items), buffered_bytes : Nat, cancelled : BOOLEAN,
    ended : BOOLEAN, paused : BOOLEAN, waiter : {NoFiber} \cup fibers ]

Item(kind, from, upto) == [kind |-> kind, from |-> from, upto |-> upto]

Size(item) == item.upto - item.from

EmptyStream ==
  [ items |-> << >>, buffered_bytes |-> 0, cancelled |-> FALSE,
    ended |-> FALSE, paused |-> FALSE, waiter |-> NoFiber ]

-----------------------------------------------------------------------------
(* What a holder of the queue may ask. *)

Full(s) == s.paused \/ s.buffered_bytes >= MaxBufferedBytes

IsSaturated(s) == Full(s)

SpareCapacity(s) ==
  IF MaxBufferedBytes > s.buffered_bytes
  THEN MaxBufferedBytes - s.buffered_bytes
  ELSE 0

IsFinished(s) == s.cancelled \/ (s.ended /\ s.buffered_bytes = 0)

\* Mutant of WriterOwedWakeup: the cancelled case forgotten.
OwedOnlyByRoom(s) == s.waiter # NoFiber /\ ~Full(s)

WriterOwedWakeup(s) == s.waiter # NoFiber /\ (s.cancelled \/ ~Full(s))

\* Nothing more is accepted: the first line of every push.
Refuses(s) == s.cancelled \/ s.ended

-----------------------------------------------------------------------------
(* Parking: one slot, holding the variable a fiber waits on. *)

MayPark(s) == ~(s.buffered_bytes > 0 \/ s.ended \/ s.cancelled)

Park(s, fiber) == IF MayPark(s) THEN [s EXCEPT !.waiter = fiber] ELSE s

MayParkWriter(s) == ~(s.cancelled \/ ~Full(s))

ParkWriter(s, fiber) == IF MayParkWriter(s) THEN [s EXCEPT !.waiter = fiber] ELSE s

Unpark(s) == [s EXCEPT !.waiter = NoFiber]

-----------------------------------------------------------------------------
(* Both ends. *)

Cancel(s) == [s EXCEPT !.cancelled = TRUE, !.items = << >>, !.buffered_bytes = 0]

SetPaused(s, paused) == [s EXCEPT !.paused = paused]

Push(s, item) ==
  IF Refuses(s)
  THEN s
  ELSE [s EXCEPT !.items = Append(@, item),
                 !.buffered_bytes = @ + Size(item),
                 !.ended = IF item.kind \in {"end", "failed"} THEN TRUE ELSE @]

\* Mutant of TakenWithinBudget: the whole chunk is taken.
TakenWhole(s, length) == length

\* How many of `length` bytes push_chunk_within_budget takes from a queue that
\* accepts.  It does not look at `paused`.
TakenWithinBudget(s, length) ==
  IF length < SpareCapacity(s) THEN length ELSE SpareCapacity(s)

\* Mutant of PushChunkWithinBudget: the last bytes are queued, not the first.
PushChunkTail(s, from, upto) ==
  LET taken == TakenWithinBudget(s, upto - from)
  IN  IF Refuses(s) \/ taken = 0 THEN s ELSE Push(s, Item("chunk", upto - taken, upto))

\* Queues the first bytes of the body's bytes from..upto-1 that fit.
PushChunkWithinBudget(s, from, upto) ==
  LET taken == TakenWithinBudget(s, upto - from)
  IN  IF Refuses(s) \/ taken = 0
      THEN s
      ELSE Push(s, Item("chunk", from, from + taken))

\* An empty queue takes a chunk of any size; otherwise it must fit.
HasRoom(s, length) == ~(s.buffered_bytes > 0 /\ length > SpareCapacity(s))

PushChunkIfRoom(s, from, upto) ==
  IF HasRoom(s, upto - from) THEN Push(s, Item("chunk", from, upto)) ELSE s

\* take_next returns an item exactly when CanTake holds; Head(s.items) then.
CanTake(s) == ~s.paused /\ s.items # << >>

TakeNext(s) ==
  IF CanTake(s)
  THEN [s EXCEPT !.items = Tail(@),
                 !.buffered_bytes = IF @ > Size(Head(s.items))
                                    THEN @ - Size(Head(s.items)) ELSE 0]
  ELSE s

-----------------------------------------------------------------------------

\* The items of q stand for the bytes lo..hi-1, in order and without a gap.
Ordered(q, lo, hi) ==
  /\ q = << >> => lo = hi
  /\ q # << >> => q[1].from = lo /\ q[Len(q)].upto = hi
  /\ \A i \in 1 .. Len(q) :
       /\ lo =< q[i].from /\ q[i].from =< q[i].upto /\ q[i].upto =< hi
       /\ q[i].kind # "chunk" => q[i].from = q[i].upto
  /\ \A i, j \in 1 .. Len(q) :
       /\ i < j => q[i].upto =< q[j].from
       /\ j = i + 1 => q[i].upto = q[j].from
=============================================================================
