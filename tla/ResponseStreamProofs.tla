------------------------ MODULE ResponseStreamProofs ------------------------
(***************************************************************************)
(* What the methods of the chunk queue (src/stream.rs) return, preserve    *)
(* and bound, for every limit and every set of fibers: the lemmas the      *)
(* proofs about the paths through the queue rest on.                       *)
(***************************************************************************)
EXTENDS ResponseStream, TLAPS

\* Appending an item that starts where the queue ends keeps the queue in order.
LEMMA OrderedAppend ==
  ASSUME NEW q \in Seq(Items), NEW lo \in Nat, NEW hi \in Nat, NEW e \in Items,
         Ordered(q, lo, hi), e.from = hi, e.from =< e.upto,
         e.kind # "chunk" => e.from = e.upto
  PROVE  Ordered(Append(q, e), lo, e.upto)
  <1> DEFINE r == Append(q, e)
  <1>1. /\ Len(r) = Len(q) + 1 /\ r # << >> /\ Len(q) \in Nat
        /\ \A i \in 1 .. Len(q) : r[i] = q[i]
        /\ r[Len(q) + 1] = e
    OBVIOUS
  <1>2. \A i \in 1 .. Len(q) : q[i] \in Items
    OBVIOUS
  <1>3. r[1].from = lo
    <2>1. CASE q = << >>  BY <2>1, <1>1 DEF Ordered
    <2>2. CASE q # << >>  BY <2>2, <1>1 DEF Ordered
    <2> QED BY <2>1, <2>2
  <1>4. lo =< hi
    <2>1. CASE q = << >>  BY <2>1 DEF Ordered
    <2>2. CASE q # << >>  
      <3>1. Len(q) \in 1 .. Len(q) BY <2>2
      <3> QED BY <3>1, <2>2, <1>2 DEF Ordered, Items
    <2> QED BY <2>1, <2>2
  <1>5. \A i \in 1 .. Len(r) :
       /\ lo =< r[i].from /\ r[i].from =< r[i].upto /\ r[i].upto =< e.upto
       /\ r[i].kind # "chunk" => r[i].from = r[i].upto
    <2> TAKE i \in 1 .. Len(r)
    <2>1. CASE i = Len(q) + 1  BY <2>1, <1>1, <1>4 DEF Items
    <2>2. CASE i \in 1 .. Len(q)  BY <2>2, <1>1, <1>2 DEF Ordered, Items
    <2> QED BY <2>1, <2>2, <1>1
  <1>6. \A i, j \in 1 .. Len(r) :
       /\ i < j => r[i].upto =< r[j].from
       /\ j = i + 1 => r[i].upto = r[j].from
    <2> TAKE i, j \in 1 .. Len(r)
    <2>1. CASE j \in 1 .. Len(q) /\ i \in 1 .. Len(q)  BY <2>1, <1>1 DEF Ordered
    <2>2. CASE j = Len(q) + 1 /\ i \in 1 .. Len(q)
      <3>1. q # << >> /\ q[Len(q)].upto = hi /\ q[i].upto =< hi  BY <2>2, <1>1 DEF Ordered
      <3> QED BY <3>1, <2>2, <1>1 DEF Items
    <2>3. CASE i = Len(q) + 1  BY <2>3, <1>1
    <2> QED BY <2>1, <2>2, <2>3, <1>1
  <1> QED BY <1>1, <1>3, <1>5, <1>6 DEF Ordered

\* Taking the first item of a queue in order leaves the rest in order, starting
\* where that item stopped.
LEMMA OrderedTail ==
  ASSUME NEW q \in Seq(Items), NEW lo \in Nat, NEW hi \in Nat,
         Ordered(q, lo, hi), q # << >>
  PROVE  /\ Ordered(Tail(q), q[1].upto, hi)
         /\ q[1].from = lo /\ lo =< q[1].upto /\ q[1].upto =< hi
         /\ q[1].kind # "chunk" => q[1].upto = lo
  <1> DEFINE r == Tail(q)
  <1>1. /\ Len(r) = Len(q) - 1 /\ Len(q) \in Nat \ {0}
        /\ \A i \in 1 .. Len(r) : r[i] = q[i + 1]
        /\ 1 \in 1 .. Len(q)
    OBVIOUS
  <1>2. \A i \in 1 .. Len(q) : q[i] \in Items
    OBVIOUS
  <1>3. r = << >> => q[1].upto = hi
    <2> HIDE DEF r
    <2> HAVE r = << >>
    <2>1. Len(<< >>) = 0  OBVIOUS
    <2>2. Len(q) = 1  BY <2>1, <1>1
    <2> QED BY <2>2 DEF Ordered
  <1>4. r # << >> => r[1].from = q[1].upto /\ r[Len(r)].upto = hi
    <2> HAVE r # << >>
    <2>1. Len(r) \in Nat \ {0} /\ 2 \in 1 .. Len(q)  BY <1>1
    <2>2. r[1] = q[2] /\ r[Len(r)] = q[Len(q)]  BY <2>1, <1>1
    <2> QED BY <2>1, <2>2, <1>1 DEF Ordered
  <1>5. \A i \in 1 .. Len(r) :
       /\ q[1].upto =< r[i].from /\ r[i].from =< r[i].upto /\ r[i].upto =< hi
       /\ r[i].kind # "chunk" => r[i].from = r[i].upto
    BY <1>1 DEF Ordered
  <1>6. \A i, j \in 1 .. Len(r) :
       /\ i < j => r[i].upto =< r[j].from
       /\ j = i + 1 => r[i].upto = r[j].from
    BY <1>1 DEF Ordered
  <1>7. Ordered(r, q[1].upto, hi)
    BY <1>3, <1>4, <1>5, <1>6 DEF Ordered
  <1> QED BY <1>7, <1>1, <1>2 DEF Ordered, Items

\* What appending does to the positions of a sequence.
LEMMA AppendFacts ==
  ASSUME NEW q \in Seq(Items), NEW e \in Items
  PROVE  /\ Len(q) \in Nat /\ Len(Append(q, e)) = Len(q) + 1 /\ Append(q, e) # << >>
         /\ \A i \in 1 .. Len(q) : Append(q, e)[i] = q[i]
         /\ Append(q, e)[Len(q) + 1] = e
         /\ q = << >> <=> Len(q) = 0
  OBVIOUS

\* What taking the first of a sequence does to the positions of the others.
LEMMA TailFacts ==
  ASSUME NEW q \in Seq(Items), q # << >>
  PROVE  /\ Head(q) = q[1] /\ q[1] \in Items /\ 1 \in 1 .. Len(q) /\ Len(q) \in Nat
         /\ Len(Tail(q)) = Len(q) - 1
         /\ \A i \in 1 .. Len(Tail(q)) : i + 1 \in 1 .. Len(q) /\ Tail(q)[i] = q[i + 1]
         /\ Len(q) = 1 => Tail(q) = << >>
  <1>1. /\ Head(q) = q[1] /\ q[1] \in Items /\ 1 \in 1 .. Len(q) /\ Len(q) \in Nat
        /\ Len(Tail(q)) = Len(q) - 1 /\ Tail(q) \in Seq(Items)
        /\ \A i \in 1 .. Len(Tail(q)) : Tail(q)[i] = q[i + 1]
    OBVIOUS
  <1>2. \A i \in 1 .. Len(Tail(q)) : i + 1 \in 1 .. Len(q)  BY <1>1
  <1>3. Len(q) = 1 => Tail(q) = << >>
    <2> SUFFICES ASSUME Len(q) = 1 PROVE Tail(q) = << >>
      OBVIOUS
    <2>1. Tail(q) \in Seq(Items) /\ Len(Tail(q)) = 0  BY <1>1
    <2> DEFINE t == Tail(q)
    <2> HIDE DEF t
    <2>2. t \in Seq(Items) /\ Len(t) = 0 => t = << >>  OBVIOUS
    <2> QED BY <2>1, <2>2 DEF t
  <1> QED BY <1>1, <1>2, <1>3

\* The fields of an item just made.
LEMMA ItemFacts ==
  ASSUME NEW kind \in Kinds, NEW from \in Nat, NEW upto \in Nat
  PROVE  /\ Item(kind, from, upto) \in Items
         /\ Item(kind, from, upto).kind = kind
         /\ Item(kind, from, upto).from = from
         /\ Item(kind, from, upto).upto = upto
  BY DEF Item, Items

\* push on a queue that accepts (ResponseStream::push): the item is last, its
\* bytes are counted, and an end or a failure closes the queue.
LEMMA PushFacts ==
  ASSUME NEW Fibers, NEW s \in StreamsOf(Fibers), NEW item \in Items,
         item.from =< item.upto, ~Refuses(s)
  PROVE  /\ Push(s, item) \in StreamsOf(Fibers)
         /\ Push(s, item).items = Append(s.items, item)
         /\ Push(s, item).buffered_bytes = s.buffered_bytes + (item.upto - item.from)
         /\ Push(s, item).ended <=> item.kind \in {"end", "failed"}
         /\ Push(s, item).cancelled = s.cancelled
         /\ Push(s, item).paused = s.paused
         /\ Push(s, item).waiter = s.waiter
  <1> DEFINE last == IF item.kind \in {"end", "failed"} THEN TRUE ELSE s.ended
             total == s.buffered_bytes + (item.upto - item.from)
  <1>1. last \in BOOLEAN /\ (last <=> item.kind \in {"end", "failed"})
    <2>1. s.ended \in BOOLEAN /\ ~s.ended  BY DEF StreamsOf, Refuses
    <2> QED BY <2>1, Zenon
  <1>2. total \in Nat  BY DEF StreamsOf, Items
  <1>3. Append(s.items, item) \in Seq(Items)  BY DEF StreamsOf
  <1>4. Push(s, item) = [s EXCEPT !.items = Append(s.items, item),
                                  !.buffered_bytes = total, !.ended = last]
    BY DEF Push, Size
  <1> HIDE DEF last, total
  <1>5. /\ Push(s, item) \in StreamsOf(Fibers)
        /\ Push(s, item).items = Append(s.items, item)
        /\ Push(s, item).buffered_bytes = total
        /\ Push(s, item).ended = last
        /\ Push(s, item).cancelled = s.cancelled
        /\ Push(s, item).paused = s.paused
        /\ Push(s, item).waiter = s.waiter
    BY <1>1, <1>2, <1>3, <1>4 DEF StreamsOf
  <1> QED BY <1>1, <1>5 DEF total

\* take_next on a queue with something to take: the first item leaves, and its
\* bytes are given back exactly (the saturating subtraction never saturates).
LEMMA TakeFacts ==
  ASSUME NEW Fibers, NEW s \in StreamsOf(Fibers), CanTake(s),
         s.items[1].from =< s.items[1].upto,
         s.items[1].upto - s.items[1].from =< s.buffered_bytes
  PROVE  /\ TakeNext(s) \in StreamsOf(Fibers)
         /\ TakeNext(s).items = Tail(s.items)
         /\ TakeNext(s).buffered_bytes = s.buffered_bytes - (s.items[1].upto - s.items[1].from)
         /\ TakeNext(s).ended = s.ended
         /\ TakeNext(s).cancelled = s.cancelled
         /\ TakeNext(s).paused = s.paused
         /\ TakeNext(s).waiter = s.waiter
  <1>1. s.items \in Seq(Items) /\ s.items # << >>  BY DEF CanTake, StreamsOf
  <1>2. Head(s.items) = s.items[1] /\ s.items[1] \in Items /\ Tail(s.items) \in Seq(Items)  BY <1>1
  <1> DEFINE rest == s.buffered_bytes - (s.items[1].upto - s.items[1].from)
  <1>3. rest \in Nat  BY <1>2 DEF StreamsOf, Items
  <1>4. TakeNext(s) = [s EXCEPT !.items = Tail(s.items), !.buffered_bytes = rest]
    <2>1. rest = IF s.buffered_bytes > Size(Head(s.items))
                 THEN s.buffered_bytes - Size(Head(s.items)) ELSE 0
      BY <1>2, <1>3 DEF Size, StreamsOf, Items
    <2> HIDE DEF rest
    <2> QED BY <2>1, Zenon DEF TakeNext
  <1> HIDE DEF rest
  <1>5. /\ TakeNext(s) \in StreamsOf(Fibers)
        /\ TakeNext(s).items = Tail(s.items)
        /\ TakeNext(s).buffered_bytes = rest
        /\ TakeNext(s).ended = s.ended
        /\ TakeNext(s).cancelled = s.cancelled
        /\ TakeNext(s).paused = s.paused
        /\ TakeNext(s).waiter = s.waiter
    BY <1>2, <1>3, <1>4 DEF StreamsOf
  <1> QED BY <1>5 DEF rest

\* unpark touches the waiter slot only.
LEMMA UnparkFacts ==
  ASSUME NEW Fibers, NEW s \in StreamsOf(Fibers)
  PROVE  /\ Unpark(s) \in StreamsOf(Fibers)
         /\ Unpark(s).waiter = NoFiber /\ Unpark(s).items = s.items
         /\ Unpark(s).buffered_bytes = s.buffered_bytes /\ Unpark(s).ended = s.ended
         /\ Unpark(s).cancelled = s.cancelled /\ Unpark(s).paused = s.paused
  BY DEF Unpark, StreamsOf

\* park takes the slot of a queue with nothing for a reader, and only then.
LEMMA ParkFacts ==
  ASSUME NEW Fibers, NEW s \in StreamsOf(Fibers), NEW fiber \in Fibers
  PROVE  /\ Park(s, fiber) \in StreamsOf(Fibers)
         /\ Park(s, fiber).items = s.items /\ Park(s, fiber).ended = s.ended
         /\ Park(s, fiber).buffered_bytes = s.buffered_bytes
         /\ Park(s, fiber).cancelled = s.cancelled /\ Park(s, fiber).paused = s.paused
         /\ Park(s, fiber).waiter = IF MayPark(s) THEN fiber ELSE s.waiter
  <1>1. CASE MayPark(s)
    <2>1. Park(s, fiber) = [s EXCEPT !.waiter = fiber]  BY <1>1 DEF Park
    <2> QED BY <1>1, <2>1 DEF StreamsOf
  <1>2. CASE ~MayPark(s)
    <2>1. Park(s, fiber) = s  BY <1>2 DEF Park
    <2> QED BY <1>2, <2>1
  <1> QED BY <1>1, <1>2

\* park_writer takes the slot of a queue that is full, and only then.
LEMMA ParkWriterFacts ==
  ASSUME NEW Fibers, NEW s \in StreamsOf(Fibers), NEW fiber \in Fibers
  PROVE  /\ ParkWriter(s, fiber) \in StreamsOf(Fibers)
         /\ ParkWriter(s, fiber).items = s.items /\ ParkWriter(s, fiber).ended = s.ended
         /\ ParkWriter(s, fiber).buffered_bytes = s.buffered_bytes
         /\ ParkWriter(s, fiber).cancelled = s.cancelled
         /\ ParkWriter(s, fiber).paused = s.paused
         /\ ParkWriter(s, fiber).waiter = IF MayParkWriter(s) THEN fiber ELSE s.waiter
  <1>1. CASE MayParkWriter(s)
    <2>1. ParkWriter(s, fiber) = [s EXCEPT !.waiter = fiber]  BY <1>1 DEF ParkWriter
    <2> QED BY <1>1, <2>1 DEF StreamsOf
  <1>2. CASE ~MayParkWriter(s)
    <2>1. ParkWriter(s, fiber) = s  BY <1>2 DEF ParkWriter
    <2> QED BY <1>2, <2>1
  <1> QED BY <1>1, <1>2

\* set_paused touches the pause flag only.
LEMMA PauseFacts ==
  ASSUME NEW Fibers, NEW s \in StreamsOf(Fibers), NEW b \in BOOLEAN
  PROVE  /\ SetPaused(s, b) \in StreamsOf(Fibers)
         /\ SetPaused(s, b).paused = b /\ SetPaused(s, b).items = s.items
         /\ SetPaused(s, b).buffered_bytes = s.buffered_bytes
         /\ SetPaused(s, b).ended = s.ended
         /\ SetPaused(s, b).cancelled = s.cancelled /\ SetPaused(s, b).waiter = s.waiter
  BY DEF SetPaused, StreamsOf

\* cancel empties the queue, and leaves a parked fiber in its slot.
LEMMA CancelFacts ==
  ASSUME NEW Fibers, NEW s \in StreamsOf(Fibers)
  PROVE  /\ Cancel(s) \in StreamsOf(Fibers)
         /\ Cancel(s).cancelled /\ Cancel(s).items = << >> /\ Cancel(s).buffered_bytes = 0
         /\ Cancel(s).ended = s.ended /\ Cancel(s).paused = s.paused
         /\ Cancel(s).waiter = s.waiter
  <1> DEFINE yes == TRUE
  <1>1. yes \in BOOLEAN /\ << >> \in Seq(Items) /\ 0 \in Nat  OBVIOUS
  <1>2. Cancel(s) = [s EXCEPT !.cancelled = yes, !.items = << >>, !.buffered_bytes = 0]
    BY DEF Cancel
  <1>3. yes  OBVIOUS
  <1> HIDE DEF yes
  <1>4. Cancel(s).cancelled = yes  BY <1>2 DEF StreamsOf
  <1> QED BY <1>1, <1>2, <1>3, <1>4 DEF StreamsOf
=============================================================================
