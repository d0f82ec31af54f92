------------------------- MODULE RequestPathProofs --------------------------
(***************************************************************************)
(* The safety properties of RequestPath, for every queue limit, every body *)
(* length and every set of read lengths.                                   *)
(*                                                                         *)
(* None of them is inductive alone.  IInv adds who holds the Ruby thread   *)
(* and in which filter states the worker acts (Control), what a request    *)
(* looks like before it is submitted and after its queue is cancelled      *)
(* (Opening, Cancelled), how Envoy's two buffers touch (Buffers), what the *)
(* worker still may copy (Room), when an event is due (Held) and what an   *)
(* end in the queue says about Envoy's buffers (Ending).                   *)
(***************************************************************************)
EXTENDS RequestPath, ResponseStreamProofs

\* Who has the Ruby thread, who waits, and the filter states the worker acts in.
Control ==
  /\ fiber \in {"pull", "chunkWake", "endWake", "check", "park", "stopping"} => cpu = "fiber"
  /\ body.waiter # NoFiber => fiber \in {"parked", "stopping"}
  /\ worker = "copy" => filter = "Open"
  /\ worker = "forward" => filter \in {"Open", "Refused"}

\* Before the request is submitted nothing has happened to it.
Opening ==
  /\ filter = "New" =>
       retained = <<0, 0>> /\ received = <<0, 0>> /\ ~endPending /\ worker = "idle"
  /\ fiber = "none" =>
       /\ body.items = << >> /\ body.buffered_bytes = 0 /\ body.waiter = NoFiber
       /\ ~body.cancelled /\ ~body.ended /\ size = 0 /\ ~sawEnd /\ filter # "Open"
  /\ fiber # "none" => filter \in {"Open", "Dropped"}

\* The queue is cancelled with the filter, and holds nothing from then on.
Cancelled ==
  /\ ~body.paused
  /\ body.cancelled => filter = "Dropped" /\ body.items = << >> /\ body.buffered_bytes = 0
  /\ filter = "Dropped" /\ fiber # "none" => body.cancelled

\* The frame in hand starts where the retained bytes stop, and between two
\* callbacks there is no frame in hand.
Buffers ==
  /\ retained[1] =< retained[2] /\ retained[2] =< received[1] /\ received[1] =< received[2]
  /\ retained[1] < retained[2] => retained[2] = received[1]
  /\ worker \in {"idle", "owe"} => retained[2] = received[1] /\ received[1] = received[2]

\* A wakeup of the worker is committed or about to be.
WakeDue == scheduled \/ fiber \in {"chunkWake", "endWake"}

\* The bytes Envoy has, and the room for them in the queue.
EnvoyHolds == Span(retained) + Span(received)

Spare == SpareCapacity(body)

\* What may still be copied is there and fits; and it is all there is, or all
\* that fits, unless the fiber has made room since.
Room ==
  worker = "copy" =>
    /\ room =< EnvoyHolds /\ room =< Spare
    /\ room < EnvoyHolds /\ room < Spare => WakeDue

\* HeldBackOnlyWhenFull, with the wakeup the worker is about to owe.
Held ==
  /\ body.buffered_bytes =< MaxBufferedBytes
  /\ filter = "Open" /\ worker \in {"idle", "owe"} =>
       /\ endPending => Span(retained) > 0
       /\ Span(retained) > 0 /\ SpareCapacity(body) > 0 => WakeDue

\* The end is queued after the client's end and behind the last byte, and the
\* application is told of it only after it has read what was queued before.
Ending ==
  /\ endPending => clientEnd
  /\ filter = "Open" /\ body.ended =>
       clientEnd /\ ~endPending /\ Span(retained) = 0 /\ Span(received) = 0
  /\ sawEnd => body.cancelled \/ (body.ended /\ body.buffered_bytes = 0)

IInv ==
  /\ TypeOK /\ Control /\ Opening /\ Cancelled /\ Buffers
  /\ InOrder /\ Room /\ Held /\ Ending /\ NoStrandedReader

-----------------------------------------------------------------------------
(* Every lemma below unfolds these. *)

USE DEF FiberAt, ReactorAt, queueVars, workerVars, rubyVars

\* The types of the parts of the queue and of Envoy's two spans.
LEMMA Fields ==
  TypeOK =>
    /\ body \in StreamsOf({Reader})
    /\ body.items \in Seq(Items) /\ body.buffered_bytes \in Nat
    /\ body.cancelled \in BOOLEAN /\ body.ended \in BOOLEAN /\ body.paused \in BOOLEAN
    /\ body.waiter \in {NoFiber, Reader}
    /\ retained[1] \in Nat /\ retained[2] \in Nat
    /\ received[1] \in Nat /\ received[2] \in Nat
    /\ MaxBufferedBytes \in Nat \ {0} /\ BodyBytes \in Nat
  BY MaxBufferedBytesAssumption, BodyAssumption DEF TypeOK, StreamsOf, Spans

\* A part of the invariant carries over a step that leaves its variables alone.
LEMMA Untouched ==
  /\ Control /\ UNCHANGED <<fiber, cpu, body, worker, filter>> => Control'
  /\ Opening /\ UNCHANGED <<filter, retained, received, endPending, worker, fiber, body, size,
                            sawEnd>> => Opening'
  /\ Cancelled /\ UNCHANGED <<body, filter, fiber>> => Cancelled'
  /\ Buffers /\ UNCHANGED <<retained, received, worker>> => Buffers'
  /\ InOrder /\ UNCHANGED <<filter, body, size, retained, received>> => InOrder'
  /\ Room /\ UNCHANGED <<worker, room, retained, received, body, scheduled, fiber>> => Room'
  /\ Held /\ UNCHANGED <<body, filter, worker, endPending, retained, scheduled, fiber>> => Held'
  /\ Ending /\ UNCHANGED <<endPending, clientEnd, filter, body, retained, received, sawEnd>> =>
       Ending'
  /\ NoStrandedReader /\ UNCHANGED <<body, owed, reactor, fiber, worker, moved>> =>
       NoStrandedReader'
  BY DEF Control, Opening, Cancelled, Buffers, InOrder, EnvoyFrom, Room, EnvoyHolds, Spare, Held,
         WakeDue, Ending, NoStrandedReader, Span, SpareCapacity, MayPark

\* An empty queue stands for no byte.
LEMMA OrderedEmpty == \A at \in Nat : Ordered(<< >>, at, at)
  BY DEF Ordered

\* copy_body, from the buffer that holds the oldest byte Envoy has: the slice
\* goes behind what is queued.
LEMMA CopyFacts ==
  ASSUME IInv, NEW n \in 1 .. BodyBytes, NEW span \in Spans,
         span[1] = EnvoyFrom, Span(retained) + Span(received) > 0,
         CopySlice(span, n)
  PROVE  /\ n \in Nat \ {0} /\ n =< room /\ filter = "Open" /\ worker = "copy"
         /\ ~sawEnd /\ body' \in StreamsOf({Reader}) /\ body'.waiter = body.waiter
         /\ body'.buffered_bytes = body.buffered_bytes + n /\ body'.buffered_bytes \in Nat
         /\ ~body'.ended /\ ~body'.cancelled /\ ~body'.paused
         /\ Ordered(body'.items, size, EnvoyFrom + n)
         /\ room' = room - n /\ room' \in Nat /\ moved' /\ moved' \in BOOLEAN
         /\ body.buffered_bytes + n =< MaxBufferedBytes
  <1> DEFINE e == Item("chunk", span[1], span[1] + n)
  <1>1. n \in Nat \ {0} /\ span[1] \in Nat /\ span[1] + n \in Nat  BY Fields DEF Spans
  <1>2. /\ e \in Items /\ e.kind = "chunk" /\ e.from = span[1] /\ e.upto = span[1] + n
    BY <1>1, ItemFacts DEF Kinds
  <1> HIDE DEF e
  <1>3. /\ filter = "Open" /\ worker = "copy" /\ n =< room /\ ~body.ended /\ ~body.cancelled
        /\ ~body.paused /\ ~sawEnd /\ room =< SpareCapacity(body)
    BY Fields DEF IInv, CopySlice, Control, Cancelled, Ending, Room, Spare, Span
  <1>4. body' = Push(body, e) /\ room' = room - n /\ moved' /\ moved' \in BOOLEAN
    BY Zenon DEF CopySlice, e
  <1>5. ~Refuses(body)  BY <1>3 DEF Refuses
  <1>6. body \in StreamsOf({Reader}) /\ body.items \in Seq(Items) /\ body.buffered_bytes \in Nat
    BY Fields DEF IInv
  <1>7. e.from =< e.upto /\ e.upto - e.from = n  BY <1>1, <1>2
  <1>8. /\ body' \in StreamsOf({Reader}) /\ body'.items = Append(body.items, e)
        /\ body'.buffered_bytes = body.buffered_bytes + (e.upto - e.from)
        /\ ~body'.ended /\ body'.cancelled = body.cancelled /\ body'.paused = body.paused
        /\ body'.waiter = body.waiter
    <2>1. e.kind \notin {"end", "failed"}  BY <1>2
    <2> QED BY <2>1, <1>2, <1>4, <1>5, <1>6, <1>7, PushFacts
  <1>9. Ordered(body'.items, size, EnvoyFrom + n)
    <2>1. EnvoyFrom \in Nat /\ size \in Nat /\ e.from = EnvoyFrom /\ e.upto = EnvoyFrom + n
      BY <1>1, <1>2 DEF IInv, TypeOK
    <2>2. Ordered(body.items, size, EnvoyFrom)  BY <1>3 DEF IInv, InOrder
    <2>3. Ordered(Append(body.items, e), size, e.upto)
      BY <2>1, <2>2, <1>2, <1>6, <1>7, OrderedAppend
    <2> QED BY <2>1, <2>3, <1>8
  <1>10. room - n \in Nat /\ body.buffered_bytes + n =< MaxBufferedBytes
    BY <1>1, <1>3, <1>6, MaxBufferedBytesAssumption DEF IInv, TypeOK, SpareCapacity
  <1> QED BY <1>1, <1>3, <1>4, <1>6, <1>7, <1>8, <1>9, <1>10

-----------------------------------------------------------------------------
(* The worker. *)

\* A request is submitted, or refused, once.
LEMMA OnRequestHeadersKeeps ==
  ASSUME IInv, OnRequestHeaders
  PROVE  IInv'
  <1>1. /\ worker = "idle" /\ filter = "New" /\ fiber = "none" /\ clientEnd' \in BOOLEAN
        /\ endPending' = clientEnd' /\ worker' \in {"idle", "forward"}
        /\ worker' = "idle" => ~endPending'
        /\ \/ filter' = "Open" /\ fiber' = "queued"
           \/ filter' = "Refused" /\ fiber' = "none"
    BY DEF IInv, OnRequestHeaders, Submit, SendBridgeError, Opening, TypeOK
  <1>2. /\ body.items = << >> /\ body.buffered_bytes = 0 /\ ~body.cancelled
        /\ ~body.ended /\ body.waiter = NoFiber /\ size = 0 /\ ~sawEnd
        /\ retained = <<0, 0>> /\ received = <<0, 0>>
    BY <1>1 DEF IInv, Opening
  <1>3. UNCHANGED <<queueVars, retained, received, room, moved, stop, cpu, reactor, size,
                    position, want, sawEnd, detached>>
    BY DEF OnRequestHeaders
  <1>4. filter' # "Dropped" /\ filter' # "New" /\ fiber' # "parked"  BY <1>1
  <1>5. TypeOK'  BY <1>1, <1>3 DEF IInv, TypeOK, Spans
  <1>6. Control'  BY <1>1, <1>3 DEF IInv, Control
  <1>7. Opening'  BY <1>1, <1>3 DEF IInv, Opening
  <1>8. Cancelled'  BY <1>2, <1>3, <1>4 DEF IInv, Cancelled
  <1>9. Buffers'  BY <1>2, <1>3 DEF IInv, Buffers
  <1>10. InOrder'
    <2>1. EnvoyFrom' = 0  BY <1>2, <1>3 DEF EnvoyFrom, Span
    <2> QED BY <1>2, <1>3, <2>1, OrderedEmpty DEF InOrder
  <1>11. Room'  BY <1>1 DEF IInv, Room, EnvoyHolds, Spare, Span, SpareCapacity, WakeDue
  <1>12. Held'  BY <1>1, <1>2, <1>3 DEF IInv, Held, Span, SpareCapacity, WakeDue
  <1>13. Ending'  BY <1>1, <1>2, <1>3 DEF IInv, Ending, Span
  <1>14. NoStrandedReader'  BY <1>2, <1>3 DEF IInv, NoStrandedReader, MayPark
  <1> QED BY <1>5, <1>6, <1>7, <1>8, <1>9, <1>10, <1>11, <1>12, <1>13, <1>14 DEF IInv

\* A frame starts where the retained bytes stop.
LEMMA OnRequestBodyKeeps ==
  ASSUME IInv, OnRequestBody
  PROVE  IInv'
  <1>1. TypeOK'  BY DEF IInv, TypeOK, Spans, OnRequestBody
  <1>2. Control'  BY DEF IInv, Control, OnRequestBody
  <1>3. Opening'  BY DEF IInv, Opening, OnRequestBody
  <1>4. Buffers'  BY Fields DEF IInv, Buffers, OnRequestBody
  <1>5. InOrder'
    <2>1. /\ EnvoyFrom' = EnvoyFrom
      <3>1. PICK n \in 0 .. BodyBytes - retained[2], again \in BOOLEAN :
              /\ received' = <<IF again THEN retained[2] + n ELSE retained[2], retained[2] + n>>
              /\ retained' = IF again THEN <<retained[1], retained[2] + n>> ELSE retained
        BY DEF OnRequestBody
      <3>2. CASE again  BY <3>1, <3>2, Fields, SMTT(30) DEF IInv, Buffers, OnRequestBody, EnvoyFrom, Span
      <3>3. CASE ~again  BY <3>1, <3>3, Fields DEF IInv, Buffers, OnRequestBody, EnvoyFrom, Span
      <3> QED BY <3>2, <3>3
    <2> QED BY <2>1 DEF IInv, InOrder, OnRequestBody
  <1>6. Room'
    BY DEF IInv, Room, EnvoyHolds, Spare, Span, SpareCapacity, WakeDue, OnRequestBody
  <1>7. Held'  BY DEF IInv, Held, Span, SpareCapacity, WakeDue, OnRequestBody
  <1>8. Ending'  BY DEF IInv, Ending, Span, OnRequestBody
  <1>9. NoStrandedReader'  BY DEF IInv, NoStrandedReader, MayPark, OnRequestBody
  <1>10. Cancelled'  BY Untouched DEF IInv, OnRequestBody
  <1> QED BY <1>1, <1>2, <1>3, <1>4, <1>5, <1>6, <1>7, <1>8, <1>9, <1>10 DEF IInv

\* Trailers end the body.
LEMMA OnRequestTrailersKeeps ==
  ASSUME IInv, OnRequestTrailers
  PROVE  IInv'
  <1>1. TypeOK'  BY DEF IInv, TypeOK, Spans, OnRequestTrailers
  <1>2. Control'  BY DEF IInv, Control, OnRequestTrailers
  <1>3. Opening'  BY DEF IInv, Opening, OnRequestTrailers
  <1>4. Buffers'  BY DEF IInv, Buffers, OnRequestTrailers
  <1>5. Room'
    BY DEF IInv, Room, EnvoyHolds, Spare, Span, SpareCapacity, WakeDue, OnRequestTrailers
  <1>6. Held'  BY DEF IInv, Held, Span, SpareCapacity, WakeDue, OnRequestTrailers
  <1>7. Ending'  BY DEF IInv, Ending, Span, OnRequestTrailers
  <1>8. NoStrandedReader'  BY DEF IInv, NoStrandedReader, MayPark, OnRequestTrailers
  <1>9. Cancelled' /\ InOrder'  BY Untouched DEF IInv, OnRequestTrailers
  <1> QED BY <1>1, <1>2, <1>3, <1>4, <1>5, <1>6, <1>7, <1>8, <1>9 DEF IInv

\* The event makes the worker forward.
LEMMA OnScheduledKeeps ==
  ASSUME IInv, OnScheduled
  PROVE  IInv'
  <1>1. TypeOK'
    <2>1. scheduled' \in BOOLEAN /\ owed' \in BOOLEAN  BY Zenon DEF IInv, TypeOK, OnScheduled
    <2> QED BY <2>1 DEF IInv, TypeOK, OnScheduled
  <1>2. Control'  BY DEF IInv, Control, OnScheduled
  <1>3. Opening'  BY DEF IInv, Opening, OnScheduled
  <1>4. Buffers'  BY DEF IInv, Buffers, OnScheduled
  <1>5. Room'
    BY DEF IInv, Room, EnvoyHolds, Spare, Span, SpareCapacity, WakeDue, OnScheduled
  <1>6. Held'  BY DEF IInv, Held, Span, SpareCapacity, WakeDue, OnScheduled
  <1>7. NoStrandedReader'  BY DEF IInv, NoStrandedReader, MayPark, OnScheduled
  <1>8. Cancelled' /\ InOrder' /\ Ending'  BY Untouched DEF IInv, OnScheduled
  <1> QED BY <1>1, <1>2, <1>3, <1>4, <1>5, <1>6, <1>7, <1>8 DEF IInv

\* A refused request leaves its bytes with Envoy.
LEMMA ForwardNothingKeeps ==
  ASSUME IInv, ForwardNothing
  PROVE  IInv'
  <1>1. TypeOK'  BY DEF IInv, TypeOK, Spans, ForwardNothing, Returned
  <1>2. Control'  BY DEF IInv, Control, ForwardNothing, Returned
  <1>3. Opening'  BY DEF IInv, Opening, ForwardNothing, Returned
  <1>4. Buffers'  BY Fields DEF IInv, Buffers, ForwardNothing, Returned
  <1>5. InOrder'  BY DEF IInv, InOrder, EnvoyFrom, Span, ForwardNothing, Returned
  <1>6. Room'
    BY
       DEF IInv, Room, EnvoyHolds, Spare, Span, SpareCapacity, WakeDue, ForwardNothing, Returned
  <1>7. Held'  BY DEF IInv, Held, Span, SpareCapacity, WakeDue, ForwardNothing, Returned
  <1>8. Ending'  BY DEF IInv, Ending, Span, ForwardNothing, Returned
  <1>9. NoStrandedReader'  BY DEF IInv, NoStrandedReader, MayPark, ForwardNothing, Returned
  <1>10. Cancelled'  BY Untouched DEF IInv, ForwardNothing, Returned
  <1> QED BY <1>1, <1>2, <1>3, <1>4, <1>5, <1>6, <1>7, <1>8, <1>9, <1>10 DEF IInv

\* The room is what there is or what fits.
LEMMA ForwardKeeps ==
  ASSUME IInv, Forward
  PROVE  IInv'
  <1>1. /\ worker = "forward" /\ filter = "Open" /\ worker' = "copy" /\ moved' \in BOOLEAN
        /\ room' = Smaller(Span(retained) + Span(received), SpareCapacity(body))
        /\ UNCHANGED <<queueVars, filter, retained, received, clientEnd, endPending, stop,
                       rubyVars>>
    BY Zenon DEF Forward
  <1>2. Span(retained) \in Nat /\ Span(received) \in Nat /\ SpareCapacity(body) \in Nat
    BY Fields DEF IInv, Buffers, Span, SpareCapacity
  <1>3. TypeOK'  BY <1>1, <1>2 DEF IInv, TypeOK, Spans, Smaller
  <1>4. Control'  BY <1>1 DEF IInv, Control
  <1>5. Opening'  BY <1>1 DEF IInv, Opening
  <1>6. Buffers'  BY <1>1 DEF IInv, Buffers
  <1>7. Room'
    <2>1. EnvoyHolds' = EnvoyHolds /\ Spare' = Spare /\ EnvoyHolds \in Nat /\ Spare \in Nat
      BY <1>1, <1>2 DEF EnvoyHolds, Spare, Span, SpareCapacity
    <2>2. room' = IF EnvoyHolds < Spare THEN EnvoyHolds ELSE Spare
      BY <1>1 DEF Smaller, EnvoyHolds, Spare
    <2> QED BY <2>1, <2>2 DEF Room
  <1>8. Held'  BY <1>1 DEF IInv, Held, Span, SpareCapacity, WakeDue
  <1>9. NoStrandedReader'  BY <1>1 DEF IInv, NoStrandedReader, MayPark
  <1>10. Cancelled' /\ InOrder' /\ Ending'  BY Untouched DEF IInv, Forward
  <1> QED BY <1>3, <1>4, <1>5, <1>6, <1>7, <1>8, <1>9, <1>10 DEF IInv

\* The oldest bytes go first ...
LEMMA CopyRetainedKeeps ==
  ASSUME IInv, CopyRetained
  PROVE  IInv'
  <1>1. PICK n \in 1 .. BodyBytes :
          CopySlice(retained, n) /\ retained' = <<retained[1] + n, retained[2]>>
    BY DEF CopyRetained
  <1>2. UNCHANGED <<owed, scheduled, worker, filter, received, clientEnd, endPending, stop,
                    rubyVars>>
    BY DEF CopyRetained
  <1>3. /\ n \in Nat \ {0} /\ retained[1] + n =< retained[2]
        /\ retained'[1] = retained[1] + n /\ retained'[2] = retained[2] /\ retained' \in Spans
    <2>1. n \in Nat \ {0} /\ n =< retained[2] - retained[1]
      BY <1>1, Fields DEF IInv, CopySlice, Span
    <2>2. retained[1] + n =< retained[2]  BY <2>1, Fields DEF IInv
    <2>3. retained' = <<retained[1] + n, retained[2]>>  BY <1>1
    <2>4. retained[1] + n \in Nat  BY <2>1, Fields DEF IInv
    <2> QED BY <2>1, <2>2, <2>3, <2>4, Fields DEF IInv, Spans
  <1>4. retained[1] = EnvoyFrom /\ Span(retained) + Span(received) > 0 /\ retained \in Spans
    BY <1>3, Fields DEF IInv, TypeOK, Span, EnvoyFrom, Buffers
  <1>5. /\ n =< room /\ filter = "Open" /\ worker = "copy" /\ ~sawEnd
        /\ body' \in StreamsOf({Reader}) /\ body'.waiter = body.waiter
        /\ body'.buffered_bytes = body.buffered_bytes + n /\ body'.buffered_bytes \in Nat
        /\ ~body'.ended /\ ~body'.cancelled /\ ~body'.paused
        /\ Ordered(body'.items, size, EnvoyFrom + n)
        /\ room' = room - n /\ room' \in Nat /\ moved' /\ moved' \in BOOLEAN
        /\ body.buffered_bytes + n =< MaxBufferedBytes
    BY <1>1, <1>4, CopyFacts
  <1>6. EnvoyFrom' = EnvoyFrom + n
    BY <1>2, <1>3, Fields, SMTT(30) DEF IInv, EnvoyFrom, Span, Buffers
  <1>7. TypeOK'  BY <1>2, <1>3, <1>5 DEF IInv, TypeOK, Spans
  <1>8. Control'  BY <1>2, <1>5 DEF IInv, Control
  <1>9. Opening'  BY <1>2, <1>5 DEF IInv, Opening
  <1>10. Cancelled'  BY <1>2, <1>5 DEF IInv, Cancelled
  <1>11. Buffers'  BY <1>2, <1>3, Fields DEF IInv, Buffers
  <1>12. InOrder'
    BY <1>2, <1>3, <1>4, <1>5, <1>6, Fields DEF IInv, TypeOK, InOrder
  <1>13. Room'
    <2>1. EnvoyHolds' = EnvoyHolds - n /\ EnvoyHolds \in Nat
      BY <1>2, <1>3, Fields, SMTT(30) DEF IInv, EnvoyHolds, Span, Buffers
    <2>2. Spare' = Spare - n /\ Spare \in Nat
      <3>1. Spare = MaxBufferedBytes - body.buffered_bytes
        BY <1>3, <1>5, Fields DEF IInv, Spare, SpareCapacity
      <3>2. Spare' = MaxBufferedBytes - (body.buffered_bytes + n)
        BY <1>3, <1>5, Fields DEF IInv, Spare, SpareCapacity
      <3>3. /\ MaxBufferedBytes \in Nat /\ body.buffered_bytes \in Nat /\ n \in Nat
            /\ body.buffered_bytes + n =< MaxBufferedBytes
        BY <1>3, <1>5, Fields DEF IInv
      <3> QED BY <3>1, <3>2, <3>3
    <2> QED BY <1>2, <1>3, <1>5, <2>1, <2>2 DEF IInv, TypeOK, Room, WakeDue
  <1>14. Held'  BY <1>2, <1>5 DEF IInv, Held, Span, SpareCapacity, WakeDue
  <1>15. Ending'  BY <1>2, <1>5 DEF IInv, Ending, Span
  <1>16. NoStrandedReader'  BY <1>2, <1>5 DEF IInv, NoStrandedReader, MayPark
  <1> QED BY <1>7, <1>8, <1>9, <1>10, <1>11, <1>12, <1>13, <1>14, <1>15, <1>16 DEF IInv

\* ... and the frame in hand once there are no older ones.
LEMMA CopyReceivedKeeps ==
  ASSUME IInv, CopyReceived
  PROVE  IInv'
  <1>1. PICK n \in 1 .. BodyBytes :
          CopySlice(received, n) /\ received' = <<received[1] + n, received[2]>>
    BY DEF CopyReceived
  <1>2. UNCHANGED <<owed, scheduled, worker, filter, retained, clientEnd, endPending, stop,
                    rubyVars>>
    BY DEF CopyReceived
  <1>3. /\ n \in Nat \ {0} /\ received[1] + n =< received[2] /\ retained[1] = retained[2]
        /\ received'[1] = received[1] + n /\ received'[2] = received[2] /\ received' \in Spans
    <2>1. n \in Nat \ {0} /\ n =< received[2] - received[1]
      BY <1>1, Fields DEF IInv, CopySlice, Span
    <2>2. received[1] + n =< received[2]  BY <2>1, Fields DEF IInv
    <2>3. received' = <<received[1] + n, received[2]>>  BY <1>1
    <2>4. received[1] + n \in Nat  BY <2>1, Fields DEF IInv
    <2>5. retained[1] = retained[2]  BY Fields DEF IInv, CopyReceived, Span
    <2> QED BY <2>1, <2>2, <2>3, <2>4, <2>5, Fields DEF IInv, Spans
  <1>4. received[1] = EnvoyFrom /\ Span(retained) + Span(received) > 0 /\ received \in Spans
    BY <1>3, Fields DEF IInv, TypeOK, Span, EnvoyFrom, Buffers
  <1>5. /\ n =< room /\ filter = "Open" /\ worker = "copy" /\ ~sawEnd
        /\ body' \in StreamsOf({Reader}) /\ body'.waiter = body.waiter
        /\ body'.buffered_bytes = body.buffered_bytes + n /\ body'.buffered_bytes \in Nat
        /\ ~body'.ended /\ ~body'.cancelled /\ ~body'.paused
        /\ Ordered(body'.items, size, EnvoyFrom + n)
        /\ room' = room - n /\ room' \in Nat /\ moved' /\ moved' \in BOOLEAN
        /\ body.buffered_bytes + n =< MaxBufferedBytes
    BY <1>1, <1>4, CopyFacts
  <1>6. EnvoyFrom' = EnvoyFrom + n
    BY <1>2, <1>3, Fields DEF IInv, EnvoyFrom, Span, Buffers
  <1>7. TypeOK'  BY <1>2, <1>3, <1>5 DEF IInv, TypeOK, Spans
  <1>8. Control'  BY <1>2, <1>5 DEF IInv, Control
  <1>9. Opening'  BY <1>2, <1>5 DEF IInv, Opening
  <1>10. Cancelled'  BY <1>2, <1>5 DEF IInv, Cancelled
  <1>11. Buffers'  BY <1>2, <1>3, Fields DEF IInv, Buffers
  <1>12. InOrder'
    BY <1>2, <1>3, <1>4, <1>5, <1>6, Fields DEF IInv, TypeOK, InOrder
  <1>13. Room'
    <2>1. EnvoyHolds' = EnvoyHolds - n /\ EnvoyHolds \in Nat
      BY <1>2, <1>3, Fields DEF IInv, EnvoyHolds, Span, Buffers
    <2>2. Spare' = Spare - n /\ Spare \in Nat
      <3>1. Spare = MaxBufferedBytes - body.buffered_bytes
        BY <1>3, <1>5, Fields DEF IInv, Spare, SpareCapacity
      <3>2. Spare' = MaxBufferedBytes - (body.buffered_bytes + n)
        BY <1>3, <1>5, Fields DEF IInv, Spare, SpareCapacity
      <3>3. /\ MaxBufferedBytes \in Nat /\ body.buffered_bytes \in Nat /\ n \in Nat
            /\ body.buffered_bytes + n =< MaxBufferedBytes
        BY <1>3, <1>5, Fields DEF IInv
      <3> QED BY <3>1, <3>2, <3>3
    <2> QED BY <1>2, <1>3, <1>5, <2>1, <2>2 DEF IInv, TypeOK, Room, WakeDue
  <1>14. Held'  BY <1>2, <1>5 DEF IInv, Held, Span, SpareCapacity, WakeDue
  <1>15. Ending'  BY <1>2, <1>5 DEF IInv, Ending, Span
  <1>16. NoStrandedReader'  BY <1>2, <1>5 DEF IInv, NoStrandedReader, MayPark
  <1> QED BY <1>7, <1>8, <1>9, <1>10, <1>11, <1>12, <1>13, <1>14, <1>15, <1>16 DEF IInv

\* The end follows the last byte, and what is left is retained.
LEMMA ForwardEndKeeps ==
  ASSUME IInv, ForwardEnd
  PROVE  IInv'
  <1>1. /\ worker = "copy" /\ room = 0 /\ filter = "Open" /\ ~body.cancelled /\ ~body.paused
        /\ fiber # "none" /\ Ended \in BOOLEAN /\ endPending' \in BOOLEAN
        /\ endPending' <=> endPending /\ ~Ended
        /\ worker' = IF moved \/ Ended THEN "owe" ELSE "idle"
    BY Zenon DEF IInv, TypeOK, ForwardEnd, Control, Cancelled, Opening, Ended
  <1>2. /\ Ended <=> endPending /\ Span(retained) = 0 /\ Span(received) = 0
        /\ UNCHANGED <<owed, scheduled, filter, clientEnd, room, moved, stop, rubyVars>>
    BY DEF Ended, ForwardEnd
  <1>3. /\ retained'[1] = EnvoyFrom /\ retained'[2] = received[2]
        /\ received'[1] = received[2] /\ received'[2] = received[2]
        /\ EnvoyFrom \in Nat /\ EnvoyFrom =< received[2] /\ received[2] \in Nat
        /\ retained' \in Spans /\ received' \in Spans
    <2>1. EnvoyFrom \in Nat /\ EnvoyFrom =< received[2] /\ received[2] \in Nat
      BY Fields DEF IInv, EnvoyFrom, Buffers
    <2>2. retained' = <<EnvoyFrom, received[2]>>
      BY Fields DEF IInv, ForwardEnd, Returned, EnvoyFrom, Span, Buffers
    <2>3. received' = <<received[2], received[2]>>  BY DEF ForwardEnd, Returned
    <2> QED BY <2>1, <2>2, <2>3 DEF Spans
  <1>4. /\ EnvoyFrom' = EnvoyFrom
        /\ Span(retained)' = Span(retained) + Span(received) /\ Span(received)' = 0
        /\ Span(retained) \in Nat /\ Span(received) \in Nat
    <2>1. Span(retained)' = received[2] - EnvoyFrom /\ Span(received)' = 0
      BY <1>3 DEF Span
    <2>2. /\ Span(retained) + Span(received) = received[2] - EnvoyFrom
          /\ Span(retained) \in Nat /\ Span(received) \in Nat
      BY Fields DEF IInv, Span, EnvoyFrom, Buffers
    <2>3. EnvoyFrom' = EnvoyFrom  BY <1>3 DEF EnvoyFrom, Span
    <2> QED BY <2>1, <2>2, <2>3
  <1>5. /\ body' \in StreamsOf({Reader}) /\ body'.waiter = body.waiter
        /\ body'.buffered_bytes = body.buffered_bytes
        /\ ~body'.cancelled /\ ~body'.paused
        /\ Ordered(body'.items, size, EnvoyFrom)
        /\ Ended => body'.ended
        /\ ~Ended => body' = body
    <2>1. Ordered(body.items, size, EnvoyFrom)  BY <1>1 DEF IInv, InOrder
    <2>2. CASE Ended
      <3> DEFINE e == Item("end", received[2], received[2])
      <3>1. e \in Items /\ e.kind = "end" /\ e.from = received[2] /\ e.upto = received[2]
        BY <1>3, ItemFacts DEF Kinds
      <3> HIDE DEF e
      <3>2. body' = Push(body, e)  BY <2>2 DEF ForwardEnd, e
      <3>3. ~Refuses(body) /\ EnvoyFrom = received[2]
        BY <2>2, <1>1, Fields DEF IInv, Ending, Refuses, Ended, EnvoyFrom, Span
      <3>4. /\ body' \in StreamsOf({Reader}) /\ body'.items = Append(body.items, e)
            /\ body'.buffered_bytes = body.buffered_bytes + (received[2] - received[2])
            /\ body'.ended /\ body'.cancelled = body.cancelled /\ body'.paused = body.paused
            /\ body'.waiter = body.waiter
        <4>1. body \in StreamsOf({Reader}) /\ received[2] \in Nat  BY Fields DEF IInv
        <4>2. e.from =< e.upto /\ e.kind \in {"end", "failed"}  BY <3>1, <4>1
        <4>3. /\ Push(body, e) \in StreamsOf({Reader})
              /\ Push(body, e).items = Append(body.items, e)
              /\ Push(body, e).buffered_bytes = body.buffered_bytes + (e.upto - e.from)
              /\ Push(body, e).ended /\ Push(body, e).cancelled = body.cancelled
              /\ Push(body, e).paused = body.paused /\ Push(body, e).waiter = body.waiter
          BY <3>1, <3>3, <4>1, <4>2, PushFacts
        <4> QED BY <3>1, <3>2, <4>3
      <3>5. Ordered(body'.items, size, EnvoyFrom)
        BY <3>1, <3>3, <3>4, <2>1, OrderedAppend, Fields DEF IInv, TypeOK
      <3> QED BY <1>1, <2>2, <3>4, <3>5, Fields DEF IInv
    <2>3. CASE ~Ended
      <3>1. body' = body  BY <2>3 DEF ForwardEnd
      <3> QED BY <3>1, <2>1, <2>3, <1>1, Fields DEF IInv
    <2> QED BY <2>2, <2>3
  <1>6. TypeOK'  BY <1>1, <1>2, <1>3, <1>5 DEF IInv, TypeOK, Spans
  <1>7. Control'  BY <1>1, <1>2, <1>5 DEF IInv, Control
  <1>8. Opening'  BY <1>1, <1>2 DEF IInv, Opening
  <1>9. Cancelled'  BY <1>1, <1>2, <1>5 DEF IInv, Cancelled
  <1>10. Buffers'
    BY <1>3, Fields DEF IInv, Buffers
  <1>11. InOrder'  BY <1>2, <1>4, <1>5 DEF IInv, InOrder, EnvoyFrom, Span
  <1>12. Room'  BY <1>1 DEF IInv, Room, EnvoyHolds, Spare, Span, SpareCapacity, WakeDue
  <1>13. Held'
    <2>1. SpareCapacity(body)' = SpareCapacity(body) /\ SpareCapacity(body) \in Nat
      BY <1>5, Fields DEF IInv, SpareCapacity
    <2>2. endPending' => Span(retained)' > 0  BY <1>1, <1>2, <1>4
    <2>3. Span(retained)' > 0 /\ SpareCapacity(body)' > 0 => WakeDue'
      BY <1>1, <1>2, <1>4, <2>1 DEF IInv, Room, EnvoyHolds, Spare, WakeDue
    <2>4. body'.buffered_bytes =< MaxBufferedBytes  BY <1>5 DEF IInv, Held
    <2> QED BY <2>2, <2>3, <2>4 DEF Held
  <1>14. Ending'
    <2>1. CASE Ended
      BY <2>1, <1>1, <1>2, <1>4, <1>5 DEF IInv, Ending
    <2>2. CASE ~Ended
      BY <2>2, <1>1, <1>2, <1>4, <1>5 DEF IInv, Ending
    <2> QED BY <2>1, <2>2
  <1>15. NoStrandedReader'  BY <1>1, <1>2, <1>5 DEF IInv, NoStrandedReader, MayPark
  <1> QED BY <1>6, <1>7, <1>8, <1>9, <1>10, <1>11, <1>12, <1>13, <1>14, <1>15 DEF IInv

\* The reader's wakeup is owed.
LEMMA OweKeeps ==
  ASSUME IInv, Owe
  PROVE  IInv'
  <1>1. TypeOK'  BY DEF IInv, TypeOK, Spans, Owe
  <1>2. Control'  BY DEF IInv, Control, Owe
  <1>3. Opening'  BY DEF IInv, Opening, Owe
  <1>4. Buffers'  BY DEF IInv, Buffers, Owe
  <1>5. Room'  BY DEF IInv, Room, EnvoyHolds, Spare, Span, SpareCapacity, WakeDue, Owe
  <1>6. Held'  BY DEF IInv, Held, Span, SpareCapacity, WakeDue, Owe
  <1>7. NoStrandedReader'  BY DEF IInv, NoStrandedReader, MayPark, Owe
  <1>8. Cancelled' /\ InOrder' /\ Ending'  BY Untouched DEF IInv, Owe
  <1> QED BY <1>1, <1>2, <1>3, <1>4, <1>5, <1>6, <1>7, <1>8 DEF IInv

\* The queue is cancelled and its reader's wakeup is due.
LEMMA DropFilterKeeps ==
  ASSUME IInv, DropFilter
  PROVE  IInv'
  <1>1. /\ worker = "idle" /\ filter' = "Dropped" /\ ~scheduled' /\ scheduled' \in BOOLEAN
        /\ stop' \in BOOLEAN
        /\ UNCHANGED <<owed, retained, received, clientEnd, endPending, room, moved, rubyVars>>
    BY Zenon DEF IInv, TypeOK, DropFilter
  <1>2. /\ body' \in StreamsOf({Reader}) /\ body'.waiter = body.waiter
        /\ body'.paused = body.paused /\ body'.buffered_bytes \in Nat
        /\ body'.buffered_bytes =< body.buffered_bytes
        /\ \/ /\ filter = "Open" /\ worker' = "owe" /\ fiber # "none"
              /\ body'.cancelled /\ body'.items = << >> /\ body'.buffered_bytes = 0
           \/ /\ fiber = "none" /\ worker' = "idle" /\ body' = body
    <2>1. CASE filter = "Open"
      BY <2>1, CancelFacts, Fields DEF IInv, DropFilter, Opening
    <2>2. CASE filter # "Open"
      BY <2>2, Fields DEF IInv, DropFilter, Opening
    <2> QED BY <2>1, <2>2
  <1>3. TypeOK'  BY <1>1, <1>2 DEF IInv, TypeOK, Spans
  <1>4. Control'  BY <1>1, <1>2 DEF IInv, Control
  <1>5. Opening'  BY <1>1, <1>2 DEF IInv, Opening
  <1>6. Cancelled'  BY <1>1, <1>2 DEF IInv, Cancelled
  <1>7. Buffers'  BY <1>1 DEF IInv, Buffers
  <1>8. InOrder'  BY <1>1 DEF IInv, InOrder, EnvoyFrom, Span
  <1>9. Room'  BY <1>2 DEF IInv, Room, EnvoyHolds, Spare, Span, SpareCapacity, WakeDue
  <1>10. Held'  BY <1>1, <1>2, Fields DEF IInv, Held, Span, SpareCapacity, WakeDue
  <1>11. Ending'  BY <1>1, <1>2 DEF IInv, Ending, Span
  <1>12. NoStrandedReader'  BY <1>1, <1>2 DEF IInv, NoStrandedReader, MayPark
  <1> QED BY <1>3, <1>4, <1>5, <1>6, <1>7, <1>8, <1>9, <1>10, <1>11, <1>12 DEF IInv

-----------------------------------------------------------------------------
(* The fiber. *)

\* The application gives the thread away.
LEMMA FiberYieldKeeps ==
  ASSUME IInv, FiberYield
  PROVE  IInv'
  <1>1. TypeOK'  BY DEF IInv, TypeOK, Spans, FiberYield
  <1>2. Control'  BY DEF IInv, Control, FiberYield
  <1>3. /\ Opening' /\ Cancelled' /\ Buffers' /\ InOrder' /\ Room'
         /\ Held' /\ Ending' /\ NoStrandedReader'
    BY Untouched DEF IInv, FiberYield
  <1> QED BY <1>1, <1>2, <1>3 DEF IInv

\* The event loop gives it back.
LEMMA FiberResumeKeeps ==
  ASSUME IInv, FiberResume
  PROVE  IInv'
  <1>1. TypeOK'  BY DEF IInv, TypeOK, Spans, FiberResume
  <1>2. Control'  BY DEF IInv, Control, FiberResume
  <1>3. /\ Opening' /\ Cancelled' /\ Buffers' /\ InOrder' /\ Room'
         /\ Held' /\ Ending' /\ NoStrandedReader'
    BY Untouched DEF IInv, FiberResume
  <1> QED BY <1>1, <1>2, <1>3 DEF IInv

\* A read starts ...
LEMMA ReadKeeps ==
  ASSUME IInv, Read
  PROVE  IInv'
  <1>1. TypeOK'
    BY BodyAssumption DEF IInv, TypeOK, Read
  <1>2. Control'  BY DEF IInv, Control, Read
  <1>3. Opening'  BY DEF IInv, Opening, Read
  <1>4. Cancelled'  BY DEF IInv, Cancelled, Read
  <1>5. Room'  BY DEF IInv, Room, EnvoyHolds, Spare, Span, SpareCapacity, WakeDue, Read
  <1>6. Held'  BY DEF IInv, Held, Span, SpareCapacity, WakeDue, Read
  <1>7. NoStrandedReader'  BY DEF IInv, NoStrandedReader, MayPark, Read
  <1>8. Buffers' /\ InOrder' /\ Ending'  BY Untouched DEF IInv, Read
  <1> QED BY <1>1, <1>2, <1>3, <1>4, <1>5, <1>6, <1>7, <1>8 DEF IInv

\* ... of a length or to the end.
LEMMA ReadAllKeeps ==
  ASSUME IInv, ReadAll
  PROVE  IInv'
  <1>1. TypeOK'  BY Fields DEF IInv, TypeOK, Spans, ReadAll
  <1>2. Control'  BY DEF IInv, Control, ReadAll
  <1>3. Opening'  BY DEF IInv, Opening, ReadAll
  <1>4. Cancelled'  BY DEF IInv, Cancelled, ReadAll
  <1>5. Room'  BY DEF IInv, Room, EnvoyHolds, Spare, Span, SpareCapacity, WakeDue, ReadAll
  <1>6. Held'  BY DEF IInv, Held, Span, SpareCapacity, WakeDue, ReadAll
  <1>7. NoStrandedReader'  BY DEF IInv, NoStrandedReader, MayPark, ReadAll
  <1>8. Buffers' /\ InOrder' /\ Ending'  BY Untouched DEF IInv, ReadAll
  <1> QED BY <1>1, <1>2, <1>3, <1>4, <1>5, <1>6, <1>7, <1>8 DEF IInv

\* What was pulled is read again.
LEMMA RewindKeeps ==
  ASSUME IInv, Rewind
  PROVE  IInv'
  <1>1. TypeOK'  BY DEF IInv, TypeOK, Spans, Rewind
  <1>2. /\ Control' /\ Opening' /\ Cancelled' /\ Buffers' /\ InOrder' /\ Room'
         /\ Held' /\ Ending' /\ NoStrandedReader'
    BY Untouched DEF IInv, Rewind
  <1> QED BY <1>1, <1>2 DEF IInv

\* The body is handed to the stream.
LEMMA DetachKeeps ==
  ASSUME IInv, Detach
  PROVE  IInv'
  <1>1. TypeOK'  BY DEF IInv, TypeOK, Spans, Detach
  <1>2. /\ Control' /\ Opening' /\ Cancelled' /\ Buffers' /\ InOrder' /\ Room'
         /\ Held' /\ Ending' /\ NoStrandedReader'
    BY Untouched DEF IInv, Detach
  <1> QED BY <1>1, <1>2 DEF IInv

\* The first item leaves the queue, and the worker's wakeup is due.
LEMMA PullKeeps ==
  ASSUME IInv, Pull
  PROVE  IInv'
  <1>1. fiber = "pull" /\ cpu = "fiber" /\ fiber # "none" /\ body.waiter = NoFiber
    BY DEF IInv, Pull, Control
  <1>2. UNCHANGED <<owed, scheduled, workerVars, cpu, reactor, position, want, sawEnd, detached>>
    BY DEF Pull
  <1>3. /\ body' \in StreamsOf({Reader}) /\ body'.waiter = NoFiber
        /\ body'.ended = body.ended /\ body'.cancelled = body.cancelled
        /\ body'.paused = body.paused /\ body'.buffered_bytes \in Nat
        /\ body'.buffered_bytes =< body.buffered_bytes /\ size' \in Nat
        /\ fiber' \in {"chunkWake", "endWake", "check"}
        /\ body' # body => fiber' \in {"chunkWake", "endWake"} /\ ~body.cancelled
        /\ filter = "Open" => /\ Ordered(body'.items, size', EnvoyFrom)
                              /\ body'.buffered_bytes = EnvoyFrom - size'
    <2>1. CASE ~CanTake(body)
      <3>1. body' = body /\ size' = size /\ fiber' = "check"  BY <2>1 DEF Pull, TakeNext
      <3> QED BY <3>1, <1>1, Fields DEF IInv, TypeOK, InOrder
    <2>2. CASE CanTake(body)
      <3> DEFINE e == body.items[1]
      <3>1. body.items # << >> /\ ~body.cancelled /\ filter = "Open"
        BY <2>2, <1>1 DEF IInv, CanTake, Cancelled, Opening
      <3>2. Head(body.items) = e /\ e \in Items  BY <3>1, Fields DEF IInv
      <3>3. Ordered(body.items, size, EnvoyFrom) /\ body.buffered_bytes = EnvoyFrom - size
        BY <3>1 DEF IInv, InOrder
      <3>4. EnvoyFrom \in Nat /\ size \in Nat  BY Fields DEF IInv, TypeOK, EnvoyFrom
      <3>5. /\ Ordered(Tail(body.items), e.upto, EnvoyFrom)
            /\ e.from = size /\ size =< e.upto /\ e.upto =< EnvoyFrom
        BY <3>1, <3>3, <3>4, OrderedTail, Fields DEF IInv
      <3>6. e.from \in Nat /\ e.upto \in Nat  BY <3>2 DEF Items
      <3> HIDE DEF e
      <3>7. /\ body' = TakeNext(body) /\ size' = e.upto
            /\ fiber' = IF e.kind = "chunk" THEN "chunkWake" ELSE "endWake"
        BY <2>2, <3>2, <3>4, <3>5, <3>6 DEF Pull, Size
      <3>8. /\ TakeNext(body) \in StreamsOf({Reader})
            /\ TakeNext(body).items = Tail(body.items)
            /\ TakeNext(body).buffered_bytes = body.buffered_bytes - (e.upto - e.from)
            /\ TakeNext(body).ended = body.ended
            /\ TakeNext(body).cancelled = body.cancelled
            /\ TakeNext(body).paused = body.paused
            /\ TakeNext(body).waiter = body.waiter
        <4>1. e.from =< e.upto /\ e.upto - e.from =< body.buffered_bytes
          BY <3>3, <3>4, <3>5, <3>6
        <4> QED BY <2>2, <4>1, TakeFacts, Fields DEF IInv, e
      <3> QED BY <3>1, <3>3, <3>4, <3>5, <3>6, <3>7, <3>8, <1>1, Fields, SMTT(30) DEF IInv
    <2> QED BY <2>1, <2>2
  <1>4. TypeOK'  BY <1>2, <1>3 DEF IInv, TypeOK, Spans
  <1>5. Control'  BY <1>1, <1>2, <1>3 DEF IInv, Control
  <1>6. Opening'  BY <1>1, <1>2, <1>3 DEF IInv, Opening
  <1>7. Cancelled'  BY <1>1, <1>2, <1>3 DEF IInv, Cancelled
  <1>8. InOrder'
    BY <1>2, <1>3 DEF IInv, InOrder, EnvoyFrom, Span
  <1>9. Room'
    <2>1. CASE body' = body  BY <1>1, <1>2, <2>1 DEF IInv, Room, EnvoyHolds, Spare, Span, WakeDue
    <2>2. CASE body' # body
      <3>1. SpareCapacity(body) =< SpareCapacity(body')
        BY <1>3, Fields DEF IInv, SpareCapacity
      <3>2. SpareCapacity(body) \in Nat /\ SpareCapacity(body') \in Nat /\ room \in Nat
        BY <1>3, Fields DEF IInv, TypeOK, SpareCapacity
      <3> QED BY <1>2, <1>3, <2>2, <3>1, <3>2 DEF IInv, Room, EnvoyHolds, Spare, Span, WakeDue
    <2> QED BY <2>1, <2>2
  <1>10. Held'  BY <1>1, <1>2, <1>3, Fields DEF IInv, Held, Span, SpareCapacity, WakeDue
  <1>11. Ending'  BY <1>2, <1>3 DEF IInv, Ending, Span
  <1>12. NoStrandedReader'  BY <1>3 DEF IInv, NoStrandedReader, MayPark
  <1>13. Buffers'  BY Untouched DEF IInv, Pull
  <1> QED BY <1>4, <1>5, <1>6, <1>7, <1>8, <1>9, <1>10, <1>11, <1>12, <1>13 DEF IInv

\* The worker's wakeup is committed.
LEMMA PullWakeKeeps ==
  ASSUME IInv, PullWake
  PROVE  IInv'
  <1>1. /\ fiber \in {"chunkWake", "endWake"} /\ cpu = "fiber" /\ fiber' \in {"pull", "check"}
        /\ scheduled' \in BOOLEAN /\ (scheduled' <=> scheduled \/ filter # "Dropped")
        /\ UNCHANGED <<body, owed, workerVars, cpu, reactor, size, position, want, sawEnd,
                       detached>>
    <2>1. scheduled' \in BOOLEAN /\ (scheduled' <=> scheduled \/ filter # "Dropped")
      BY Zenon DEF PullWake
    <2> QED BY <2>1 DEF PullWake
  <1>2. TypeOK'  BY <1>1 DEF IInv, TypeOK, Spans
  <1>3. Control'  BY <1>1 DEF IInv, Control
  <1>4. Opening'  BY <1>1 DEF IInv, Opening
  <1>5. Cancelled'  BY <1>1 DEF IInv, Cancelled
  <1>6. Room'
    BY <1>1 DEF IInv, Room, EnvoyHolds, Spare, Span, SpareCapacity, WakeDue, Control
  <1>7. Held'  BY <1>1 DEF IInv, Held, Span, SpareCapacity, WakeDue
  <1>8. NoStrandedReader'  BY <1>1 DEF IInv, NoStrandedReader, MayPark
  <1>9. Buffers' /\ InOrder' /\ Ending'  BY Untouched DEF IInv, PullWake
  <1> QED BY <1>2, <1>3, <1>4, <1>5, <1>6, <1>7, <1>8, <1>9 DEF IInv

\* A read returns short only from a queue that is over.
LEMMA CheckReadKeeps ==
  ASSUME IInv, CheckRead
  PROVE  IInv'
  <1>1. /\ fiber = "check" /\ cpu = "fiber" /\ fiber' \in {"app", "park"} /\ position' \in Nat
        /\ UNCHANGED <<queueVars, workerVars, cpu, reactor, size, want, detached>>
    BY DEF IInv, TypeOK, CheckRead, Smaller
  <1>2. sawEnd' \in BOOLEAN /\ (sawEnd' => sawEnd \/ (IsFinished(body) /\ size < want))
    <2>1. CASE size >= want \/ IsFinished(body)
      <3>1. (sawEnd' <=> sawEnd \/ size < want) /\ sawEnd' \in BOOLEAN
        BY <2>1, Zenon DEF CheckRead
      <3> QED BY <2>1, <3>1 DEF IInv, TypeOK
    <2>2. CASE ~(size >= want \/ IsFinished(body))
      BY <2>2 DEF IInv, TypeOK, CheckRead
    <2> QED BY <2>1, <2>2
  <1>3. TypeOK'  BY <1>1, <1>2 DEF IInv, TypeOK, Spans
  <1>4. Control'  BY <1>1 DEF IInv, Control
  <1>5. Opening'  BY <1>1 DEF IInv, Opening
  <1>6. Cancelled'  BY <1>1 DEF IInv, Cancelled
  <1>7. Room'  BY <1>1 DEF IInv, Room, EnvoyHolds, Spare, Span, SpareCapacity, WakeDue
  <1>8. Held'  BY <1>1 DEF IInv, Held, Span, SpareCapacity, WakeDue
  <1>9. Ending'  BY <1>1, <1>2 DEF IInv, Ending, Span, IsFinished
  <1>10. NoStrandedReader'  BY <1>1 DEF IInv, NoStrandedReader, MayPark
  <1>11. Buffers' /\ InOrder'  BY Untouched DEF IInv, CheckRead
  <1> QED BY <1>3, <1>4, <1>5, <1>6, <1>7, <1>8, <1>9, <1>10, <1>11 DEF IInv

\* The reader waits only on a queue with nothing for it.
LEMMA ParkOnSourceKeeps ==
  ASSUME IInv, ParkOnSource
  PROVE  IInv'
  <1>1. /\ fiber = "park" /\ cpu = "fiber" /\ body.waiter = NoFiber
        /\ fiber' = (IF MayPark(body) THEN "parked" ELSE "pull")
        /\ cpu' = (IF MayPark(body) THEN "reactor" ELSE "fiber")
        /\ UNCHANGED <<owed, scheduled, workerVars, reactor, size, position, want, sawEnd,
                       detached>>
    BY DEF IInv, ParkOnSource, Control
  <1>2. /\ body' \in StreamsOf({Reader}) /\ body'.items = body.items
        /\ body'.ended = body.ended /\ body'.buffered_bytes = body.buffered_bytes
        /\ body'.cancelled = body.cancelled /\ body'.paused = body.paused
        /\ body'.waiter = IF MayPark(body) THEN Reader ELSE body.waiter
    BY ParkFacts, Fields DEF IInv, ParkOnSource
  <1>3. body'.waiter # NoFiber => MayPark(body) /\ MayPark(body')
    BY <1>1, <1>2 DEF MayPark
  <1>4. TypeOK'  BY <1>1, <1>2 DEF IInv, TypeOK, Spans
  <1>5. Control'  BY <1>1, <1>3 DEF IInv, Control
  <1>6. Opening'  BY <1>1 DEF IInv, Opening
  <1>7. Cancelled'  BY <1>1, <1>2 DEF IInv, Cancelled
  <1>8. InOrder'  BY <1>1, <1>2 DEF IInv, InOrder, EnvoyFrom, Span
  <1>9. Room'  BY <1>1, <1>2 DEF IInv, Room, EnvoyHolds, Spare, Span, SpareCapacity, WakeDue
  <1>10. Held'  BY <1>1, <1>2 DEF IInv, Held, Span, SpareCapacity, WakeDue
  <1>11. Ending'  BY <1>1, <1>2 DEF IInv, Ending, Span
  <1>12. NoStrandedReader'  BY <1>3 DEF IInv, NoStrandedReader, MayPark
  <1>13. Buffers'  BY Untouched DEF IInv, ParkOnSource
  <1> QED BY <1>4, <1>5, <1>6, <1>7, <1>8, <1>9, <1>10, <1>11, <1>12, <1>13 DEF IInv

\* The wait ends.
LEMMA ParkEndsKeeps ==
  ASSUME IInv, ParkEnds
  PROVE  IInv'
  <1>1. /\ fiber \in {"resumed", "stopping"} /\ cpu = "fiber"
        /\ fiber' \in {"pull", "done"}
        /\ fiber' = "pull" => cpu' = "fiber"
        /\ cpu' \in {"reactor", "fiber"}
        /\ body' \in StreamsOf({Reader}) /\ body'.items = body.items
        /\ body'.ended = body.ended /\ body'.buffered_bytes = body.buffered_bytes
        /\ body'.cancelled = body.cancelled /\ body'.paused = body.paused
        /\ body'.waiter = NoFiber
        /\ UNCHANGED <<owed, scheduled, workerVars, reactor, size, position, want, sawEnd,
                       detached>>
    BY UnparkFacts, Fields DEF IInv, ParkEnds
  <1>2. TypeOK'
    BY <1>1 DEF IInv, TypeOK
  <1>3. Control'  BY <1>1 DEF IInv, Control
  <1>4. Opening'  BY <1>1 DEF IInv, Opening
  <1>5. Cancelled'  BY <1>1 DEF IInv, Cancelled
  <1>6. InOrder'  BY <1>1 DEF IInv, InOrder, EnvoyFrom, Span
  <1>7. Room'  BY <1>1 DEF IInv, Room, EnvoyHolds, Spare, Span, SpareCapacity, WakeDue
  <1>8. Held'  BY <1>1 DEF IInv, Held, Span, SpareCapacity, WakeDue
  <1>9. Ending'  BY <1>1 DEF IInv, Ending, Span
  <1>10. NoStrandedReader'  BY <1>1 DEF IInv, NoStrandedReader, MayPark
  <1>11. Buffers'  BY Untouched DEF IInv, ParkEnds
  <1> QED BY <1>2, <1>3, <1>4, <1>5, <1>6, <1>7, <1>8, <1>9, <1>10, <1>11 DEF IInv

\* The application is done.
LEMMA FiberEndsKeeps ==
  ASSUME IInv, FiberEnds
  PROVE  IInv'
  <1>1. TypeOK'  BY DEF IInv, TypeOK, Spans, FiberEnds
  <1>2. Control'  BY DEF IInv, Control, FiberEnds
  <1>3. Opening'  BY DEF IInv, Opening, FiberEnds
  <1>4. Cancelled'  BY DEF IInv, Cancelled, FiberEnds
  <1>5. Room'  BY DEF IInv, Room, EnvoyHolds, Spare, Span, SpareCapacity, WakeDue, FiberEnds
  <1>6. Held'  BY DEF IInv, Held, Span, SpareCapacity, WakeDue, FiberEnds
  <1>7. NoStrandedReader'  BY DEF IInv, NoStrandedReader, MayPark, FiberEnds
  <1>8. Buffers' /\ InOrder' /\ Ending'  BY Untouched DEF IInv, FiberEnds
  <1> QED BY <1>1, <1>2, <1>3, <1>4, <1>5, <1>6, <1>7, <1>8 DEF IInv

-----------------------------------------------------------------------------
(* The reactor. *)

\* A wakeup that was owed is acted on.
LEMMA TakeWakeupsKeeps ==
  ASSUME IInv, TakeWakeups
  PROVE  IInv'
  <1>1. TypeOK'
    <2>1. scheduled' \in BOOLEAN /\ owed' \in BOOLEAN  BY Zenon DEF IInv, TypeOK, TakeWakeups
    <2> QED BY <2>1 DEF IInv, TypeOK, TakeWakeups
  <1>2. NoStrandedReader'  BY DEF IInv, NoStrandedReader, MayPark, TakeWakeups
  <1>3. Control' /\ Opening' /\ Cancelled' /\ Buffers' /\ InOrder' /\ Room' /\ Held' /\ Ending'
    BY Untouched DEF IInv, TakeWakeups
  <1> QED BY <1>1, <1>2, <1>3 DEF IInv

\* The waiting reader is resumed.
LEMMA ResolveWaiterKeeps ==
  ASSUME IInv, ResolveWaiter
  PROVE  IInv'
  <1>1. /\ fiber' = (IF body.waiter # NoFiber THEN "resumed" ELSE fiber)
        /\ reactor' = "receive" /\ cpu = "reactor"
        /\ body.waiter # NoFiber => fiber = "parked"
        /\ body' \in StreamsOf({Reader}) /\ body'.items = body.items
        /\ body'.ended = body.ended /\ body'.buffered_bytes = body.buffered_bytes
        /\ body'.cancelled = body.cancelled /\ body'.paused = body.paused
        /\ body'.waiter = NoFiber
        /\ UNCHANGED <<owed, scheduled, workerVars, cpu, size, position, want, sawEnd, detached>>
    BY UnparkFacts, Fields DEF IInv, ResolveWaiter, Control
  <1>2. TypeOK'  BY <1>1 DEF IInv, TypeOK, Spans
  <1>3. Control'  BY <1>1 DEF IInv, Control
  <1>4. Opening'  BY <1>1 DEF IInv, Opening
  <1>5. Cancelled'  BY <1>1 DEF IInv, Cancelled
  <1>6. InOrder'  BY <1>1 DEF IInv, InOrder, EnvoyFrom, Span
  <1>7. Room'  BY <1>1 DEF IInv, Room, EnvoyHolds, Spare, Span, SpareCapacity, WakeDue
  <1>8. Held'  BY <1>1 DEF IInv, Held, Span, SpareCapacity, WakeDue
  <1>9. Ending'  BY <1>1 DEF IInv, Ending, Span
  <1>10. NoStrandedReader'  BY <1>1 DEF IInv, NoStrandedReader, MayPark
  <1>11. Buffers'  BY Untouched DEF IInv, ResolveWaiter
  <1> QED BY <1>2, <1>3, <1>4, <1>5, <1>6, <1>7, <1>8, <1>9, <1>10, <1>11 DEF IInv

\* The request's fiber starts.
LEMMA ReceiveKeeps ==
  ASSUME IInv, Receive
  PROVE  IInv'
  <1>1. TypeOK'  BY DEF IInv, TypeOK, Spans, Receive
  <1>2. Control'  BY DEF IInv, Control, Receive
  <1>3. Opening'  BY DEF IInv, Opening, Receive
  <1>4. Cancelled'  BY DEF IInv, Cancelled, Receive
  <1>5. Room'  BY DEF IInv, Room, EnvoyHolds, Spare, Span, SpareCapacity, WakeDue, Receive
  <1>6. Held'  BY DEF IInv, Held, Span, SpareCapacity, WakeDue, Receive
  <1>7. NoStrandedReader'  BY DEF IInv, NoStrandedReader, MayPark, Receive
  <1>8. Buffers' /\ InOrder' /\ Ending'  BY Untouched DEF IInv, Receive
  <1> QED BY <1>1, <1>2, <1>3, <1>4, <1>5, <1>6, <1>7, <1>8 DEF IInv

\* A fiber whose response is cancelled is stopped.
LEMMA StopCancelledKeeps ==
  ASSUME IInv, StopCancelled
  PROVE  IInv'
  <1>1. TypeOK'  BY DEF IInv, TypeOK, Spans, StopCancelled
  <1>2. Control'  BY DEF IInv, Control, StopCancelled
  <1>3. Opening'  BY DEF IInv, Opening, StopCancelled
  <1>4. Cancelled'  BY DEF IInv, Cancelled, StopCancelled
  <1>5. Room'
    BY DEF IInv, Room, EnvoyHolds, Spare, Span, SpareCapacity, WakeDue, StopCancelled
  <1>6. Held'  BY DEF IInv, Held, Span, SpareCapacity, WakeDue, StopCancelled
  <1>7. NoStrandedReader'  BY DEF IInv, NoStrandedReader, MayPark, StopCancelled
  <1>8. Buffers' /\ InOrder' /\ Ending'  BY Untouched DEF IInv, StopCancelled
  <1> QED BY <1>1, <1>2, <1>3, <1>4, <1>5, <1>6, <1>7, <1>8 DEF IInv

-----------------------------------------------------------------------------
(* The theorems. *)

\* A filter that has seen nothing satisfies the invariant.
LEMMA InitInv == Init => IInv
  <1> SUFFICES ASSUME Init PROVE IInv
    OBVIOUS
  <1>1. TypeOK
    <2>1. EmptyStream \in StreamsOf({Reader})  BY DEF EmptyStream, StreamsOf
    <2> QED BY <2>1 DEF Init, TypeOK, Spans
  <1>2. /\ body.items = << >> /\ body.buffered_bytes = 0 /\ ~body.cancelled /\ ~body.ended
        /\ ~body.paused /\ body.waiter = NoFiber
    BY DEF Init, EmptyStream
  <1> QED BY <1>1, <1>2, MaxBufferedBytesAssumption
          DEF Init, IInv, Control, Opening, Cancelled, Buffers, InOrder, Room, Held, Ending,
              NoStrandedReader, MayPark

\* Every step preserves the invariant.
LEMMA NextInv == IInv /\ [Next]_vars => IInv'
  <1> SUFFICES ASSUME IInv, [Next]_vars PROVE IInv'
    OBVIOUS
  <1>1. CASE UNCHANGED vars
    <2>1. TypeOK'  BY <1>1 DEF IInv, TypeOK, vars
    <2> QED BY <1>1, <2>1, Untouched DEF IInv, vars
  <1>2. CASE OnRequestHeaders \/ OnRequestBody \/ OnRequestTrailers \/ DropFilter
    BY <1>2, OnRequestHeadersKeeps, OnRequestBodyKeeps, OnRequestTrailersKeeps, DropFilterKeeps
  <1>3. CASE WorkerStep
    BY <1>3, OnScheduledKeeps, ForwardNothingKeeps, ForwardKeeps, CopyRetainedKeeps,
       CopyReceivedKeeps, ForwardEndKeeps, OweKeeps
       DEF WorkerStep
  <1>4. CASE AppStep
    BY <1>4, FiberYieldKeeps, ReadKeeps, ReadAllKeeps, RewindKeeps, DetachKeeps, FiberEndsKeeps
       DEF AppStep
  <1>5. CASE ReadStep
    BY <1>5, PullKeeps, PullWakeKeeps, CheckReadKeeps, ParkOnSourceKeeps, ParkEndsKeeps
       DEF ReadStep
  <1>6. CASE FiberResume \/ TakeWakeups  BY <1>6, FiberResumeKeeps, TakeWakeupsKeeps
  <1>7. CASE ReactorPass
    BY <1>7, ResolveWaiterKeeps, ReceiveKeeps, StopCancelledKeeps DEF ReactorPass
  <1> QED BY <1>1, <1>2, <1>3, <1>4, <1>5, <1>6, <1>7 DEF Next

\* The inductive invariant holds in every reachable state.
THEOREM Invariance == Spec => []IInv
  BY InitInv, NextInv, PTL DEF Spec

\* Every variable keeps the type the code gives it.
THEOREM TypeCorrect == Spec => []TypeOK
  <1>1. IInv => TypeOK  BY DEF IInv
  <1> QED BY <1>1, Invariance, PTL

\* forward_request_body gives the queue every byte once and in order, whatever
\* slices Envoy's buffers come in and whatever the queue had room for.
THEOREM BytesInOrder == Spec => []InOrder
  <1>1. IInv => InOrder  BY DEF IInv
  <1> QED BY <1>1, Invariance, PTL

\* rack.input reports the end of the body only when the application has all of
\* what the client sent and ended, or the filter is gone.
THEOREM TheEndIsTrue == Spec => []EndIsTrue
  <1>1. IInv => EndIsTrue
    <2> SUFFICES ASSUME IInv, sawEnd, ~body.cancelled PROVE clientEnd /\ size = received[2]
      BY DEF EndIsTrue
    <2>1. body.ended /\ body.buffered_bytes = 0 /\ filter = "Open"
      BY DEF IInv, Ending, Opening, Cancelled
    <2> QED BY <2>1, Fields DEF IInv, TypeOK, Ending, InOrder, EnvoyFrom, Span
  <1> QED BY <1>1, Invariance, PTL

\* A reader parked in Park.on always has its wakeup owed or on its way once the
\* queue has something for it or is over.
THEOREM ReaderIsWoken == Spec => []NoStrandedReader
  <1>1. IInv => NoStrandedReader  BY DEF IInv
  <1> QED BY <1>1, Invariance, PTL

\* The request queue never exceeds its limit, and Envoy holds bytes or the end
\* back only for want of room.
THEOREM HeldBackForRoom == Spec => []HeldBackOnlyWhenFull
  <1>1. IInv => HeldBackOnlyWhenFull
    BY Fields DEF IInv, Held, WakeDue, HeldBackOnlyWhenFull, Span, SpareCapacity
  <1> QED BY <1>1, Invariance, PTL
=============================================================================
