------------------------- MODULE ResponsePathProofs -------------------------
(***************************************************************************)
(* The safety properties of ResponsePath, for every queue limit, every     *)
(* body length and every set of chunk sizes.                               *)
(*                                                                         *)
(* None of them is inductive alone.  IInv adds who holds the Ruby thread   *)
(* (Control), how far the fiber is with the body (Production), that the    *)
(* head still leads a queue the worker has not started on (HeadPending)    *)
(* and what the client was shown (Shown).  One lemma per action says that  *)
(* the action preserves IInv.                                              *)
(***************************************************************************)
EXTENDS ResponsePath, ResponseStreamProofs

\* Who has the Ruby thread, and the filter states the worker acts in.
Control ==
  /\ cpu = "reactor" => fiber \in {"queued", "app", "body", "parked", "resumed", "done"}
  /\ fiber \in {"queued", "done", "parked"} => cpu = "reactor"
  /\ worker \in {"take", "resume"} => Attached
  /\ stream.cancelled => filter = "Dropped"

\* How far the fiber is with the body, and with ending it.
Production ==
  /\ written =< goal
  /\ fiber \in {"queued", "app"} =>
       /\ written = 0 /\ goal = 0 /\ verdict = "open"
       /\ stream.items = << >> /\ ~stream.ended /\ filter \in {"Waiting", "Dropped"}
  /\ fiber \in {"headWake", "body", "closeWake"} => written = goal
  /\ fiber \in {"headWake", "write", "park", "parked", "resumed", "store", "chunkWake"} =>
       verdict = "open"
  /\ verdict = "raised" => fiber \in {"fail", "stopping", "lastWake", "release", "done"}
  /\ verdict = "open" =>
       ~stream.ended \/ fiber \in {"lastWake", "release", "done"}
  /\ fiber = "stopping" => ~stream.ended
  /\ verdict = "done" => written = goal
  /\ fiber = "finish" => verdict = "done" \/ stream.cancelled
  /\ \A i \in 1 .. Len(stream.items) : stream.items[i].kind = "end" => verdict = "done"

\* Until the worker has sent the head, it is the first thing in the queue.
HeadPending ==
  filter = "Waiting" /\ fiber \in {"headWake", "body", "closeWake", "write", "park",
                                   "parked", "resumed", "store", "chunkWake", "finish"} =>
    stream.items # << >> /\ stream.items[1].kind = "head"

\* What the client has seen goes with the state of the filter.
Shown ==
  /\ filter = "Waiting" => wire = "none" /\ outcome = "none" /\ sent = 0
  /\ filter = "Streaming" => wire = "head" /\ outcome = "none"
  /\ filter = "Responded" => wire \in {"complete", "localReply", "reset"}
  /\ filter = "Dropped" => wire \in {"complete", "localReply", "reset", "gone"}

IInv ==
  /\ TypeOK /\ WithinBudget /\ CancelledHoldsNothing
  /\ Control /\ Production /\ HeadPending /\ InOrder /\ Framed
  /\ CompleteIsWhole /\ Shown /\ OutcomeMatchesWire
  /\ WaiterIsParked /\ NoStrandedWriter /\ NoForgottenItems

-----------------------------------------------------------------------------
(* Every lemma below unfolds the invariant. *)

USE DEF IInv, TypeOK, FiberStates, WithinBudget, CancelledHoldsNothing, Control,
        Production, HeadPending, InOrder, Framed, CompleteIsWhole, Shown,
        OutcomeMatchesWire, WaiterIsParked, NoStrandedWriter, NoForgottenItems,
        FiberAt, ReactorAt, Attached, queueVars, rubyVars, workerVars

-----------------------------------------------------------------------------
(* Steps that leave the queue alone. *)

\* The fiber gives the thread away.
LEMMA FiberYieldInv == IInv /\ FiberYield => IInv'
  BY DEF FiberYield

\* The event loop gives it back.
LEMMA FiberResumeInv == IInv /\ FiberResume => IInv'
  BY DEF FiberResume

\* The application raises.
LEMMA RaiseInv == IInv /\ Raise => IInv'
  BY DEF Raise

\* The body yields.
LEMMA YieldChunkInv == IInv /\ YieldChunk => IInv'
  BY BodyAssumption DEF YieldChunk

\* The body returns.
LEMMA BodyReturnsInv == IInv /\ BodyReturns => IInv'
  BY DEF BodyReturns

\* Stream.write looks at the room.
LEMMA WriteLoopInv == IInv /\ WriteLoop => IInv'
  BY DEF WriteLoop

\* StreamHandle::wake keeps what was queued from being forgotten.
LEMMA WakeInv == IInv /\ Wake => IInv'
  <1>1. Wake => scheduled' \in BOOLEAN /\ (scheduled' <=> (scheduled \/ filter # "Dropped"))
    BY Zenon DEF Wake
  <1> QED BY <1>1 DEF Wake, AfterWake

\* The permit is dropped.
LEMMA ReleaseInv == IInv /\ Release => IInv'
  <1>1. Release => permit' \in BOOLEAN
    BY Zenon DEF Release
  <1> QED BY <1>1 DEF Release

\* The wake byte ends the wait.
LEMMA WakeByteInv == IInv /\ WakeByte => IInv'
  BY DEF WakeByte

\* The deadline ends the wait.
LEMMA HeartbeatInv == IInv /\ Heartbeat => IInv'
  BY DEF Heartbeat

\* A wakeup taken off the list is about to be resolved.
LEMMA TakeWakeupsInv == IInv /\ TakeWakeups => IInv'
  <1>1. TakeWakeups => owed' \in BOOLEAN
    BY Zenon DEF TakeWakeups
  <1> QED BY <1>1 DEF TakeWakeups

\* The wake bytes are read.
LEMMA DrainSocketInv == IInv /\ DrainSocket => IInv'
  <1>1. DrainSocket => socket' \in BOOLEAN
    BY Zenon DEF DrainSocket
  <1> QED BY <1>1 DEF DrainSocket

\* The call starts.
LEMMA ReceiveInv == IInv /\ Receive => IInv'
  BY DEF Receive

\* A cancelled request is stopped.
LEMMA StopCancelledInv == IInv /\ StopCancelled => IInv'
  BY DEF StopCancelled, StopTask

\* The last pass stops the fiber under an attached client too.
LEMMA StopAllInv == IInv /\ StopAll => IInv'
  BY DEF StopAll, StopTask

\* The committed event becomes a drain, if there is a stream to drain.
LEMMA OnScheduledInv == IInv /\ OnScheduled => IInv'
  <1>1. OnScheduled => scheduled' \in BOOLEAN
    BY Zenon DEF OnScheduled
  <1> QED BY <1>1 DEF OnScheduled

\* The drain loop ends with the queue empty or paused, and goes to the check.
LEMMA DrainStopsInv == IInv /\ DrainStops => IInv'
  BY DEF DrainStops, CanTake

\* The check finds every writer that is owed a wakeup.
LEMMA CheckWriterInv == IInv /\ CheckWriter => IInv'
  BY DEF CheckWriter, WriterOwedWakeup, Full

\* The wakeup is owed.
LEMMA OweInv == IInv /\ Owe => IInv'
  BY DEF Owe

\* The byte is sent.
LEMMA SignalInv == IInv /\ Signal => IInv'
  BY DEF Signal

\* The resumed drain is scheduled.
LEMMA CommitResumeInv == IInv /\ CommitResume => IInv'
  BY DEF CommitResume

-----------------------------------------------------------------------------
(* Steps that push. *)

\* The queue after a push, item by item.
Pushed(item) ==
  /\ stream' \in Streams
  /\ stream'.buffered_bytes = stream.buffered_bytes + (item.upto - item.from)
  /\ stream'.ended <=> item.kind \in {"end", "failed"}
  /\ stream'.cancelled = stream.cancelled
  /\ stream'.paused = stream.paused
  /\ stream'.waiter = stream.waiter
  /\ ~stream.cancelled /\ ~stream.ended
  /\ Len(stream.items) \in Nat
  /\ Len(stream'.items) = Len(stream.items) + 1
  /\ stream'.items # << >>
  /\ stream'.items[Len(stream.items) + 1] = item
  /\ \A i \in 1 .. Len(stream.items) : stream'.items[i] = stream.items[i]
  /\ stream.items = << >> <=> Len(stream.items) = 0
  /\ \A i \in 1 .. Len(stream'.items) :
       \/ i \in 1 .. Len(stream.items) /\ stream'.items[i] = stream.items[i]
       \/ i = Len(stream.items) + 1 /\ stream'.items[i] = item
  /\ stream.buffered_bytes \in Nat
  /\ item.kind # "chunk" => stream'.buffered_bytes = stream.buffered_bytes
  /\ InOrder'

\* A push that continues the body where it stopped keeps the queue in order.
LEMMA PushStep ==
  ASSUME IInv, ~Refuses(stream), NEW item \in Items,
         item.from = written, item.from =< item.upto,
         item.kind # "chunk" => item.from = item.upto,
         stream' = Push(stream, item),
         UNCHANGED <<sent, filter>>, written' = item.upto
  PROVE  Pushed(item)
  <1>1. /\ stream' \in Streams /\ stream'.items = Append(stream.items, item)
        /\ stream'.buffered_bytes = stream.buffered_bytes + (item.upto - item.from)
        /\ stream'.ended <=> item.kind \in {"end", "failed"}
        /\ stream'.cancelled = stream.cancelled
        /\ stream'.paused = stream.paused
        /\ stream'.waiter = stream.waiter
    BY PushFacts DEF Streams
  <1>2. stream.items \in Seq(Items) /\ ~stream.cancelled /\ ~stream.ended
    BY DEF Refuses, Streams, StreamsOf
  <1>3. /\ Len(stream.items) \in Nat
        /\ Len(stream'.items) = Len(stream.items) + 1
        /\ stream'.items # << >>
        /\ stream'.items[Len(stream.items) + 1] = item
        /\ \A i \in 1 .. Len(stream.items) : stream'.items[i] = stream.items[i]
        /\ stream.items = << >> <=> Len(stream.items) = 0
    BY <1>1, <1>2, AppendFacts
  <1>4. ASSUME Attached  PROVE Ordered(stream'.items, sent, written')
    BY <1>1, <1>2, <1>4, OrderedAppend
  <1>5. Attached => stream'.buffered_bytes = written' - sent
    BY <1>1 DEF Streams, StreamsOf, Items
  <1>6. InOrder'
    BY <1>4, <1>5
  <1>7. /\ stream.buffered_bytes \in Nat
        /\ item.kind # "chunk" => stream'.buffered_bytes = stream.buffered_bytes
    BY <1>1 DEF Streams, StreamsOf, Items
  <1>8. \A i \in 1 .. Len(stream'.items) :
          \/ i \in 1 .. Len(stream.items) /\ stream'.items[i] = stream.items[i]
          \/ i = Len(stream.items) + 1 /\ stream'.items[i] = item
    BY <1>3
  <1> QED BY <1>1, <1>2, <1>3, <1>6, <1>7, <1>8 DEF Pushed

\* A chunk, an end or a failure is framed by the head before it.
LEMMA PushFramed ==
  ASSUME IInv, NEW item, Pushed(item), UNCHANGED filter,
         item.kind \in {"chunk", "end", "failed"},
         item.kind # "failed" /\ filter = "Waiting" => stream.items # << >>
  PROVE  Framed'
  <1> SUFFICES ASSUME Attached, NEW i \in 1 .. Len(stream'.items)
               PROVE  /\ stream'.items[i].kind = "head" => i = 1 /\ filter = "Waiting"
                      /\ stream'.items[i].kind \in {"chunk", "end"} => i > 1 \/ filter = "Streaming"
                      /\ stream'.items[i].kind \in {"end", "failed"} =>
                           i = Len(stream'.items) /\ stream'.ended
    OBVIOUS
  <1>1. CASE i \in 1 .. Len(stream.items) /\ stream'.items[i] = stream.items[i]
    <2>1. stream.items[i].kind \notin {"end", "failed"}  BY <1>1 DEF Pushed
    <2> QED BY <1>1, <2>1
  <1>2. CASE i = Len(stream.items) + 1 /\ stream'.items[i] = item
    <2>1. Len(stream.items) \in Nat /\ Len(stream'.items) = i
      BY <1>2 DEF Pushed
    <2>2. stream.items # << >> => Len(stream.items) > 0
      BY <2>1 DEF Pushed
    <2>3. item.kind \in {"end", "failed"} => stream'.ended
      BY DEF Pushed
    <2> QED BY <1>2, <2>1, <2>2, <2>3
  <1> QED BY <1>1, <1>2 DEF Pushed

\* push_head: the head is the first item of all.
LEMMA PushHeadInv == IInv /\ PushHead => IInv'
  <1> SUFFICES ASSUME IInv, PushHead  PROVE IInv'
    OBVIOUS
  <1>1. CASE Refuses(stream)
    <2>1. stream' = stream /\ fiber' = "release"  BY <1>1 DEF PushHead, Push
    <2> QED BY <2>1, <1>1 DEF PushHead
  <1>2. CASE ~Refuses(stream)
    <2> DEFINE head == Item("head", 0, 0)
    <2>1. head \in Items /\ head.kind = "head" /\ head.from = 0 /\ head.upto = 0
      BY ItemFacts DEF Kinds
    <2>2. stream' = Push(stream, head) /\ fiber' = "headWake"  BY <1>2 DEF PushHead
    <2> HIDE DEF head
    <2>3. Pushed(head)
      BY <2>1, <2>2, <1>2, PushStep DEF PushHead
    <2>4. Len(stream.items) = 0  BY <2>3 DEF PushHead, Pushed
    <2>5. stream'.items # << >> /\ stream'.items[1] = head  BY <2>3, <2>4 DEF Pushed
    <2>6. TypeOK'  BY <2>1, <2>2, <2>3, <2>4 DEF PushHead, Pushed
    <2>7. WithinBudget' /\ CancelledHoldsNothing' /\ InOrder'
      BY <2>1, <2>2, <2>3, <2>4 DEF PushHead, Pushed
    <2>8. Control'  BY <2>1, <2>2, <2>3, <2>4 DEF PushHead, Pushed
    <2>9. Production'  BY <2>1, <2>2, <2>3, <2>4 DEF PushHead, Pushed
    <2>10. HeadPending'  BY <2>1, <2>5
    <2>11. Framed'
      <3>1. Len(stream'.items) = 1 /\ filter' = filter /\ filter \in {"Waiting", "Dropped"}
        BY <2>3, <2>4 DEF PushHead, Pushed
      <3> QED BY <2>1, <2>5, <3>1
    <2>12. CompleteIsWhole' /\ Shown' /\ OutcomeMatchesWire'
      BY <2>1, <2>2, <2>3, <2>4 DEF PushHead, Pushed
    <2>13. WaiterIsParked' /\ NoStrandedWriter' /\ NoForgottenItems'
      BY <2>1, <2>2, <2>3, <2>4 DEF PushHead, Pushed
    <2> QED BY <2>6, <2>7, <2>8, <2>9, <2>10, <2>11, <2>12, <2>13
  <1> QED BY <1>1, <1>2

\* close_write: the end is queued after every byte that was yielded.
LEMMA CloseWriteInv == IInv /\ CloseWrite => IInv'
  <1> SUFFICES ASSUME IInv, CloseWrite  PROVE IInv'
    OBVIOUS
  <1>1. CASE Refuses(stream)
    <2>1. stream' = stream /\ fiber' = "body"  BY <1>1 DEF CloseWrite, Push
    <2> QED BY <2>1, <1>1 DEF CloseWrite
  <1>2. CASE ~Refuses(stream)
    <2> DEFINE end == Item("end", written, written)
    <2>1. end \in Items /\ end.kind = "end" /\ end.from = written /\ end.upto = written
      BY ItemFacts DEF Kinds
    <2>2. stream' = Push(stream, end) /\ fiber' = "closeWake"  BY <1>2 DEF CloseWrite
    <2> HIDE DEF end
    <2>3. Pushed(end)
      BY <2>1, <2>2, <1>2, PushStep DEF CloseWrite
    <2>4. TypeOK'  BY <2>1, <2>2, <2>3 DEF CloseWrite, Pushed
    <2>5. WithinBudget' /\ CancelledHoldsNothing' /\ InOrder'
      BY <2>1, <2>2, <2>3 DEF CloseWrite, Pushed
    <2>6. Control'  BY <2>1, <2>2, <2>3 DEF CloseWrite, Pushed
    <2>7. Production'  BY <2>1, <2>2, <2>3 DEF CloseWrite, Pushed
    <2>8. HeadPending'  BY <2>1, <2>2, <2>3 DEF CloseWrite, Pushed
    <2>9. Framed'  BY <2>1, <2>3, PushFramed DEF CloseWrite
    <2>10. CompleteIsWhole' /\ Shown' /\ OutcomeMatchesWire'
      BY <2>1, <2>2, <2>3 DEF CloseWrite, Pushed
    <2>11. WaiterIsParked' /\ NoStrandedWriter' /\ NoForgottenItems'
      BY <2>1, <2>2, <2>3 DEF CloseWrite, Pushed
    <2> QED BY <2>4, <2>5, <2>6, <2>7, <2>8, <2>9, <2>10, <2>11
  <1> QED BY <1>1, <1>2

\* push_chunk_within_budget never passes the limit.
LEMMA StoreInv == IInv /\ Store => IInv'
  <1> SUFFICES ASSUME IInv, Store  PROVE IInv'
    OBVIOUS
  <1>1. CASE Refuses(stream)
    <2>1. stream' = stream /\ written' = written /\ fiber' \in {"finish", "fail"}
      BY <1>1 DEF Store, PushChunkWithinBudget
    <2> QED BY <2>1, <1>1 DEF Store, Refuses
  <1>2. CASE ~Refuses(stream)
    <2> DEFINE taken == TakenWithinBudget(stream, goal - written)
               chunk == Item("chunk", written, written + taken)
    <2>1. /\ taken \in Nat /\ written + taken =< goal
          /\ stream.buffered_bytes + taken =< MaxBufferedBytes
      BY MaxBufferedBytesAssumption DEF TakenWithinBudget, SpareCapacity, Streams, StreamsOf
    <2>2. /\ stream' = IF taken = 0 THEN stream ELSE Push(stream, chunk)
          /\ written' = written + taken
          /\ fiber' = IF taken = 0 THEN "write" ELSE "chunkWake"
      BY <1>2 DEF Store, PushChunkWithinBudget
    <2> HIDE DEF taken
    <2>3. CASE taken = 0
      <3>1. /\ stream' = stream /\ written' = written /\ fiber = "store" /\ fiber' = "write"
            /\ UNCHANGED <<owed, socket, scheduled, workerVars, cpu, reactor, goal, verdict, permit>>
        BY <2>1, <2>2, <2>3 DEF Store
      <3>2. TypeOK' /\ WithinBudget' /\ CancelledHoldsNothing' /\ InOrder' /\ Framed'  BY <3>1
      <3>3. Control' /\ Production' /\ HeadPending'  BY <3>1
      <3>4. CompleteIsWhole' /\ Shown' /\ OutcomeMatchesWire'  BY <3>1
      <3>5. WaiterIsParked' /\ NoStrandedWriter' /\ NoForgottenItems'  BY <3>1
      <3> QED BY <3>2, <3>3, <3>4, <3>5
    <2>4. CASE taken # 0
      <3>1. /\ chunk \in Items /\ chunk.kind = "chunk"
            /\ chunk.from = written /\ chunk.upto = written + taken
        BY <2>1, ItemFacts DEF Kinds
      <3> HIDE DEF chunk
      <3>2. Pushed(chunk)
        BY <3>1, <2>1, <2>2, <2>4, <1>2, PushStep DEF Store
      <3>3. TypeOK'  BY <3>1, <3>2, <2>1, <2>2, <2>4 DEF Store, Pushed
      <3>4. WithinBudget' /\ CancelledHoldsNothing' /\ InOrder'
        BY <3>1, <3>2, <2>1, <2>2, <2>4 DEF Store, Pushed
      <3>5. Control'  BY <3>1, <3>2, <2>1, <2>2, <2>4 DEF Store, Pushed
      <3>6. Production'  BY <3>1, <3>2, <2>1, <2>2, <2>4 DEF Store, Pushed
      <3>7. HeadPending'  BY <3>1, <3>2, <2>1, <2>2, <2>4 DEF Store, Pushed
      <3>8. Framed'  BY <3>1, <3>2, PushFramed DEF Store
      <3>9. CompleteIsWhole' /\ Shown' /\ OutcomeMatchesWire'
        BY <3>1, <3>2, <2>1, <2>2, <2>4 DEF Store, Pushed
      <3>10. WaiterIsParked' /\ NoStrandedWriter' /\ NoForgottenItems'
        BY <3>1, <3>2, <2>1, <2>2, <2>4 DEF Store, Pushed
      <3> QED BY <3>3, <3>4, <3>5, <3>6, <3>7, <3>8, <3>9, <3>10
    <2> QED BY <2>3, <2>4
  <1> QED BY <1>1, <1>2

\* push_end or push_failure; nothing follows what close_write queued.
LEMMA PushLastInv == IInv /\ PushLast => IInv'
  <1> SUFFICES ASSUME IInv, PushLast  PROVE IInv'
    OBVIOUS
  <1>1. CASE Refuses(stream)
    <2>1. stream' = stream  BY <1>1 DEF PushLast, Push
    <2> QED BY <2>1, <1>1 DEF PushLast, Refuses
  <1>2. CASE ~Refuses(stream)
    <2> DEFINE last == Item(IF fiber = "finish" THEN "end" ELSE "failed", written, written)
    <2>1. /\ last \in Items /\ last.from = written /\ last.upto = written
          /\ last.kind = IF fiber = "finish" THEN "end" ELSE "failed"
      BY ItemFacts DEF Kinds
    <2>2. stream' = Push(stream, last)  BY <1>2 DEF PushLast
    <2> HIDE DEF last
    <2>3. Pushed(last)
      BY <2>1, <2>2, <1>2, PushStep DEF PushLast
    <2>4. \A i \in 1 .. Len(stream'.items) : stream'.items[i].kind = "end" => verdict = "done"
      <3> SUFFICES ASSUME NEW i \in 1 .. Len(stream'.items), stream'.items[i].kind = "end"
                   PROVE  verdict = "done"
        OBVIOUS
      <3>1. CASE i \in 1 .. Len(stream.items) /\ stream'.items[i] = stream.items[i]
        BY <3>1
      <3>2. CASE stream'.items[i] = last
        BY <3>2, <2>1, <1>2 DEF PushLast, Refuses
      <3> QED BY <3>1, <3>2, <2>3 DEF Pushed
    <2>5. TypeOK'  BY <2>1, <2>2, <2>3 DEF PushLast, Pushed
    <2>6. WithinBudget' /\ CancelledHoldsNothing' /\ InOrder'
      BY <2>1, <2>2, <2>3 DEF PushLast, Pushed
    <2>7. Control'  BY <2>1, <2>2, <2>3 DEF PushLast, Pushed
    <2>8. Production'  BY <2>1, <2>3, <2>4 DEF PushLast, Pushed
    <2>9. HeadPending'  BY <2>1, <2>2, <2>3 DEF PushLast, Pushed
    <2>10. Framed'  BY <2>1, <2>3, PushFramed DEF PushLast
    <2>11. CompleteIsWhole' /\ Shown' /\ OutcomeMatchesWire'
      BY <2>1, <2>2, <2>3 DEF PushLast, Pushed
    <2>12. WaiterIsParked' /\ NoStrandedWriter' /\ NoForgottenItems'
      BY <2>1, <2>2, <2>3 DEF PushLast, Pushed
    <2> QED BY <2>5, <2>6, <2>7, <2>8, <2>9, <2>10, <2>11, <2>12
  <1> QED BY <1>1, <1>2

-----------------------------------------------------------------------------
(* Steps that park, pause and cancel. *)

\* park_writer decides under the queue's lock, so a writer parks only where
\* nothing is owed to it yet.
LEMMA ParkOnSinkInv == IInv /\ ParkOnSink => IInv'
  <1> SUFFICES ASSUME IInv, ParkOnSink  PROVE IInv'
    OBVIOUS
  <1>1. CASE MayParkWriter(stream)
    <2>1. ~stream.cancelled /\ Full(stream)  BY <1>1 DEF MayParkWriter
    <2>2. /\ stream' \in Streams /\ stream'.waiter = Writer /\ stream'.items = stream.items
          /\ stream'.buffered_bytes = stream.buffered_bytes
          /\ stream'.ended = stream.ended /\ stream'.cancelled = stream.cancelled
          /\ stream'.paused = stream.paused
      <3>1. stream \in StreamsOf({Writer}) /\ Writer \in {Writer}  BY DEF Streams
      <3>2. stream' = ParkWriter(stream, Writer)  BY DEF ParkOnSink
      <3>3. stream' = [stream EXCEPT !.waiter = Writer]  BY <1>1, <3>2 DEF ParkWriter
      <3> QED BY <3>1, <3>3 DEF Streams, StreamsOf
    <2>3. stream'.waiter # NoFiber  BY <2>2 DEF NoFiber, Writer
    <2>4. Full(stream)'  BY <2>1, <2>2 DEF Full
    <2> QED BY <1>1, <2>1, <2>2, <2>3, <2>4 DEF ParkOnSink
  <1>2. CASE ~MayParkWriter(stream)
    <2>1. stream' = stream  BY <1>2 DEF ParkOnSink, ParkWriter
    <2> QED BY <1>2, <2>1 DEF ParkOnSink
  <1> QED BY <1>1, <1>2

\* The resumed writer clears its slot.
LEMMA ParkEndsInv == IInv /\ ParkEnds => IInv'
  BY UnparkFacts DEF Streams, ParkEnds

\* The stopped writer clears its slot.
LEMMA ParkInterruptedInv == IInv /\ ParkInterrupted => IInv'
  BY UnparkFacts DEF Streams, ParkInterrupted

\* The reactor empties the slot and resumes the writer.
LEMMA ResolveWaiterInv == IInv /\ ResolveWaiter => IInv'
  BY UnparkFacts DEF Streams, ResolveWaiter

\* All but the pause flag of the queue stays.
SameButPaused ==
  /\ stream'.items = stream.items /\ stream'.buffered_bytes = stream.buffered_bytes
  /\ stream'.ended = stream.ended /\ stream'.cancelled = stream.cancelled
  /\ stream'.waiter = stream.waiter

\* Pausing makes the queue full, so it owes nobody.
LEMMA AboveHighWatermarkInv == IInv /\ AboveHighWatermark => IInv'
  <1> SUFFICES ASSUME IInv, AboveHighWatermark  PROVE IInv'
    OBVIOUS
  <1>0. UNCHANGED <<owed, socket, scheduled, rubyVars, workerVars>>
    BY DEF AboveHighWatermark
  <1>1. stream' \in Streams /\ stream'.paused = TRUE /\ SameButPaused
    BY PauseFacts, Zenon DEF Streams, AboveHighWatermark, SameButPaused
  <1>2. stream'.paused  BY <1>1
  <1>3. Full(stream)'  BY <1>2 DEF Full
  <1>4. TypeOK'  BY <1>0, <1>1 DEF SameButPaused
  <1>5. WithinBudget' /\ CancelledHoldsNothing' /\ InOrder'
    BY <1>1, <1>2, <1>3 DEF AboveHighWatermark, SameButPaused
  <1>6. Control'  BY <1>1, <1>2, <1>3 DEF AboveHighWatermark, SameButPaused
  <1>7. Production'  BY <1>1, <1>2, <1>3 DEF AboveHighWatermark, SameButPaused
  <1>8. HeadPending'  BY <1>1, <1>2, <1>3 DEF AboveHighWatermark, SameButPaused
  <1>9. Framed'  BY <1>0, <1>1 DEF SameButPaused
  <1>10. CompleteIsWhole' /\ Shown' /\ OutcomeMatchesWire'
    BY <1>1, <1>2, <1>3 DEF AboveHighWatermark, SameButPaused
  <1>11. WaiterIsParked' /\ NoStrandedWriter' /\ NoForgottenItems'
    BY <1>1, <1>2, <1>3 DEF AboveHighWatermark, SameButPaused
  <1> QED BY <1>4, <1>5, <1>6, <1>7, <1>8, <1>9, <1>10, <1>11

\* Resuming may owe a wakeup and a drain: both are the next step.
LEMMA BelowLowWatermarkInv == IInv /\ BelowLowWatermark => IInv'
  <1> SUFFICES ASSUME IInv, BelowLowWatermark  PROVE IInv'
    OBVIOUS
  <1>0. /\ UNCHANGED <<owed, socket, scheduled, rubyVars, filter, wire, sent, outcome>>
        /\ worker' = "resume"
    BY DEF BelowLowWatermark
  <1>1. stream' \in Streams /\ SameButPaused
    BY PauseFacts, ZenonT(30) DEF Streams, BelowLowWatermark, SameButPaused
  <1>2. TypeOK'  BY <1>0, <1>1 DEF SameButPaused
  <1>3. WithinBudget' /\ CancelledHoldsNothing' /\ InOrder'
    BY <1>1 DEF BelowLowWatermark, SameButPaused
  <1>4. Control'  BY <1>1 DEF BelowLowWatermark, SameButPaused
  <1>5. Production'  BY <1>1 DEF BelowLowWatermark, SameButPaused
  <1>6. HeadPending'  BY <1>1 DEF BelowLowWatermark, SameButPaused
  <1>7. Framed'  BY <1>0, <1>1 DEF SameButPaused
  <1>8. CompleteIsWhole' /\ Shown' /\ OutcomeMatchesWire'
    BY <1>1 DEF BelowLowWatermark, SameButPaused
  <1>9. WaiterIsParked' /\ NoStrandedWriter' /\ NoForgottenItems'
    BY <1>1 DEF BelowLowWatermark, SameButPaused
  <1> QED BY <1>2, <1>3, <1>4, <1>5, <1>6, <1>7, <1>8, <1>9

\* Cancelling the queue leads to the check; a filter that let go of its stream
\* leaves nothing behind.
LEMMA DropFilterInv == IInv /\ DropFilter => IInv'
  <1> SUFFICES ASSUME IInv, DropFilter  PROVE IInv'
    OBVIOUS
  <1>1. scheduled' \in BOOLEAN /\ ~scheduled' BY Zenon DEF DropFilter
  <1>2. CASE Attached
    <2>1. /\ stream' \in Streams /\ stream'.cancelled /\ stream'.items = << >>
          /\ stream'.buffered_bytes = 0 /\ stream'.ended = stream.ended
          /\ stream'.waiter = stream.waiter
      BY <1>2, CancelFacts DEF Streams, DropFilter
    <2>2. filter' = "Dropped" /\ worker' = "check" /\ Len(stream'.items) = 0
      BY <1>2, <2>1 DEF DropFilter
    <2>3. TypeOK'  BY <1>1, <1>2, <2>1, <2>2 DEF DropFilter, ReportOutcome
    <2>4. WithinBudget' /\ CancelledHoldsNothing' /\ InOrder'
      BY <2>1, <2>2, MaxBufferedBytesAssumption
    <2>5. Control'  BY <1>1, <1>2, <2>1, <2>2 DEF DropFilter, ReportOutcome
    <2>6. Production'  BY <1>1, <1>2, <2>1, <2>2 DEF DropFilter, ReportOutcome
    <2>7. HeadPending'  BY <1>1, <1>2, <2>1, <2>2 DEF DropFilter, ReportOutcome
    <2>8. Framed'  BY <1>1, <1>2, <2>1, <2>2 DEF DropFilter, ReportOutcome
    <2>9. CompleteIsWhole' /\ Shown' /\ OutcomeMatchesWire'
      BY <1>1, <1>2, <2>1, <2>2 DEF DropFilter, ReportOutcome
    <2>10. WaiterIsParked' /\ NoStrandedWriter' /\ NoForgottenItems'
      BY <1>1, <1>2, <2>1, <2>2 DEF DropFilter, ReportOutcome
    <2> QED BY <2>3, <2>4, <2>5, <2>6, <2>7, <2>8, <2>9, <2>10
  <1>3. CASE ~Attached
    BY <1>1, <1>3 DEF DropFilter, ReportOutcome
  <1> QED BY <1>2, <1>3

-----------------------------------------------------------------------------
(* Steps that take. *)

\* The queue after its first item was taken.
Taken ==
  /\ stream' \in Streams
  /\ stream'.ended = stream.ended /\ stream'.cancelled = stream.cancelled
  /\ stream'.paused = stream.paused /\ stream'.waiter = stream.waiter
  /\ stream.items \in Seq(Items) /\ stream.items # << >> /\ stream.items[1] \in Items
  /\ Head(stream.items) = stream.items[1]
  /\ stream'.buffered_bytes = written - stream.items[1].upto
  /\ stream'.buffered_bytes =< stream.buffered_bytes
  /\ 1 \in 1 .. Len(stream.items) /\ Len(stream.items) \in Nat
  /\ Len(stream'.items) = Len(stream.items) - 1
  /\ \A i \in 1 .. Len(stream'.items) :
       i + 1 \in 1 .. Len(stream.items) /\ stream'.items[i] = stream.items[i + 1]
  /\ stream.items[1].from = sent
  /\ stream.items[1].kind # "chunk" => stream.items[1].upto = sent
  /\ Ordered(stream'.items, stream.items[1].upto, written)
  /\ stream.items[Len(stream.items)].upto = written

\* The item taken starts at the first byte not sent.
LEMMA TakeStep ==
  ASSUME IInv, Attached, CanTake(stream), stream' = TakeNext(stream)
  PROVE  Taken
  <1> DEFINE q == stream.items
  <1>1. q \in Seq(Items) /\ q # << >>  BY DEF CanTake, Streams, StreamsOf
  <1>2. Ordered(q, sent, written) /\ stream.buffered_bytes = written - sent  OBVIOUS
  <1>3. /\ Ordered(Tail(q), q[1].upto, written)
        /\ q[1].from = sent /\ sent =< q[1].upto /\ q[1].upto =< written
        /\ q[1].kind # "chunk" => q[1].upto = sent
    BY <1>1, <1>2, OrderedTail
  <1>4. /\ q[1] \in Items /\ Head(q) = q[1] /\ 1 \in 1 .. Len(q) /\ Len(q) \in Nat
        /\ Len(Tail(q)) = Len(q) - 1
        /\ \A i \in 1 .. Len(Tail(q)) : i + 1 \in 1 .. Len(q) /\ Tail(q)[i] = q[i + 1]
    BY <1>1
  <1>5. /\ TakeNext(stream) \in Streams
        /\ TakeNext(stream).items = Tail(q)
        /\ TakeNext(stream).buffered_bytes = stream.buffered_bytes - (q[1].upto - q[1].from)
        /\ TakeNext(stream).ended = stream.ended
        /\ TakeNext(stream).cancelled = stream.cancelled
        /\ TakeNext(stream).paused = stream.paused
        /\ TakeNext(stream).waiter = stream.waiter
    BY <1>2, <1>3, <1>4, TakeFacts DEF Streams, Items
  <1>6. q[Len(q)].upto = written  BY <1>1, <1>2 DEF Ordered
  <1>7. /\ stream'.buffered_bytes = written - q[1].upto
        /\ stream'.buffered_bytes =< stream.buffered_bytes
    BY <1>2, <1>3, <1>4, <1>5 DEF Items
  <1> QED BY <1>1, <1>3, <1>4, <1>5, <1>6, <1>7 DEF Taken

\* What is left behind the item taken is framed as before.
LEMMA TakeFramed ==
  ASSUME IInv, Attached, Taken
  PROVE  /\ filter' = "Streaming" => Framed'
         /\ \A i \in 1 .. Len(stream'.items) : stream'.items[i].kind = "end" => verdict = "done"
         /\ fiber \notin {"queued", "app"}
  <1>1. ASSUME filter' = "Streaming", NEW i \in 1 .. Len(stream'.items)
        PROVE  /\ stream'.items[i].kind # "head"
               /\ stream'.items[i].kind \in {"end", "failed"} =>
                    i = Len(stream'.items) /\ stream'.ended
    <2>1. /\ i + 1 \in 1 .. Len(stream.items) /\ i \in Nat \ {0}
          /\ stream'.items[i] = stream.items[i + 1] /\ stream'.ended = stream.ended
          /\ Len(stream'.items) = Len(stream.items) - 1
      BY <1>1 DEF Taken
    <2>2. /\ stream.items[i + 1].kind = "head" => i + 1 = 1
          /\ stream.items[i + 1].kind \in {"end", "failed"} =>
               i + 1 = Len(stream.items) /\ stream.ended
      BY <2>1
    <2> QED BY <2>1, <2>2
  <1>2. \A i \in 1 .. Len(stream'.items) : stream'.items[i].kind = "end" => verdict = "done"
    BY DEF Taken
  <1>3. fiber \notin {"queued", "app"}
    BY DEF Taken
  <1> QED BY <1>1, <1>2, <1>3

\* The head is sent, and whatever is behind it is in order.
LEMMA DrainHeadInv == IInv /\ DrainHead => IInv'
  <1> SUFFICES ASSUME IInv, DrainHead  PROVE IInv'
    OBVIOUS
  <1>1. Attached  BY DEF DrainHead
  <1>2. Taken  BY <1>1, TakeStep DEF DrainHead
  <1>3. /\ filter = "Waiting" /\ filter' = "Streaming" /\ wire' = "head"
        /\ stream.items[1].kind = "head" /\ sent' = sent
    BY <1>1, <1>2 DEF DrainHead, Taken, Items, ReportOutcome
  <1>4. Ordered(stream'.items, sent, written) /\ stream'.buffered_bytes = written - sent
    BY <1>2, <1>3 DEF DrainHead, Taken, Items, ReportOutcome
  <1>5. TypeOK'  BY <1>1, <1>2, <1>3, <1>4 DEF DrainHead, Taken, Items, ReportOutcome
  <1>6. WithinBudget' /\ CancelledHoldsNothing' /\ InOrder'
    BY <1>1, <1>2, <1>3, <1>4 DEF DrainHead, Taken, Items, ReportOutcome
  <1>7. Control'  BY <1>1, <1>2, <1>3, <1>4 DEF DrainHead, Taken, Items, ReportOutcome
  <1>8. Production'
    BY <1>1, <1>2, <1>3, TakeFramed DEF DrainHead, Taken, Items, ReportOutcome
  <1>9. HeadPending'  BY <1>1, <1>2, <1>3, <1>4 DEF DrainHead, Taken, Items, ReportOutcome
  <1>10. Framed'  BY <1>1, <1>2, <1>3, TakeFramed DEF DrainHead
  <1>11. CompleteIsWhole' /\ Shown' /\ OutcomeMatchesWire'
    BY <1>1, <1>2, <1>3, <1>4 DEF DrainHead, Taken, Items, ReportOutcome
  <1>12. WaiterIsParked' /\ NoStrandedWriter' /\ NoForgottenItems'
    BY <1>1, <1>2, <1>3, <1>4 DEF DrainHead, Taken, Items, ReportOutcome
  <1> QED BY <1>5, <1>6, <1>7, <1>8, <1>9, <1>10, <1>11, <1>12

\* A chunk is sent, and the next one starts where it stopped.
LEMMA DrainChunkInv == IInv /\ DrainChunk => IInv'
  <1> SUFFICES ASSUME IInv, DrainChunk  PROVE IInv'
    OBVIOUS
  <1>1. Attached  BY DEF DrainChunk
  <1>2. Taken  BY <1>1, TakeStep DEF DrainChunk
  <1>3. filter = "Streaming" /\ sent' = stream.items[1].upto
    <2>1. stream.items[1].kind = "chunk"
      BY <1>2 DEF DrainChunk, Taken, Items, ReportOutcome
    <2>2. filter = "Streaming"
      BY <1>1, <1>2, <2>1 DEF DrainChunk, Taken, Items, ReportOutcome
    <2> QED BY <1>2, <2>2 DEF DrainChunk, Taken, Items, ReportOutcome, Size
  <1>4. Ordered(stream'.items, sent', written) /\ stream'.buffered_bytes = written - sent'
    BY <1>2, <1>3 DEF DrainChunk, Taken, Items, ReportOutcome
  <1>5. TypeOK'  BY <1>1, <1>2, <1>3, <1>4 DEF DrainChunk, Taken, Items, ReportOutcome
  <1>6. WithinBudget' /\ CancelledHoldsNothing' /\ InOrder'
    BY <1>1, <1>2, <1>3, <1>4, MaxBufferedBytesAssumption DEF DrainChunk, Taken, Streams, StreamsOf
  <1>7. Control'  BY <1>1, <1>2, <1>3, <1>4 DEF DrainChunk, Taken, Items, ReportOutcome
  <1>8. Production'
    BY <1>1, <1>2, <1>3, TakeFramed DEF DrainChunk, Taken, Items, ReportOutcome
  <1>9. HeadPending'  BY <1>1, <1>2, <1>3, <1>4 DEF DrainChunk, Taken, Items, ReportOutcome
  <1>10. Framed'  BY <1>1, <1>2, <1>3, TakeFramed DEF DrainChunk
  <1>11. CompleteIsWhole' /\ Shown' /\ OutcomeMatchesWire'
    BY <1>1, <1>2, <1>3, <1>4 DEF DrainChunk, Taken, Items, ReportOutcome
  <1>12. WaiterIsParked' /\ NoStrandedWriter' /\ NoForgottenItems'
    BY <1>1, <1>2, <1>3, <1>4 DEF DrainChunk, Taken, Items, ReportOutcome
  <1> QED BY <1>5, <1>6, <1>7, <1>8, <1>9, <1>10, <1>11, <1>12

\* The end is reached with every byte sent, and with no writer parked.
LEMMA DrainEndInv == IInv /\ DrainEnd => IInv'
  <1> SUFFICES ASSUME IInv, DrainEnd  PROVE IInv'
    OBVIOUS
  <1>1. Attached  BY DEF DrainEnd
  <1>2. Taken  BY <1>1, TakeStep DEF DrainEnd
  <1>3. /\ filter = "Streaming" /\ stream.ended /\ verdict = "done"
        /\ Len(stream.items) = 1 /\ sent = written
    <2>1. stream.items[1].kind = "end" /\ 1 \in 1 .. Len(stream.items)
      BY <1>2 DEF DrainEnd, Taken
    <2>2. Len(stream.items) = 1 /\ stream.ended /\ verdict = "done"  BY <1>1, <2>1
    <2>3. filter = "Streaming"  BY <1>1, <2>1
    <2>4. sent = written  BY <1>2, <2>1, <2>2 DEF Taken
    <2> QED BY <2>2, <2>3, <2>4
  <1>4. stream.waiter = NoFiber
    BY <1>3
  <1>5. TypeOK'  BY <1>1, <1>2, <1>3, <1>4 DEF DrainEnd, Taken, Items, ReportOutcome
  <1>6. WithinBudget' /\ CancelledHoldsNothing' /\ InOrder'
    BY <1>1, <1>2, <1>3, <1>4 DEF DrainEnd, Taken, Items, ReportOutcome
  <1>7. Control'  BY <1>1, <1>2, <1>3, <1>4 DEF DrainEnd, Taken, Items, ReportOutcome
  <1>8. Production'  BY <1>1, <1>2, <1>3, <1>4 DEF DrainEnd, Taken, Items, ReportOutcome
  <1>9. HeadPending'  BY <1>1, <1>2, <1>3, <1>4 DEF DrainEnd, Taken, Items, ReportOutcome
  <1>10. Framed'  BY <1>1, <1>2, <1>3, <1>4 DEF DrainEnd, Taken, Items, ReportOutcome
  <1>11. CompleteIsWhole' /\ Shown' /\ OutcomeMatchesWire'
    BY <1>1, <1>2, <1>3, <1>4 DEF DrainEnd, Taken, Items, ReportOutcome
  <1>12. WaiterIsParked' /\ NoStrandedWriter' /\ NoForgottenItems'
    BY <1>1, <1>2, <1>3, <1>4 DEF DrainEnd, Taken, Items, ReportOutcome
  <1> QED BY <1>5, <1>6, <1>7, <1>8, <1>9, <1>10, <1>11, <1>12

\* The failure is reached with no writer parked.
LEMMA DrainFailedInv == IInv /\ DrainFailed => IInv'
  <1> SUFFICES ASSUME IInv, DrainFailed  PROVE IInv'
    OBVIOUS
  <1>1. Attached  BY DEF DrainFailed
  <1>2. Taken  BY <1>1, TakeStep DEF DrainFailed
  <1>3. stream.ended
    <2>1. stream.items[1].kind = "failed" /\ 1 \in 1 .. Len(stream.items)
      BY <1>2 DEF DrainFailed, Taken
    <2> QED BY <1>1, <2>1
  <1>4. stream.waiter = NoFiber
    BY <1>3
  <1>5. TypeOK'  BY <1>1, <1>2, <1>3, <1>4 DEF DrainFailed, Taken, Items, ReportOutcome
  <1>6. WithinBudget' /\ CancelledHoldsNothing' /\ InOrder'
    BY <1>1, <1>2, <1>3, <1>4 DEF DrainFailed, Taken, Items, ReportOutcome
  <1>7. Control'  BY <1>1, <1>2, <1>3, <1>4 DEF DrainFailed, Taken, Items, ReportOutcome
  <1>8. Production'  BY <1>1, <1>2, <1>3, <1>4 DEF DrainFailed, Taken, Items, ReportOutcome
  <1>9. HeadPending'  BY <1>1, <1>2, <1>3, <1>4 DEF DrainFailed, Taken, Items, ReportOutcome
  <1>10. Framed'  BY <1>1, <1>2, <1>3, <1>4 DEF DrainFailed, Taken, Items, ReportOutcome
  <1>11. CompleteIsWhole' /\ Shown' /\ OutcomeMatchesWire'
    BY <1>1, <1>2, <1>3, <1>4 DEF DrainFailed, Taken, Items, ReportOutcome
  <1>12. WaiterIsParked' /\ NoStrandedWriter' /\ NoForgottenItems'
    BY <1>1, <1>2, <1>3, <1>4 DEF DrainFailed, Taken, Items, ReportOutcome
  <1> QED BY <1>5, <1>6, <1>7, <1>8, <1>9, <1>10, <1>11, <1>12

-----------------------------------------------------------------------------
(* The specification keeps the invariant. *)

\* A request just submitted: nothing is queued, sent or owed.
LEMMA InitInv == Init => IInv
  <1> SUFFICES ASSUME Init  PROVE IInv
    OBVIOUS
  <1>1. stream \in Streams
    BY DEF Init, EmptyStream, Streams, StreamsOf
  <1>2. /\ stream.items = << >> /\ stream.buffered_bytes = 0 /\ stream.waiter = NoFiber
        /\ ~stream.cancelled /\ ~stream.ended /\ Len(stream.items) = 0
    BY DEF Init, EmptyStream
  <1>3. Ordered(stream.items, 0, 0)
    BY <1>2 DEF Ordered
  <1>4. TypeOK
    BY <1>1, Zenon DEF Init
  <1> QED BY <1>2, <1>3, <1>4, MaxBufferedBytesAssumption DEF Init

\* Every step of the three parties, and every stuttering step, preserves it.
LEMMA NextInv == IInv /\ [Next]_vars => IInv'
  <1> SUFFICES ASSUME IInv, [Next]_vars  PROVE IInv'
    OBVIOUS
  <1>1. CASE FiberStep
    BY <1>1, FiberYieldInv, PushHeadInv, RaiseInv, YieldChunkInv, CloseWriteInv,
       BodyReturnsInv, WriteLoopInv, ParkOnSinkInv, ParkEndsInv, StoreInv, PushLastInv,
       WakeInv, ParkInterruptedInv, ReleaseInv, Zenon DEF FiberStep
  <1>2. CASE ReactorStep
    BY <1>2, WakeByteInv, HeartbeatInv, TakeWakeupsInv, ResolveWaiterInv,
       DrainSocketInv, ReceiveInv, StopCancelledInv, StopAllInv, Zenon DEF ReactorStep
  <1>3. CASE WorkerStep
    BY <1>3, OnScheduledInv, DrainHeadInv, DrainChunkInv, DrainEndInv, DrainFailedInv,
       DrainStopsInv, CheckWriterInv, OweInv, SignalInv, CommitResumeInv, Zenon DEF WorkerStep
  <1>4. CASE FiberResume \/ AboveHighWatermark \/ BelowLowWatermark \/ DropFilter
    BY <1>4, FiberResumeInv, AboveHighWatermarkInv, BelowLowWatermarkInv, DropFilterInv, Zenon
  <1>5. CASE Ended \/ UNCHANGED vars
    BY <1>5 DEF Ended, vars
  <1> QED BY <1>1, <1>2, <1>3, <1>4, <1>5 DEF Next

HIDE DEF IInv, TypeOK, FiberStates, WithinBudget, CancelledHoldsNothing, Control,
         Production, HeadPending, InOrder, Framed, CompleteIsWhole, Shown,
         OutcomeMatchesWire, WaiterIsParked, NoStrandedWriter, NoForgottenItems,
         FiberAt, ReactorAt, Attached, queueVars, rubyVars, workerVars

\* The inductive invariant holds of every behaviour.
THEOREM Invariant == Spec => []IInv
  <1> QED BY InitInv, NextInv, PTL DEF Spec

\* Every variable keeps its type: the queue stays a queue of well-formed items
\* with a natural byte count, whatever the interleaving.
THEOREM TypeAlways == Spec => []TypeOK
  <1>1. IInv => TypeOK  BY DEF IInv
  <1> QED BY <1>1, Invariant, PTL

\* The queue never holds more body bytes than its limit, for any limit and any
\* chunk size (push_chunk_within_budget).
THEOREM WithinBudgetAlways == Spec => []WithinBudget
  <1>1. IInv => WithinBudget  BY DEF IInv
  <1> QED BY <1>1, Invariant, PTL

\* While a client is attached, the bytes accepted and not yet sent are exactly the
\* bytes queued, in order: none is lost, repeated or reordered (src/stream.rs).
THEOREM InOrderAlways == Spec => []InOrder
  <1>1. IInv => InOrder  BY DEF IInv
  <1> QED BY <1>1, Invariant, PTL

\* A client that sees a complete response has every byte the application yielded
\* of a body it ended itself (drain_stream).
THEOREM CompleteIsWholeAlways == Spec => []CompleteIsWhole
  <1>1. IInv => CompleteIsWhole  BY DEF IInv
  <1> QED BY <1>1, Invariant, PTL

\* Each request is counted once, as what its client saw (report_outcome).
THEOREM OutcomeMatchesWireAlways == Spec => []OutcomeMatchesWire
  <1>1. IInv => OutcomeMatchesWire  BY DEF IInv
  <1> QED BY <1>1, Invariant, PTL

\* A handle is in the waiter slot only while its fiber is blocked on it, and a
\* parked fiber's handle is there (Park.on, resolve_wakeups).
THEOREM WaiterIsParkedAlways == Spec => []WaiterIsParked
  <1>1. IInv => WaiterIsParked  BY DEF IInv
  <1> QED BY <1>1, Invariant, PTL

\* No writer is left parked on a queue that has room again or is cancelled without
\* its wakeup owed or a step due that owes it (drain_stream, Drop, wake_body).
THEOREM NoStrandedWriterAlways == Spec => []NoStrandedWriter
  <1>1. IInv => NoStrandedWriter  BY DEF IInv
  <1> QED BY <1>1, Invariant, PTL

\* What is queued for an attached client that reads is always due to be drained
\* (StreamHandle::wake, the watermark callbacks).
THEOREM NoForgottenItemsAlways == Spec => []NoForgottenItems
  <1>1. IInv => NoForgottenItems  BY DEF IInv
  <1> QED BY <1>1, Invariant, PTL

\* The head leads whatever is queued for an attached client and nothing follows
\* the end or the failure, whoever pushes them (push, take_next).
THEOREM FramedAlways == Spec => []Framed
  <1>1. IInv => Framed  BY DEF IInv
  <1> QED BY <1>1, Invariant, PTL

\* A queue whose client has left stays empty and accounts for no byte, while the
\* fiber may still be writing to it (cancel).
THEOREM CancelledHoldsNothingAlways == Spec => []CancelledHoldsNothing
  <1>1. IInv => CancelledHoldsNothing  BY DEF IInv
  <1> QED BY <1>1, Invariant, PTL
=============================================================================
