--------------------------- MODULE ReactorProofs ----------------------------
(***************************************************************************)
(* The fiber runtime (src/fiber.rs, ruby/fiber_runner.rb) for any set of   *)
(* requests and any ceiling.  The invariants a run checks on a small       *)
(* instance follow from one inductive invariant, IInv, whose parts say     *)
(* where a request and its permit can be, what the runtime thread may be   *)
(* doing, and which commands the wake socket still answers for.            *)
(*                                                                         *)
(* Reactor takes and returns a permit in one step.  The last part is about *)
(* the same counter at the grain of its atomic operations (src/budget.rs,  *)
(* module Budget), which shows that one step is enough.                    *)
(***************************************************************************)
EXTENDS Reactor, Budget, TLAPS, FiniteSetTheorems

\* The requests whose fiber is not done with its permit.
Working == {r \in Requests : task[r] \in {"running", "unwinding", "releasing"}}

\* The counter is the number of leases, within the ceiling.
Leases == used = Cardinality(permit) /\ used =< Capacity

\* A call is queued once.
CallsOnce(q) ==
  \A i, j \in DOMAIN q : q[i].kind = "call" /\ q[i] = q[j] => i = j

\* A permit is held by exactly the requests that are about to be sent, queued,
\* about to start, or at work, and a request is in one of these places only.
Whereabouts ==
  /\ CallsOnce(channel)
  /\ permit = {r \in Requests : call[r] = "admitted"} \cup QueuedCalls \cup batch \cup Working
  /\ \A r \in Requests :
       /\ r \in QueuedCalls => r \notin batch /\ task[r] = "none"
       /\ r \in batch => task[r] = "none"
       /\ call[r] \in {"new", "admitted"} => r \notin QueuedCalls \cup batch /\ task[r] = "none"

\* What may hold in each place of the runtime thread.
Thread ==
  /\ cpu # Loop => /\ cpu \in Working
                   /\ reactor \in {"start", "sweep", "stopAll", "wait", "waitAll"}
  /\ \A r \in Requests : task[r] = "releasing" => cpu = r
  /\ todo \subseteq Running \ {cpu}
  /\ reactor \notin {"sweep", "stopAll"} => todo = {}
  /\ reactor \notin {"receive", "start"} => batch = {}
  /\ hook = "batch" => reactor \in {"receive", "start"}
  /\ reactor \in {"cleanup", "ended", "leaked", "retained"} => Running = {} /\ hook # "running"

\* How far the shutdown is.
Closing ==
  /\ closing => reactor \notin {"wait", "drain", "receive", "retained"}
  /\ reactor \in {"stopAll", "waitAll"} => closing \/ hook = "raised"
  /\ hook = "raised" => reactor \in {"stopAll", "waitAll", "leaked"}
  /\ ack => reactor \in {"cleanup", "ended", "leaked"}
  /\ closing \/ reactor \in {"cleanup", "ended"} => closer # "idle"
  /\ (\E i \in DOMAIN channel : channel[i].kind = "shutdown") => closer # "idle"
  /\ rx = "dropped" <=> reactor = "ended"
  /\ reactor = "ended" => channel = << >>
  /\ closer = "joined" => reactor = "ended"

\* A fiber that is done has told how the request ended, unless nobody listens.
Answered ==
  \A r \in Requests : task[r] \in {"releasing", "done"} => answer[r] # "none" \/ r \in gone

\* From the end of a drain to the next one, an empty socket means that whoever
\* sent what is queued has not signalled it yet.
Doorbell ==
  reactor \in {"start", "sweep", "wait"} /\ ~closing /\ ~socket =>
    \A i \in DOMAIN channel : Unsignalled(channel[i])

\* The inductive invariant.
IInv == TypeOK /\ Leases /\ Whereabouts /\ Thread /\ Closing /\ Answered /\ Doorbell

USE DEF workerVars, adminVars, closerVars, loopVars, ReactorAt, FiberAt

-----------------------------------------------------------------------------
(* The channel and the counter. *)

\* What the calls of a queue are.
Calls(q) == {r \in Requests : \E i \in DOMAIN q : q[i] = CallCommand(r)}

\* A command tells what it is and, when it is a call, for which request.
LEMMA CommandKinds ==
  /\ \A c \in Commands :
       /\ c.kind \in {"call", "admin", "drain", "shutdown"}
       /\ c.kind = "call" => c.request \in Requests /\ c = CallCommand(c.request)
  /\ \A r \in Requests :
       CallCommand(r) \in Commands /\ CallCommand(r).kind = "call" /\ CallCommand(r).request = r
  /\ AdminCommand \in Commands /\ AdminCommand.kind = "admin"
  /\ DrainCommand \in Commands /\ DrainCommand.kind = "drain"
  /\ ShutdownCommand \in Commands /\ ShutdownCommand.kind = "shutdown"
  <1>1. \A r \in Requests :
       CallCommand(r) \in Commands /\ CallCommand(r).kind = "call" /\ CallCommand(r).request = r
    BY DEF Commands, CallCommand
  <1>2. /\ AdminCommand \in Commands /\ AdminCommand.kind = "admin"
        /\ DrainCommand \in Commands /\ DrainCommand.kind = "drain"
        /\ ShutdownCommand \in Commands /\ ShutdownCommand.kind = "shutdown"
    BY DEF Commands, AdminCommand, DrainCommand, ShutdownCommand
  <1>3. ASSUME NEW c \in Commands
        PROVE  /\ c.kind \in {"call", "admin", "drain", "shutdown"}
               /\ c.kind = "call" => c.request \in Requests /\ c = CallCommand(c.request)
    <2>1. c \in {AdminCommand, DrainCommand, ShutdownCommand} \/ \E r \in Requests : c = CallCommand(r)
      BY DEF Commands
    <2>2. CASE \E r \in Requests : c = CallCommand(r)
      <3>1. PICK r \in Requests : c = CallCommand(r)  BY <2>2
      <3>2. c.kind = "call" /\ c.request = r  BY <1>1, <3>1
      <3> QED BY <3>1, <3>2
    <2>3. CASE c \in {AdminCommand, DrainCommand, ShutdownCommand}
      <3>1. c.kind \in {"admin", "drain", "shutdown"}  BY <1>2, <2>3
      <3>2. c.kind # "call"  BY <3>1
      <3> QED BY <3>1, <3>2
    <2> QED BY <2>1, <2>2, <2>3
  <1> QED BY <1>1, <1>2, <1>3

\* command_tx.send puts one command behind the others.
LEMMA Enqueued ==
  ASSUME NEW q \in Seq(Commands), NEW c \in Commands
  PROVE  /\ Append(q, c) \in Seq(Commands)
         /\ \A i \in DOMAIN Append(q, c) :
              \/ i \in DOMAIN q /\ Append(q, c)[i] = q[i]
              \/ i \notin DOMAIN q /\ i = Len(q) + 1 /\ Append(q, c)[i] = c
         /\ \A i \in DOMAIN q : i \in DOMAIN Append(q, c)
         /\ Len(q) + 1 \in DOMAIN Append(q, c)
  OBVIOUS

\* A call that is not queued yet is then queued once.
LEMMA EnqueuedCall ==
  ASSUME NEW q \in Seq(Commands), CallsOnce(q), NEW r \in Requests, r \notin Calls(q)
  PROVE  CallsOnce(Append(q, CallCommand(r))) /\ Calls(Append(q, CallCommand(r))) = Calls(q) \cup {r}
  <1> DEFINE c == CallCommand(r)
             p == Append(q, c)
  <1>1. c \in Commands  BY CommandKinds
  <1>2. /\ \A i \in DOMAIN p : \/ i \in DOMAIN q /\ p[i] = q[i]
                               \/ i \notin DOMAIN q /\ i = Len(q) + 1 /\ p[i] = c
        /\ \A i \in DOMAIN q : i \in DOMAIN p
        /\ Len(q) + 1 \in DOMAIN p
    BY <1>1, Enqueued
  <1>3. \A i \in DOMAIN q : q[i] # c  BY DEF Calls
  <1>4. \A s \in Requests : CallCommand(s) = c => s = r  BY CommandKinds
  <1> HIDE DEF c, p
  <1>5. CallsOnce(p)  BY <1>2, <1>3 DEF CallsOnce
  <1>6. Calls(p) = Calls(q) \cup {r}
    <2>1. \A s \in Requests : s \in Calls(p) => s \in Calls(q) \cup {r}  BY <1>2, <1>4 DEF Calls
    <2>2. \A s \in Calls(q) : s \in Calls(p)
      <3> TAKE s \in Calls(q)
      <3>1. PICK i \in DOMAIN q : q[i] = CallCommand(s)  BY DEF Calls
      <3>2. i \in DOMAIN p /\ p[i] = q[i]  BY <1>2
      <3> QED BY <3>1, <3>2 DEF Calls
    <2>3. r \in Calls(p)
      <3>1. Len(q) + 1 \in DOMAIN p /\ p[Len(q) + 1] = CallCommand(r)
        <4>1. Len(q) + 1 \notin DOMAIN q  OBVIOUS
        <4> QED BY <4>1, <1>2 DEF c
      <3> QED BY <3>1 DEF Calls
    <2> QED BY <2>1, <2>2, <2>3 DEF Calls
  <1> QED BY <1>5, <1>6 DEF c, p

\* Another command changes nothing for the calls.
LEMMA EnqueuedOther ==
  ASSUME NEW q \in Seq(Commands), CallsOnce(q), NEW c \in Commands, c.kind # "call"
  PROVE  CallsOnce(Append(q, c)) /\ Calls(Append(q, c)) = Calls(q)
  <1> DEFINE p == Append(q, c)
  <1>1. /\ \A i \in DOMAIN p : \/ i \in DOMAIN q /\ p[i] = q[i]
                               \/ i \notin DOMAIN q /\ i = Len(q) + 1 /\ p[i] = c
        /\ \A i \in DOMAIN q : i \in DOMAIN p
    BY Enqueued
  <1>2. \A s \in Requests : CallCommand(s) # c  BY CommandKinds
  <1> HIDE DEF p
  <1>3. CallsOnce(p)  BY <1>1 DEF CallsOnce
  <1>4. \A s \in Requests : s \in Calls(p) <=> s \in Calls(q)
    <2> TAKE s \in Requests
    <2>1. ASSUME s \in Calls(p) PROVE s \in Calls(q)  BY <2>1, <1>1, <1>2 DEF Calls
    <2>2. ASSUME s \in Calls(q) PROVE s \in Calls(p)
      <3>1. PICK i \in DOMAIN q : q[i] = CallCommand(s)  BY <2>2 DEF Calls
      <3>2. i \in DOMAIN p /\ p[i] = q[i]
        BY <1>1
      <3> QED BY <3>1, <3>2 DEF Calls
    <2> QED BY <2>1, <2>2
  <1> QED BY <1>3, <1>4 DEF p, Calls

\* try_recv takes the first command and leaves the others, once each.
LEMMA Dequeued ==
  ASSUME NEW q \in Seq(Commands), q # << >>
  PROVE  /\ Head(q) \in Commands /\ Tail(q) \in Seq(Commands) /\ Head(q) = q[1] /\ 1 \in DOMAIN q
         /\ \A i \in DOMAIN Tail(q) : i + 1 \in DOMAIN q /\ i + 1 # 1 /\ Tail(q)[i] = q[i + 1]
         /\ \A i \in DOMAIN q \ {1} : i - 1 \in DOMAIN Tail(q) /\ Tail(q)[i - 1] = q[i]
  OBVIOUS

\* The call taken, if it is one, is the only one that leaves the queue.
LEMMA DequeuedCalls ==
  ASSUME NEW q \in Seq(Commands), q # << >>, CallsOnce(q)
  PROVE  /\ CallsOnce(Tail(q))
         /\ Calls(Tail(q)) =
              IF Head(q).kind = "call" THEN Calls(q) \ {Head(q).request} ELSE Calls(q)
         /\ Head(q).kind = "call" => Head(q).request \in Calls(q)
  <1> DEFINE t == Tail(q)
             h == Head(q)
  <1>1. /\ h \in Commands /\ h = q[1] /\ 1 \in DOMAIN q
        /\ \A i \in DOMAIN t : i \in Nat /\ i + 1 \in DOMAIN q /\ i + 1 # 1 /\ t[i] = q[i + 1]
        /\ \A i \in DOMAIN q \ {1} : i - 1 \in DOMAIN t /\ t[i - 1] = q[i]
    BY Dequeued
  <1> HIDE DEF t, h
  <1>2. CallsOnce(t)
    <2> SUFFICES ASSUME NEW i \in DOMAIN t, NEW j \in DOMAIN t, t[i].kind = "call", t[i] = t[j]
                 PROVE  i = j
      BY DEF CallsOnce
    <2>1. i + 1 = j + 1  BY <1>1, SMTT(30) DEF CallsOnce
    <2> QED BY <2>1, <1>1
  <1>3. \A s \in Calls(t) : s \in Calls(q) /\ (h.kind = "call" => s # h.request)
    <2> TAKE s \in Calls(t)
    <2>1. PICK i \in DOMAIN t : t[i] = CallCommand(s)  BY DEF Calls
    <2>2. i + 1 \in DOMAIN q /\ q[i + 1] = CallCommand(s) /\ i + 1 # 1  BY <2>1, <1>1
    <2>3. s \in Requests  BY DEF Calls
    <2>4. s \in Calls(q)  BY <2>2, <2>3 DEF Calls
    <2>5. ASSUME h.kind = "call", s = h.request PROVE FALSE
      <3>1. q[1] = q[i + 1] /\ q[1].kind = "call"  BY <2>5, <2>2, <1>1, CommandKinds
      <3> QED BY <3>1, <2>2, <1>1 DEF CallsOnce
    <2> QED BY <2>4, <2>5
  <1>4. \A s \in Calls(q) : s \in Calls(t) \/ h = CallCommand(s)
    <2> TAKE s \in Calls(q)
    <2>1. PICK i \in DOMAIN q : q[i] = CallCommand(s)  BY DEF Calls
    <2>2. CASE i = 1  BY <2>1, <2>2, <1>1
    <2>3. CASE i # 1
      <3>1. i - 1 \in DOMAIN t /\ t[i - 1] = CallCommand(s)  BY <2>1, <2>3, <1>1
      <3> QED BY <3>1 DEF Calls
    <2> QED BY <2>2, <2>3
  <1>5. h.kind = "call" => h.request \in Calls(q)  BY <1>1, CommandKinds DEF Calls
  <1>6. \A s \in Requests : h = CallCommand(s) => h.kind = "call" /\ s = h.request  BY CommandKinds
  <1>7. \A s \in Calls(q) : s \in Requests  BY DEF Calls
  <1>8. Calls(t) = IF h.kind = "call" THEN Calls(q) \ {h.request} ELSE Calls(q)
    <2>1. CASE h.kind = "call"
      <3>1. \A s : s \in Calls(t) <=> s \in Calls(q) \ {h.request}  BY <2>1, <1>3, <1>4, <1>6, <1>7
      <3> QED BY <2>1, <3>1
    <2>2. CASE h.kind # "call"
      <3>1. \A s : s \in Calls(t) <=> s \in Calls(q)  BY <2>2, <1>3, <1>4, <1>6, <1>7
      <3> QED BY <2>2, <3>1
    <2> QED BY <2>1, <2>2
  <1> QED BY <1>2, <1>5, <1>8 DEF t, h

\* Dropping leases takes each one off the counter once.
LEMMA LeasesDropped ==
  ASSUME NEW S, TypeOK, Leases, DropLease(S)
  PROVE  Leases' /\ permit' = permit \ S /\ used' \in Nat
  <1>1. IsFiniteSet(permit)  BY ReactorAssumption, FS_Subset DEF TypeOK
  <1>2. /\ IsFiniteSet(permit \cap S) /\ IsFiniteSet(permit \ S)
        /\ Cardinality(permit \cap S) \in Nat /\ Cardinality(permit \ S) \in Nat
        /\ Cardinality(permit \ S) = Cardinality(permit) - Cardinality(permit \cap S)
    BY <1>1, FS_Intersection, FS_Difference, FS_CardinalityType
  <1> QED BY <1>2, ReactorAssumption DEF TypeOK, Leases, DropLease

-----------------------------------------------------------------------------
(* The steps.  Each changes a few variables; what does not speak of them    *)
(* carries over.                                                            *)

\* A part of the invariant carries over a step that leaves its variables alone.
LEMMA Untouched ==
  /\ Leases /\ UNCHANGED <<permit, used>> => Leases'
  /\ Whereabouts /\ UNCHANGED <<channel, permit, call, batch, task>> => Whereabouts'
  /\ Thread /\ UNCHANGED <<cpu, reactor, task, todo, batch, hook>> => Thread'
  /\ Closing /\ UNCHANGED <<closing, reactor, hook, ack, closer, channel, rx>> => Closing'
  /\ Answered /\ UNCHANGED <<task, answer, gone>> => Answered'
  /\ Doorbell /\ UNCHANGED <<reactor, closing, socket, channel, call, admin, hook, closer>>
       => Doorbell'
  BY DEF Leases, Whereabouts, QueuedCalls, Working, Thread, Running, Closing, Answered,
         Doorbell, Unsignalled

\* The calls queued are those of the channel.
LEMMA QueuedAreCalls ==
  QueuedCalls = Calls(channel) /\ QueuedCalls' = Calls(channel')
  BY DEF QueuedCalls, Calls

-----------------------------------------------------------------------------
(* Envoy workers. *)

\* Budget::try_acquire counts a permit no request held, or refuses.
LEMMA AdmitStep ==
  ASSUME NEW r \in Requests, IInv, Admit(r)
  PROVE  IInv'
  <1>1. TypeOK'  BY DEF IInv, TypeOK, Admit
  <1>2. Leases'
    <2>1. CASE used < Capacity
      <3>1. IsFiniteSet(permit)  BY ReactorAssumption, FS_Subset DEF IInv, TypeOK
      <3>2. r \notin permit  BY DEF IInv, Whereabouts, Admit, Working
      <3>3. Cardinality(permit \cup {r}) = Cardinality(permit) + 1  BY <3>1, <3>2, FS_AddElement
      <3>4. used' = used + 1 /\ permit' = permit \cup {r}  BY <2>1 DEF Admit
      <3> QED BY <2>1, <3>3, <3>4, ReactorAssumption DEF IInv, TypeOK, Leases
    <2>2. CASE ~(used < Capacity)  BY <2>2 DEF IInv, Leases, Admit
    <2> QED BY <2>1, <2>2
  <1>3. Whereabouts'  BY DEF IInv, TypeOK, Admit, Whereabouts, QueuedCalls, Working
  <1>4. Doorbell'
    <2>1. \A c \in Commands : Unsignalled(c) => Unsignalled(c)'
      BY CommandKinds DEF IInv, TypeOK, Admit, Unsignalled
    <2> QED BY <2>1 DEF IInv, TypeOK, Admit, Doorbell
  <1>5. Thread' /\ Closing' /\ Answered'  BY Untouched DEF IInv, Admit
  <1> QED BY <1>1, <1>2, <1>3, <1>4, <1>5 DEF IInv

\* command_tx.send: the call moves, with its permit, from its caller to the queue;
\* a closed channel gives the permit back.
LEMMA SendStep ==
  ASSUME NEW r \in Requests, IInv, Send(r)
  PROVE  IInv'
  <1>1. /\ r \notin QueuedCalls /\ CallCommand(r) \in Commands
        /\ CallCommand(r).kind = "call" /\ CallCommand(r).request = r
    BY CommandKinds DEF IInv, Whereabouts, Send
  <1>2. rx # "open" => Leases' /\ permit' = permit \ {r} /\ used' \in Nat
    BY LeasesDropped DEF IInv, Send
  <1>3. /\ CallsOnce(channel') /\ channel' \in Seq(Commands)
        /\ QueuedCalls' = IF rx = "open" THEN QueuedCalls \cup {r} ELSE QueuedCalls
    <2>1. channel \in Seq(Commands) /\ CallsOnce(channel)  BY DEF IInv, TypeOK, Whereabouts
    <2>2. CASE rx = "open"
      <3>1. channel' = Append(channel, CallCommand(r))  BY <2>2 DEF Send
      <3> QED BY <1>1, <2>1, <2>2, <3>1, EnqueuedCall, Enqueued, QueuedAreCalls
    <2>3. CASE rx # "open"
      <3>1. channel' = channel  BY <2>3 DEF Send
      <3> QED BY <2>1, <2>3, <3>1, QueuedAreCalls
    <2> QED BY <2>2, <2>3
  <1>4. TypeOK'  BY <1>2, <1>3, SMTT(30) DEF IInv, TypeOK, Send
  <1>5. Leases'  BY <1>2 DEF IInv, Leases, Send
  <1>6. Whereabouts'  BY <1>1, <1>2, <1>3 DEF IInv, TypeOK, Whereabouts, Working, Send
  <1>7. Closing'  BY <1>1, Enqueued DEF IInv, TypeOK, Closing, Send
  <1>8. Doorbell'
    <2>1. \A c \in Commands : Unsignalled(c) => Unsignalled(c)'
      BY CommandKinds DEF IInv, TypeOK, Send, Unsignalled
    <2>2. CASE rx = "open"
      <3>1. Unsignalled(CallCommand(r))'  BY <2>2, <1>1 DEF IInv, TypeOK, Send, Unsignalled
      <3> QED BY <2>1, <2>2, <3>1, <1>1, Enqueued DEF IInv, TypeOK, Send, Doorbell
    <2>3. CASE rx # "open"  BY <2>3 DEF IInv, TypeOK, Send, Closing, Doorbell
    <2> QED BY <2>2, <2>3
  <1>9. Thread' /\ Answered'  BY Untouched DEF IInv, Send, DropLease
  <1> QED BY <1>4, <1>5, <1>6, <1>7, <1>8, <1>9 DEF IInv

\* wake::signal makes the command signalled and the socket readable at once.
LEMMA SignalStep ==
  ASSUME NEW r \in Requests, IInv, Signal(r)
  PROVE  IInv'
  <1>1. TypeOK'  BY DEF IInv, TypeOK, Signal
  <1>2. Whereabouts'  BY DEF IInv, TypeOK, Signal, Whereabouts, QueuedCalls, Working
  <1>3. Doorbell'  BY DEF IInv, TypeOK, Signal, Closing, Doorbell
  <1>4. Leases' /\ Thread' /\ Closing' /\ Answered'  BY Untouched DEF IInv, Signal
  <1> QED BY <1>1, <1>2, <1>3, <1>4 DEF IInv

\* A client that leaves touches only what it will not be told.
LEMMA LeaveStep ==
  ASSUME NEW r \in Requests, IInv, Leave(r)
  PROVE  IInv'
  <1>1. TypeOK'  BY DEF IInv, TypeOK, Leave
  <1>2. Answered'  BY DEF IInv, TypeOK, Leave, Answered
  <1>3. Leases' /\ Whereabouts' /\ Thread' /\ Closing' /\ Doorbell'
    BY Untouched DEF IInv, Leave
  <1> QED BY <1>1, <1>2, <1>3 DEF IInv

-----------------------------------------------------------------------------
(* Envoy's main thread. *)

\* An admin command is queued, unsignalled.
LEMMA AdminSendStep ==
  ASSUME IInv, AdminSend
  PROVE  IInv'
  <1>1. AdminCommand \in Commands /\ AdminCommand.kind = "admin"
    BY CommandKinds
  <1>2. CallsOnce(channel') /\ QueuedCalls' = QueuedCalls
    BY <1>1, EnqueuedOther, QueuedAreCalls DEF IInv, TypeOK, Whereabouts, AdminSend
  <1>3. TypeOK'  BY <1>1, Enqueued DEF IInv, TypeOK, AdminSend
  <1>4. Whereabouts'  BY <1>2 DEF IInv, Whereabouts, Working, AdminSend
  <1>5. Closing'  BY <1>1, Enqueued DEF IInv, TypeOK, Closing, AdminSend
  <1>6. Doorbell'
    <2>1. \A c \in Commands : Unsignalled(c) => Unsignalled(c)'
      BY CommandKinds DEF IInv, TypeOK, AdminSend, Unsignalled
    <2>2. channel' # channel => Unsignalled(AdminCommand)'  BY <1>1 DEF AdminSend, Unsignalled
    <2>3. \A i \in DOMAIN channel' :
         channel'[i] = AdminCommand \/ (i \in DOMAIN channel /\ channel'[i] = channel[i])
      BY <1>1, Enqueued DEF IInv, TypeOK, AdminSend
    <2> QED BY <2>1, <2>2, <2>3 DEF IInv, TypeOK, AdminSend, Doorbell
  <1>7. Leases' /\ Thread' /\ Answered'  BY Untouched DEF IInv, AdminSend
  <1> QED BY <1>3, <1>4, <1>5, <1>6, <1>7 DEF IInv

\* Its signal makes the socket readable.
LEMMA AdminSignalStep ==
  ASSUME IInv, AdminSignal
  PROVE  IInv'
  <1>1. TypeOK'  BY DEF IInv, TypeOK, AdminSignal
  <1>2. Doorbell'  BY DEF IInv, TypeOK, AdminSignal, Closing, Doorbell
  <1>3. Leases' /\ Whereabouts' /\ Thread' /\ Closing' /\ Answered'
    BY Untouched DEF IInv, AdminSignal
  <1> QED BY <1>1, <1>2, <1>3 DEF IInv

\* The admin caller stops waiting; its command was signalled already.
LEMMA AdminReturnsStep ==
  ASSUME IInv, AdminReturns
  PROVE  IInv'
  <1>1. TypeOK'  BY DEF IInv, TypeOK, AdminReturns
  <1>2. Doorbell'  BY DEF IInv, TypeOK, AdminReturns, Doorbell, Unsignalled
  <1>3. Leases' /\ Whereabouts' /\ Thread' /\ Closing' /\ Answered'
    BY Untouched DEF IInv, AdminReturns
  <1> QED BY <1>1, <1>2, <1>3 DEF IInv

\* The drain command is queued, unsignalled.
LEMMA DrainStep ==
  ASSUME IInv, Drain
  PROVE  IInv'
  <1>1. DrainCommand \in Commands /\ DrainCommand.kind = "drain"
    BY CommandKinds
  <1>2. CallsOnce(channel') /\ QueuedCalls' = QueuedCalls
    BY <1>1, EnqueuedOther, QueuedAreCalls DEF IInv, TypeOK, Whereabouts, Drain
  <1>3. TypeOK'  BY <1>1, Enqueued DEF IInv, TypeOK, Drain
  <1>4. Whereabouts'  BY <1>2 DEF IInv, Whereabouts, Working, Drain
  <1>5. Thread'  BY DEF IInv, TypeOK, Drain, Thread, Working, Running
  <1>6. Closing'  BY <1>1, Enqueued DEF IInv, TypeOK, Closing, Drain
  <1>7. Doorbell'
    <2>1. \A c \in Commands : Unsignalled(c) => Unsignalled(c)'
      BY CommandKinds DEF IInv, TypeOK, Drain, Unsignalled
    <2>2. channel' # channel => Unsignalled(DrainCommand)'  BY <1>1 DEF Drain, Unsignalled
    <2>3. \A i \in DOMAIN channel' :
         channel'[i] = DrainCommand \/ (i \in DOMAIN channel /\ channel'[i] = channel[i])
      BY <1>1, Enqueued DEF IInv, TypeOK, Drain
    <2> QED BY <2>1, <2>2, <2>3 DEF IInv, TypeOK, Drain, Doorbell
  <1>8. Leases' /\ Answered'  BY Untouched DEF IInv, Drain
  <1> QED BY <1>3, <1>4, <1>5, <1>6, <1>7, <1>8 DEF IInv

\* Its signal makes the socket readable.
LEMMA DrainSignalStep ==
  ASSUME IInv, DrainSignal
  PROVE  IInv'
  <1>1. TypeOK'  BY DEF IInv, TypeOK, DrainSignal
  <1>2. Thread'  BY DEF IInv, TypeOK, DrainSignal, Thread, Working, Running
  <1>3. Closing'  BY DEF IInv, TypeOK, DrainSignal, Closing
  <1>4. Doorbell'  BY DEF IInv, TypeOK, DrainSignal, Closing, Doorbell
  <1>5. Leases' /\ Whereabouts' /\ Answered'  BY Untouched DEF IInv, DrainSignal
  <1> QED BY <1>1, <1>2, <1>3, <1>4, <1>5 DEF IInv

\* The shutdown command is queued only by a closer that is then no longer idle.
LEMMA ShutdownSendStep ==
  ASSUME IInv, ShutdownSend
  PROVE  IInv'
  <1>1. ShutdownCommand \in Commands /\ ShutdownCommand.kind = "shutdown"
    BY CommandKinds
  <1>2. CallsOnce(channel') /\ QueuedCalls' = QueuedCalls
    BY <1>1, EnqueuedOther, QueuedAreCalls DEF IInv, TypeOK, Whereabouts, ShutdownSend
  <1>3. TypeOK'  BY <1>1, Enqueued DEF IInv, TypeOK, ShutdownSend
  <1>4. Whereabouts'  BY <1>2 DEF IInv, Whereabouts, Working, ShutdownSend
  <1>5. Closing'  BY <1>1, Enqueued DEF IInv, TypeOK, Closing, ShutdownSend
  <1>6. Doorbell'
    <2>1. \A c \in Commands : Unsignalled(c) => Unsignalled(c)'
      BY CommandKinds DEF IInv, TypeOK, ShutdownSend, Unsignalled
    <2>2. channel' # channel => Unsignalled(ShutdownCommand)'  BY <1>1 DEF ShutdownSend, Unsignalled
    <2>3. \A i \in DOMAIN channel' :
         channel'[i] = ShutdownCommand \/ (i \in DOMAIN channel /\ channel'[i] = channel[i])
      BY <1>1, Enqueued DEF IInv, TypeOK, ShutdownSend
    <2> QED BY <2>1, <2>2, <2>3 DEF IInv, TypeOK, ShutdownSend, Doorbell
  <1>7. Leases' /\ Thread' /\ Answered'  BY Untouched DEF IInv, ShutdownSend
  <1> QED BY <1>3, <1>4, <1>5, <1>6, <1>7 DEF IInv

\* Its signal makes the socket readable.
LEMMA ShutdownSignalStep ==
  ASSUME IInv, ShutdownSignal
  PROVE  IInv'
  <1>1. TypeOK'  BY DEF IInv, TypeOK, ShutdownSignal
  <1>2. Closing'  BY DEF IInv, TypeOK, ShutdownSignal, Closing
  <1>3. Doorbell'  BY DEF IInv, TypeOK, ShutdownSignal, Closing, Doorbell
  <1>4. Leases' /\ Whereabouts' /\ Thread' /\ Answered'
    BY Untouched DEF IInv, ShutdownSignal
  <1> QED BY <1>1, <1>2, <1>3, <1>4 DEF IInv

\* The closer returns joined only from a thread that ended.
LEMMA ShutdownReturnsStep ==
  ASSUME IInv, ShutdownReturns
  PROVE  IInv'
  <1>1. TypeOK'  BY DEF IInv, TypeOK, ShutdownReturns
  <1>2. Closing'  BY DEF IInv, TypeOK, ShutdownReturns, Closing
  <1>3. Doorbell'  BY DEF IInv, TypeOK, ShutdownReturns, Doorbell, Unsignalled
  <1>4. Leases' /\ Whereabouts' /\ Thread' /\ Answered'
    BY Untouched DEF IInv, ShutdownReturns
  <1> QED BY <1>1, <1>2, <1>3, <1>4 DEF IInv

-----------------------------------------------------------------------------
(* The fibers. *)

\* A fiber that yields is not releasing.
LEMMA FiberYieldStep ==
  ASSUME NEW r \in Requests, IInv, FiberYield(r)
  PROVE  IInv'
  <1>1. TypeOK'  BY DEF IInv, TypeOK, FiberYield
  <1>2. Thread'
    BY ReactorAssumption DEF IInv, TypeOK, FiberYield, Thread, Working, Running
  <1>3. Leases' /\ Whereabouts' /\ Closing' /\ Answered' /\ Doorbell'
    BY Untouched DEF IInv, FiberYield
  <1> QED BY <1>1, <1>2, <1>3 DEF IInv

\* A fiber is resumed where no sweep is under way.
LEMMA FiberResumeStep ==
  ASSUME NEW r \in Requests, IInv, FiberResume(r)
  PROVE  IInv'
  <1>1. TypeOK'  BY DEF IInv, TypeOK, FiberResume
  <1>2. Thread'
    BY ReactorAssumption DEF IInv, TypeOK, FiberResume, Thread, Working, Running
  <1>3. Leases' /\ Whereabouts' /\ Closing' /\ Answered' /\ Doorbell'
    BY Untouched DEF IInv, FiberResume
  <1> QED BY <1>1, <1>2, <1>3 DEF IInv

\* The fiber tells how the request ended before it releases.
LEMMA FiberEndsStep ==
  ASSUME NEW r \in Requests, IInv, FiberEnds(r)
  PROVE  IInv'
  <1>1. TypeOK'  BY DEF IInv, TypeOK, FiberEnds, Answer
  <1>2. Whereabouts'
    BY DEF IInv, TypeOK, FiberEnds, Answer, Whereabouts, QueuedCalls, Working
  <1>3. Thread'  BY DEF IInv, TypeOK, FiberEnds, Answer, Thread, Working, Running
  <1>4. Answered'  BY DEF IInv, TypeOK, FiberEnds, Answer, Answered
  <1>5. Leases' /\ Closing' /\ Doorbell'  BY Untouched DEF IInv, FiberEnds, Answer
  <1> QED BY <1>1, <1>2, <1>3, <1>4, <1>5 DEF IInv

\* So does a stopped one.
LEMMA FiberUnwoundStep ==
  ASSUME NEW r \in Requests, IInv, FiberUnwound(r)
  PROVE  IInv'
  <1>1. TypeOK'  BY DEF IInv, TypeOK, FiberUnwound, Answer
  <1>2. Whereabouts'
    BY DEF IInv, TypeOK, FiberUnwound, Answer, Whereabouts, QueuedCalls, Working
  <1>3. Thread'  BY DEF IInv, TypeOK, FiberUnwound, Answer, Thread, Working, Running
  <1>4. Answered'  BY DEF IInv, TypeOK, FiberUnwound, Answer, Answered
  <1>5. Leases' /\ Closing' /\ Doorbell'  BY Untouched DEF IInv, FiberUnwound, Answer
  <1> QED BY <1>1, <1>2, <1>3, <1>4, <1>5 DEF IInv

\* The permit goes with the last thing the fiber does.
LEMMA FiberReleasesStep ==
  ASSUME NEW r \in Requests, IInv, FiberReleases(r)
  PROVE  IInv'
  <1>1. TypeOK'  BY LeasesDropped DEF IInv, TypeOK, FiberReleases
  <1>2. Leases'  BY LeasesDropped DEF IInv, FiberReleases
  <1>3. Whereabouts'
    BY LeasesDropped DEF IInv, TypeOK, Whereabouts, QueuedCalls, Working, FiberReleases
  <1>4. Thread'
    BY ReactorAssumption DEF IInv, TypeOK, FiberReleases, DropLease, Thread, Working, Running
  <1>5. Answered'  BY DEF IInv, TypeOK, FiberReleases, DropLease, Answered
  <1>6. Closing' /\ Doorbell'  BY Untouched DEF IInv, FiberReleases, DropLease
  <1> QED BY <1>1, <1>2, <1>3, <1>4, <1>5, <1>6 DEF IInv

\* The drain hooks return.
LEMMA HookReturnsStep ==
  ASSUME IInv, HookReturns
  PROVE  IInv'
  <1>1. TypeOK'  BY DEF IInv, TypeOK, HookReturns
  <1>2. Thread'  BY DEF IInv, TypeOK, HookReturns, Thread, Working, Running
  <1>3. Closing'  BY DEF IInv, TypeOK, HookReturns, Closing
  <1>4. Doorbell'  BY DEF IInv, TypeOK, HookReturns, Doorbell, Unsignalled
  <1>5. Leases' /\ Whereabouts' /\ Answered'  BY Untouched DEF IInv, HookReturns
  <1> QED BY <1>1, <1>2, <1>3, <1>4, <1>5 DEF IInv

-----------------------------------------------------------------------------
(* The reactor. *)

\* A pass over the channel starts with a byte in the socket ...
LEMMA WakeByteStep ==
  ASSUME IInv, WakeByte
  PROVE  IInv'
  <1>1. TypeOK'  BY DEF IInv, TypeOK, WakeByte
  <1>2. Thread'  BY DEF IInv, TypeOK, WakeByte, Thread, Working, Running
  <1>3. Closing'  BY DEF IInv, TypeOK, WakeByte, Closing
  <1>4. Doorbell'  BY DEF IInv, TypeOK, WakeByte, Doorbell, Unsignalled
  <1>5. Leases' /\ Whereabouts' /\ Answered'  BY Untouched DEF IInv, WakeByte
  <1> QED BY <1>1, <1>2, <1>3, <1>4, <1>5 DEF IInv

\* ... or at the deadline.
LEMMA HeartbeatStep ==
  ASSUME IInv, Heartbeat
  PROVE  IInv'
  <1>1. TypeOK'  BY DEF IInv, TypeOK, Heartbeat
  <1>2. Thread'  BY DEF IInv, TypeOK, Heartbeat, Thread, Working, Running
  <1>3. Closing'  BY DEF IInv, TypeOK, Heartbeat, Closing
  <1>4. Doorbell'  BY DEF IInv, TypeOK, Heartbeat, Doorbell, Unsignalled
  <1>5. Leases' /\ Whereabouts' /\ Answered'  BY Untouched DEF IInv, Heartbeat
  <1> QED BY <1>1, <1>2, <1>3, <1>4, <1>5 DEF IInv

\* The socket is emptied before the channel is.
LEMMA DrainSocketStep ==
  ASSUME IInv, DrainSocket
  PROVE  IInv'
  <1>1. TypeOK'
    <2>1. socket' \in BOOLEAN  BY DEF DrainSocket
    <2> QED BY <2>1 DEF IInv, TypeOK, DrainSocket
  <1>2. Thread'  BY DEF IInv, TypeOK, DrainSocket, Thread, Working, Running
  <1>3. Closing'  BY DEF IInv, TypeOK, DrainSocket, Closing
  <1>4. Doorbell'  BY DEF IInv, TypeOK, DrainSocket, Doorbell, Unsignalled
  <1>5. Leases' /\ Whereabouts' /\ Answered'  BY Untouched DEF IInv, DrainSocket
  <1> QED BY <1>1, <1>2, <1>3, <1>4, <1>5 DEF IInv

\* try_recv: the command goes from the channel to the batch; the pass ends with
\* the channel empty, or with a shutdown that no wait follows.
LEMMA ReceiveStep ==
  ASSUME IInv, Receive
  PROVE  IInv'
  <1>1. CASE channel = << >>
    <2>1. TypeOK' /\ Whereabouts' /\ Thread'
      BY <1>1 DEF IInv, TypeOK, Whereabouts, QueuedCalls, Working, Thread, Running, Receive
    <2>2. Closing' /\ Doorbell'  BY <1>1 DEF IInv, TypeOK, Closing, Doorbell, Receive
    <2>3. Leases' /\ Answered'  BY Untouched DEF IInv, Receive
    <2> QED BY <2>1, <2>2, <2>3 DEF IInv
  <1>2. ASSUME channel # << >> PROVE IInv'
    <2> DEFINE c == Head(channel)
    <2>1. /\ c \in Commands /\ channel' \in Seq(Commands) /\ c = channel[1] /\ 1 \in DOMAIN channel
          /\ \A i \in DOMAIN channel' : i + 1 \in DOMAIN channel /\ channel'[i] = channel[i + 1]
      BY <1>2, Dequeued, ZenonT(40) DEF IInv, TypeOK, Receive
    <2>2. /\ CallsOnce(channel')
          /\ QueuedCalls' = IF c.kind = "call" THEN QueuedCalls \ {c.request} ELSE QueuedCalls
          /\ c.kind = "call" => c.request \in QueuedCalls
      BY <1>2, DequeuedCalls, QueuedAreCalls DEF IInv, TypeOK, Whereabouts, Receive
    <2>3. /\ c.kind \in {"call", "admin", "drain", "shutdown"}
          /\ c.kind = "call" => c.request \in Requests
      BY <2>1, CommandKinds
    <2>4. /\ ReactorAt("receive") /\ channel' = Tail(channel)
          /\ batch' = IF c.kind = "call" THEN batch \cup {c.request} ELSE batch
          /\ adminTask' = IF c.kind = "admin" THEN "batch" ELSE adminTask
          /\ hook' = IF c.kind = "drain" THEN "batch" ELSE hook
          /\ closing' = (c.kind = "shutdown")
          /\ reactor' = IF c.kind = "shutdown" THEN "start" ELSE "receive"
          /\ UNCHANGED <<workerVars, answer, task, admin, adminReply, closerVars, rx, socket, todo, cpu>>
      BY <1>2 DEF Receive
    <2> HIDE DEF c
    <2>5. TypeOK'
      <3>1. closing' \in BOOLEAN  BY <2>4
      <3> QED BY <2>1, <2>3, <2>4, <3>1 DEF IInv, TypeOK
    <2>6. Whereabouts'
      <3>1. Working' = Working  BY <2>4 DEF Working
      <3> QED BY <2>2, <2>3, <2>4, <3>1 DEF IInv, TypeOK, Whereabouts
    <2>7. Thread'  BY <2>3, <2>4 DEF IInv, TypeOK, Thread, Running, Working
    <2>8. Closing'
      <3>1. closing' => closer # "idle"  BY <2>1, <2>4 DEF IInv, Closing
      <3>2. (\E i \in DOMAIN channel' : channel'[i].kind = "shutdown") => closer # "idle"
        BY <2>1 DEF IInv, Closing
      <3> QED BY <2>3, <2>4, <3>1, <3>2 DEF IInv, TypeOK, Closing
    <2>9. Doorbell'  BY <2>3, <2>4 DEF IInv, Doorbell
    <2>10. Leases' /\ Answered'  BY <2>4, Untouched DEF IInv
    <2> QED BY <2>5, <2>6, <2>7, <2>8, <2>9, <2>10 DEF IInv
  <1> QED BY <1>1, <1>2

\* The call goes from the batch to its fiber, which has the thread.
LEMMA StartTaskStep ==
  ASSUME NEW r \in Requests, IInv, StartTask(r)
  PROVE  IInv'
  <1>1. TypeOK'  BY DEF IInv, TypeOK, StartTask
  <1>2. Whereabouts'  BY DEF IInv, TypeOK, StartTask, Whereabouts, QueuedCalls, Working
  <1>3. Thread'
    BY ReactorAssumption DEF IInv, TypeOK, StartTask, Thread, Working, Running
  <1>4. Answered'  BY DEF IInv, TypeOK, StartTask, Answered
  <1>5. Leases' /\ Closing' /\ Doorbell'  BY Untouched DEF IInv, StartTask
  <1> QED BY <1>1, <1>2, <1>3, <1>4, <1>5 DEF IInv

\* The admin answer touches nothing else.
LEMMA StartAdminStep ==
  ASSUME IInv, StartAdmin
  PROVE  IInv'
  <1>1. TypeOK'  BY DEF IInv, TypeOK, StartAdmin
  <1>2. Leases' /\ Whereabouts' /\ Thread' /\ Closing' /\ Answered' /\ Doorbell'
    BY Untouched DEF IInv, StartAdmin
  <1> QED BY <1>1, <1>2 DEF IInv

\* The drain hooks start once the calls have.
LEMMA StartHookStep ==
  ASSUME IInv, StartHook
  PROVE  IInv'
  <1>1. TypeOK'  BY DEF IInv, TypeOK, StartHook
  <1>2. Thread'  BY DEF IInv, TypeOK, StartHook, Thread, Working, Running
  <1>3. Closing'  BY DEF IInv, TypeOK, StartHook, Closing
  <1>4. Doorbell'  BY DEF IInv, TypeOK, StartHook, Doorbell, Unsignalled
  <1>5. Leases' /\ Whereabouts' /\ Answered'  BY Untouched DEF IInv, StartHook
  <1> QED BY <1>1, <1>2, <1>3, <1>4, <1>5 DEF IInv

\* The sweep is over the tasks running when it starts.
LEMMA BeginSweepStep ==
  ASSUME IInv, BeginSweep
  PROVE  IInv'
  <1>1. TypeOK'
    <2>1. todo' \subseteq Requests  BY DEF BeginSweep, Running
    <2> QED BY <2>1 DEF IInv, TypeOK, BeginSweep
  <1>2. Thread'
    BY ReactorAssumption DEF IInv, TypeOK, BeginSweep, Thread, Working, Running
  <1>3. Closing'  BY DEF IInv, TypeOK, BeginSweep, Closing, Running
  <1>4. Doorbell'  BY DEF IInv, TypeOK, BeginSweep, Doorbell, Unsignalled, Running
  <1>5. Leases' /\ Whereabouts' /\ Answered'  BY Untouched DEF IInv, BeginSweep
  <1> QED BY <1>1, <1>2, <1>3, <1>4, <1>5 DEF IInv

\* A task the sweep stops was running and has the thread while it unwinds.
LEMMA SweepCancelledStep ==
  ASSUME NEW r \in Requests, IInv, SweepCancelled(r)
  PROVE  IInv'
  <1>1. TypeOK'  BY DEF IInv, TypeOK, SweepCancelled, Visit
  <1>2. Whereabouts'
    <2>1. Working' = Working /\ (\A s \in Requests : task[s] = "none" <=> task'[s] = "none")
      BY DEF IInv, TypeOK, Thread, Running, Working, SweepCancelled, Visit
    <2> QED BY <2>1 DEF IInv, Whereabouts, QueuedCalls, SweepCancelled, Visit
  <1>3. Thread'
    BY ReactorAssumption DEF IInv, TypeOK, SweepCancelled, Visit, Thread, Working, Running
  <1>4. Answered'  BY DEF IInv, TypeOK, SweepCancelled, Visit, Answered
  <1>5. Leases' /\ Closing' /\ Doorbell'  BY Untouched DEF IInv, SweepCancelled, Visit
  <1> QED BY <1>1, <1>2, <1>3, <1>4, <1>5 DEF IInv

\* The same for the sweep of a shutdown.
LEMMA SweepAllStep ==
  ASSUME NEW r \in Requests, IInv, SweepAll(r)
  PROVE  IInv'
  <1>1. TypeOK'  BY DEF IInv, TypeOK, SweepAll, Visit
  <1>2. Whereabouts'
    <2>1. Working' = Working /\ (\A s \in Requests : task[s] = "none" <=> task'[s] = "none")
      BY DEF IInv, TypeOK, Thread, Running, Working, SweepAll, Visit
    <2> QED BY <2>1 DEF IInv, Whereabouts, QueuedCalls, SweepAll, Visit
  <1>3. Thread'
    BY ReactorAssumption DEF IInv, TypeOK, SweepAll, Visit, Thread, Working, Running
  <1>4. Answered'  BY DEF IInv, TypeOK, SweepAll, Visit, Answered
  <1>5. Leases' /\ Closing' /\ Doorbell'  BY Untouched DEF IInv, SweepAll, Visit
  <1> QED BY <1>1, <1>2, <1>3, <1>4, <1>5 DEF IInv

\* The reactor waits again only when no shutdown was seen.
LEMMA EndSweepStep ==
  ASSUME IInv, EndSweep
  PROVE  IInv'
  <1>1. TypeOK'
    <2>1. todo' \subseteq Requests  BY DEF EndSweep, Running
    <2> QED BY <2>1 DEF IInv, TypeOK, EndSweep
  <1>2. Thread'
    BY ReactorAssumption DEF IInv, TypeOK, EndSweep, Thread, Working, Running
  <1>3. Closing'  BY DEF IInv, TypeOK, EndSweep, Closing, Running
  <1>4. Doorbell'  BY DEF IInv, TypeOK, EndSweep, Doorbell, Unsignalled, Running
  <1>5. Leases' /\ Whereabouts' /\ Answered'  BY Untouched DEF IInv, EndSweep
  <1> QED BY <1>1, <1>2, <1>3, <1>4, <1>5 DEF IInv

\* Every task was told to stop.
LEMMA EndStopAllStep ==
  ASSUME IInv, EndStopAll
  PROVE  IInv'
  <1>1. TypeOK'  BY DEF IInv, TypeOK, EndStopAll
  <1>2. Thread'  BY DEF IInv, TypeOK, EndStopAll, Thread, Working, Running
  <1>3. Closing'  BY DEF IInv, TypeOK, EndStopAll, Closing
  <1>4. Doorbell'  BY DEF IInv, TypeOK, EndStopAll, Doorbell, Unsignalled
  <1>5. Leases' /\ Whereabouts' /\ Answered'  BY Untouched DEF IInv, EndStopAll
  <1> QED BY <1>1, <1>2, <1>3, <1>4, <1>5 DEF IInv

\* The acknowledgement comes with no task and no hook left.
LEMMA AckShutdownStep ==
  ASSUME IInv, AckShutdown
  PROVE  IInv'
  <1>1. TypeOK'  BY DEF IInv, TypeOK, AckShutdown
  <1>2. Thread'  BY DEF IInv, TypeOK, AckShutdown, Thread, Working, Running
  <1>3. Closing'  BY DEF IInv, TypeOK, AckShutdown, Closing, Running
  <1>4. Doorbell'  BY DEF IInv, TypeOK, AckShutdown, Doorbell, Unsignalled, Running
  <1>5. Leases' /\ Whereabouts' /\ Answered'  BY Untouched DEF IInv, AckShutdown
  <1> QED BY <1>1, <1>2, <1>3, <1>4, <1>5 DEF IInv

\* The receiver goes with the calls queued in it, and they with their permits.
LEMMA DropReceiverStep ==
  ASSUME IInv, DropReceiver
  PROVE  IInv'
  <1>1. TypeOK'  BY LeasesDropped DEF IInv, TypeOK, DropReceiver
  <1>2. Leases'  BY LeasesDropped DEF IInv, DropReceiver
  <1>3. Whereabouts'
    <2>1. permit' = permit \ QueuedCalls  BY LeasesDropped DEF IInv, DropReceiver
    <2>2. QueuedCalls' = {} /\ CallsOnce(channel')  BY DEF DropReceiver, QueuedCalls, CallsOnce
    <2>3. \A r \in QueuedCalls : call[r] # "admitted" /\ r \notin batch /\ r \notin Working
                                 /\ r \in Requests
      BY DEF IInv, Whereabouts, Working, QueuedCalls
    <2>4. Working' = Working  BY DEF Working, DropReceiver
    <2> QED BY <2>1, <2>2, <2>3, <2>4 DEF IInv, TypeOK, Whereabouts, DropReceiver
  <1>4. Thread'  BY DEF IInv, TypeOK, DropReceiver, DropLease, Thread, Working, Running
  <1>5. Closing'  BY DEF IInv, TypeOK, DropReceiver, DropLease, Closing
  <1>6. Doorbell'  BY DEF IInv, TypeOK, DropReceiver, DropLease, Doorbell, Unsignalled
  <1>7. Answered'  BY Untouched DEF IInv, DropReceiver, DropLease
  <1> QED BY <1>1, <1>2, <1>3, <1>4, <1>5, <1>6, <1>7 DEF IInv

\* An error that leaves the event loop stops the tasks.
LEMMA ReactorFailsStep ==
  ASSUME IInv, ReactorFails
  PROVE  IInv'
  <1>1. TypeOK'
    <2>1. todo' \subseteq Requests  BY DEF ReactorFails, Running
    <2> QED BY <2>1 DEF IInv, TypeOK, ReactorFails
  <1>2. Thread'
    BY ReactorAssumption DEF IInv, TypeOK, ReactorFails, Thread, Working, Running
  <1>3. Closing'  BY DEF IInv, TypeOK, ReactorFails, Closing, Running
  <1>4. Doorbell'  BY DEF IInv, TypeOK, ReactorFails, Doorbell, Unsignalled, Running
  <1>5. Leases' /\ Whereabouts' /\ Answered'  BY Untouched DEF IInv, ReactorFails
  <1> QED BY <1>1, <1>2, <1>3, <1>4, <1>5 DEF IInv

\* The retained runtime gives a call's permit back with its failure, and ends on a
\* shutdown.
LEMMA RetainedReceivesStep ==
  ASSUME IInv, RetainedReceives
  PROVE  IInv'
  <1> DEFINE c == Head(channel)
  <1>1. /\ c \in Commands /\ channel' \in Seq(Commands) /\ c = channel[1] /\ 1 \in DOMAIN channel
        /\ \A i \in DOMAIN channel' : i + 1 \in DOMAIN channel /\ channel'[i] = channel[i + 1]
    BY Dequeued DEF IInv, TypeOK, RetainedReceives
  <1>2. /\ CallsOnce(channel')
        /\ QueuedCalls' = IF c.kind = "call" THEN QueuedCalls \ {c.request} ELSE QueuedCalls
        /\ c.kind = "call" => c.request \in QueuedCalls
    BY DequeuedCalls, QueuedAreCalls DEF IInv, TypeOK, Whereabouts, RetainedReceives
  <1>3. /\ c.kind \in {"call", "admin", "drain", "shutdown"}
        /\ c.kind = "call" => c.request \in Requests
    BY <1>1, CommandKinds
  <1>4. (\E i \in DOMAIN channel' : channel'[i].kind = "shutdown") => closer # "idle"
    BY <1>1 DEF IInv, Closing
  <1>5. /\ ReactorAt("retained") /\ channel # << >>
        /\ UNCHANGED <<call, gone, task, admin, adminTask, closer, rx, socket, batch, todo,
                       closing, cpu, hook>>
    BY DEF RetainedReceives
  <1>6. CASE c.kind = "call"
    <2>1. /\ answer' = [answer EXCEPT ![c.request] = IF c.request \in gone THEN @ ELSE "failure"]
          /\ DropLease({c.request}) /\ UNCHANGED <<adminReply, ack, reactor>>
      BY <1>6 DEF RetainedReceives
    <2>2. Leases' /\ permit' = permit \ {c.request} /\ used' \in Nat  BY <2>1, LeasesDropped DEF IInv
    <2> HIDE DEF c
    <2>3. TypeOK'  BY <1>1, <1>3, <1>5, <1>6, <2>1, <2>2 DEF IInv, TypeOK
    <2>4. Whereabouts'
      <3>1. Working' = Working  BY <1>5 DEF Working
      <3> QED BY <1>2, <1>3, <1>5, <1>6, <2>2, <3>1 DEF IInv, TypeOK, Whereabouts, Working
    <2>5. Closing' /\ Doorbell'  BY <1>4, <1>5, <2>1 DEF IInv, Closing, Doorbell
    <2>6. Answered'  BY <1>3, <1>5, <1>6, <2>1 DEF IInv, TypeOK, Answered
    <2>7. Thread'  BY <1>5, <2>1, Untouched DEF IInv
    <2> QED BY <2>2, <2>3, <2>4, <2>5, <2>6, <2>7 DEF IInv
  <1>7. CASE c.kind \in {"admin", "drain", "shutdown"}
    <2>1. /\ UNCHANGED <<answer, permit, used>> /\ adminReply' \in {TRUE, adminReply}
          /\ IF c.kind = "shutdown" THEN ack' = TRUE /\ reactor' = "cleanup"
                                    ELSE UNCHANGED <<ack, reactor>>
      BY <1>7 DEF RetainedReceives
    <2> HIDE DEF c
    <2>2. TypeOK'
      <3>1. ack' \in BOOLEAN  BY <2>1 DEF IInv, TypeOK
      <3>2. adminReply' \in BOOLEAN  BY <2>1 DEF IInv, TypeOK
      <3> QED BY <1>1, <1>5, <2>1, <3>1, <3>2 DEF IInv, TypeOK
    <2>3. Whereabouts'
      <3>1. Working' = Working  BY <1>5 DEF Working
      <3> QED BY <1>2, <1>5, <1>7, <2>1, <3>1 DEF IInv, Whereabouts
    <2>4. Thread'  BY <1>5, <2>1 DEF IInv, Thread, Running, Working
    <2>5. Closing'
      <3>1. c.kind = "shutdown" => closer # "idle"  BY <1>1 DEF IInv, Closing
      <3> QED BY <1>4, <1>5, <2>1, <3>1 DEF IInv, TypeOK, Closing
    <2>6. Doorbell'  BY <1>5, <2>1 DEF IInv, Doorbell
    <2>7. Leases' /\ Answered'  BY <1>5, <2>1, Untouched DEF IInv
    <2> QED BY <2>2, <2>3, <2>4, <2>5, <2>6, <2>7 DEF IInv
  <1> QED BY <1>3, <1>6, <1>7

-----------------------------------------------------------------------------
(* The theorems. *)

\* The initial states satisfy the invariant.
LEMMA InitIInv == Init => IInv
  <1> SUFFICES ASSUME Init PROVE IInv
    OBVIOUS
  <1>1. Leases  BY ReactorAssumption, FS_EmptySet DEF Init, Leases
  <1>2. TypeOK
    <2>1. channel \in Seq(Commands)  BY DEF Init
    <2>2. adminReply \in BOOLEAN /\ ack \in BOOLEAN /\ socket \in BOOLEAN /\ closing \in BOOLEAN
      BY DEF Init
    <2> QED BY <2>1, <2>2 DEF Init, TypeOK
  <1>3. Whereabouts /\ Thread
    BY DEF Init, Whereabouts, CallsOnce, QueuedCalls, Working, Thread, Running
  <1>4. Closing /\ Answered /\ Doorbell  BY DEF Init, Closing, Answered, Doorbell
  <1> QED BY <1>1, <1>2, <1>3, <1>4 DEF IInv

\* Every step preserves it.
LEMMA NextIInv == IInv /\ [Next]_vars => IInv'
  <1> SUFFICES ASSUME IInv, [Next]_vars PROVE IInv'
    OBVIOUS
  <1>1. CASE ReactorPass
    BY <1>1, DrainSocketStep, ReceiveStep, StartAdminStep, StartHookStep, BeginSweepStep,
       EndSweepStep, EndStopAllStep, AckShutdownStep, DropReceiverStep, RetainedReceivesStep,
       StartTaskStep, SweepCancelledStep, SweepAllStep
    DEF ReactorPass
  <1>2. CASE WakeByte \/ Heartbeat \/ ReactorFails \/ HookReturns
    BY <1>2, WakeByteStep, HeartbeatStep, ReactorFailsStep, HookReturnsStep
  <1>3. CASE ClientStep
    BY <1>3, SendStep, SignalStep, AdminSignalStep, DrainSignalStep, ShutdownSignalStep
    DEF ClientStep
  <1>4. CASE AdminSend \/ AdminReturns \/ Drain \/ ShutdownSend \/ ShutdownReturns
    BY <1>4, AdminSendStep, AdminReturnsStep, DrainStep, ShutdownSendStep, ShutdownReturnsStep
  <1>5. CASE \E r \in Requests : Admit(r) \/ Leave(r) \/ FiberResume(r) \/ FiberStep(r)
    BY <1>5, AdmitStep, LeaveStep, FiberResumeStep, FiberYieldStep, FiberEndsStep,
       FiberUnwoundStep, FiberReleasesStep
    DEF FiberStep
  <1>6. CASE UNCHANGED vars
    <2>1. TypeOK'  BY <1>6 DEF IInv, TypeOK, vars
    <2> QED BY <1>6, <2>1, Untouched DEF IInv, vars
  <1> QED BY <1>1, <1>2, <1>3, <1>4, <1>5, <1>6 DEF Next

\* Every reachable state of the runtime satisfies the inductive invariant.
THEOREM Invariance == Spec => []IInv
  BY InitIInv, NextIInv, PTL DEF Spec

\* The variables keep the types the code gives them.
THEOREM TypeCorrect == Spec => []TypeOK
  <1>1. IInv => TypeOK  BY DEF IInv
  <1> QED BY <1>1, Invariance, PTL

\* The admission counter is the leases alive, within the ceiling, and whatever
\* may still produce a response holds its permit.
THEOREM PermitsCoverWork == Spec => []PermitCoversWork
  <1>1. IInv => PermitCoversWork
    BY DEF IInv, TypeOK, Leases, Whereabouts, Working, Running, PermitCoversWork
  <1> QED BY <1>1, Invariance, PTL

\* The reactor never blocks over a command whose wake byte is consumed.
THEOREM CommandsWake == Spec => []NoCommandAsleep
  <1>1. IInv => NoCommandAsleep
    BY DEF IInv, Closing, Doorbell, NoCommandAsleep
  <1> QED BY <1>1, Invariance, PTL

\* A shutdown is acknowledged only when nothing of the application runs and
\* every worker has been told how its request ended.
THEOREM AckIsQuiet == Spec => []AckMeansQuiet
  <1>1. IInv => AckMeansQuiet
    BY DEF IInv, TypeOK, Closing, Thread, Answered, AckMeansQuiet
  <1> QED BY <1>1, Invariance, PTL

\* When shutdown has returned, every permit out is of a caller that will be
\* refused.
THEOREM ShutdownFrees == Spec => []ShutdownReturnsPermits
  <1>1. ASSUME IInv, closer = "joined", NEW r \in permit PROVE call[r] = "admitted"
    <2>1. reactor = "ended" /\ channel = << >>  BY <1>1 DEF IInv, Closing
    <2>2. QueuedCalls = {}  BY <2>1 DEF QueuedCalls
    <2>3. batch = {} /\ Running = {} /\ cpu = Loop  BY <1>1, <2>1 DEF IInv, Thread
    <2>4. Working = {}  
      <3>1. \A s \in Requests : s \notin Running /\ cpu # s  BY <2>3, ReactorAssumption
      <3> QED BY <1>1, <3>1 DEF IInv, TypeOK, Thread, Running, Working
    <2> QED BY <2>2, <2>3, <2>4, <1>1 DEF IInv, Whereabouts
  <1>2. IInv => ShutdownReturnsPermits  BY <1>1 DEF ShutdownReturnsPermits
  <1> QED BY <1>2, Invariance, PTL

-----------------------------------------------------------------------------
(* The admission counter, operation by operation. *)

\* The inductive invariant of the counter.
CounterIInv == BudgetTypeOK /\ Exact

\* The pool counts with the Cardinality of this module.
LEMMA SameCardinality ==
  ASSUME NEW S PROVE Pool!Cardinality(S) = Cardinality(S)
  BY DEF Cardinality, IsFiniteSet, Pool!Cardinality, Pool!IsFiniteSet

\* The leases alive are finitely many.
LEMMA HoldersFinite == IsFiniteSet(Holders) /\ Cardinality(Holders) \in Nat
  <1>1. Holders \in SUBSET Threads
    BY DEF Holders
  <1>2. QED
    BY <1>1, FS_Subset, FS_CardinalityType, BudgetAssumption

\* A thread that takes a lease is one more holder; one that drops it, one less.
LEMMA HoldersStep ==
  ASSUME BudgetTypeOK, NEW t \in Threads
  PROVE  /\ (pc[t] # "held" /\ pc' = [pc EXCEPT ![t] = "held"]) =>
              /\ Holders' = Holders \cup {t}
              /\ Cardinality(Holders') = Cardinality(Holders) + 1
         /\ (pc[t] = "held" /\ pc' = [pc EXCEPT ![t] = "idle"]) =>
              /\ Holders' = Holders \ {t}
              /\ Cardinality(Holders') = Cardinality(Holders) - 1
              /\ Cardinality(Holders) > 0
         /\ (pc[t] # "held" /\ \E p \in {"idle", "try"} : pc' = [pc EXCEPT ![t] = p]) =>
              Holders' = Holders
  <1>1. ASSUME pc[t] # "held", pc' = [pc EXCEPT ![t] = "held"]
        PROVE  /\ Holders' = Holders \cup {t}
               /\ Cardinality(Holders') = Cardinality(Holders) + 1
    <2>1. Holders' = Holders \cup {t} /\ t \notin Holders
      BY <1>1 DEF Holders, BudgetTypeOK
    <2>2. QED
      BY <2>1, HoldersFinite, FS_AddElement
  <1>2. ASSUME pc[t] = "held", pc' = [pc EXCEPT ![t] = "idle"]
        PROVE  /\ Holders' = Holders \ {t}
               /\ Cardinality(Holders') = Cardinality(Holders) - 1
               /\ Cardinality(Holders) > 0
    <2>1. Holders' = Holders \ {t} /\ t \in Holders
      BY <1>2 DEF Holders, BudgetTypeOK
    <2>2. Cardinality(Holders') = Cardinality(Holders) - 1
      BY <2>1, HoldersFinite, FS_RemoveElement
    <2>3. Cardinality(Holders) # 0
      BY <2>1, HoldersFinite, FS_EmptySet
    <2>4. QED
      BY <2>1, <2>2, <2>3, HoldersFinite
  <1>3. ASSUME pc[t] # "held", NEW p \in {"idle", "try"}, pc' = [pc EXCEPT ![t] = p]
        PROVE  Holders' = Holders
    BY <1>3 DEF Holders, BudgetTypeOK
  <1>4. QED
    BY <1>1, <1>2, <1>3

\* The unused counter.
LEMMA CounterInit == BudgetInit => CounterIInv
  <1> SUFFICES ASSUME BudgetInit PROVE CounterIInv
    OBVIOUS
  <1>1. Holders = {}
    BY DEF BudgetInit, Holders
  <1>2. Exact
    BY <1>1, FS_EmptySet, BudgetAssumption DEF BudgetInit, Exact
  <1>3. BudgetTypeOK
    BY DEF BudgetInit, BudgetTypeOK
  <1>4. QED
    BY <1>2, <1>3 DEF CounterIInv

\* Every atomic operation preserves the invariant, whoever is between two.
LEMMA CounterNext == CounterIInv /\ [BudgetNext]_budgetVars => CounterIInv'
  <1> SUFFICES ASSUME CounterIInv, [BudgetNext]_budgetVars PROVE CounterIInv'
    OBVIOUS
  <1> USE DEF CounterIInv
  <1>0. Capacity \in Nat  BY BudgetAssumption
  <1>1. ASSUME NEW t \in Threads, Load(t) PROVE CounterIInv'
    <2>1. BudgetTypeOK'
      BY <1>1 DEF Load, BudgetTypeOK
    <2>2. Holders' = Holders
      BY <1>1, HoldersStep DEF Load
    <2>3. QED
      BY <1>1, <2>1, <2>2 DEF Load, Exact
  <1>2. ASSUME NEW t \in Threads, Refuse(t) PROVE CounterIInv'
    <2>1. BudgetTypeOK'
      BY <1>2 DEF Refuse, BudgetTypeOK
    <2>2. Holders' = Holders
      BY <1>2, HoldersStep DEF Refuse
    <2>3. QED
      BY <1>2, <2>1, <2>2 DEF Refuse, Exact
  <1>3. ASSUME NEW t \in Threads, Exchange(t) PROVE CounterIInv'
    <2>0. used' \in Nat
      BY <1>3 DEF Exchange, BudgetTypeOK
    <2>1. BudgetTypeOK'
      BY <1>3, <2>0 DEF Exchange, BudgetTypeOK
    <2>2. Cardinality(Holders') = Cardinality(Holders) + 1
      BY <1>3, HoldersStep DEF Exchange
    <2>3. used' =< Capacity
      BY <1>0, <1>3 DEF Exchange, Room, BudgetTypeOK
    <2>4. QED
      BY <1>3, <2>1, <2>2, <2>3 DEF Exchange, Exact
  <1>4. ASSUME NEW t \in Threads, ExchangeFails(t) PROVE CounterIInv'
    <2>1. BudgetTypeOK'
      BY <1>4 DEF ExchangeFails, BudgetTypeOK
    <2>2. Holders' = Holders
      BY <1>4 DEF ExchangeFails, Holders
    <2>3. QED
      BY <1>4, <2>1, <2>2 DEF ExchangeFails, Exact
  <1>5. ASSUME NEW t \in Threads, FetchSub(t) PROVE CounterIInv'
    <2>1. Cardinality(Holders') = Cardinality(Holders) - 1 /\ Cardinality(Holders) > 0
      BY <1>5, HoldersStep DEF FetchSub
    <2>2. used' \in Nat /\ used' = Cardinality(Holders') /\ used' =< Capacity
      BY <1>0, <1>5, <2>1, HoldersFinite DEF FetchSub, Exact, BudgetTypeOK
    <2>3. BudgetTypeOK'
      BY <1>5, <2>2 DEF FetchSub, BudgetTypeOK
    <2>4. QED
      BY <2>2, <2>3 DEF Exact
  <1>6. CASE UNCHANGED budgetVars
    BY <1>6 DEF budgetVars, BudgetTypeOK, Exact, Holders
  <1>7. QED
    BY <1>1, <1>2, <1>3, <1>4, <1>5, <1>6 DEF BudgetNext

\* The invariant holds throughout.
THEOREM CounterInvariance == BudgetSpec => []CounterIInv
  <1>1. BudgetInit => CounterIInv  BY CounterInit
  <1>2. CounterIInv /\ [BudgetNext]_budgetVars => CounterIInv'  BY CounterNext
  <1> QED BY <1>1, <1>2, PTL DEF BudgetSpec

\* The counter always is the number of leases alive and never passes the
\* ceiling (Budget::take, Lease::drop), for any threads and capacity.
THEOREM CounterExact == BudgetSpec => []Exact
  <1>1. BudgetSpec => []CounterIInv  BY CounterInvariance
  <1>2. CounterIInv => Exact  BY DEF CounterIInv
  <1> QED BY <1>1, <1>2, PTL

\* The counter is a usize that a release never takes below zero (the
\* debug_assert! of Lease::drop).
THEOREM CounterType == BudgetSpec => []BudgetTypeOK
  <1>1. BudgetSpec => []CounterIInv  BY CounterInvariance
  <1>2. CounterIInv => BudgetTypeOK  BY DEF CounterIInv
  <1> QED BY <1>1, <1>2, PTL

\* The compare-and-exchange loop implements the abstract permit pool: a
\* successful exchange acquires, a drop releases, and every other step, the
\* refusal included, leaves the pool alone.
THEOREM CounterImplementsPool == BudgetSpec => Implements
  <1>1. BudgetInit => Pool!Init
    BY DEF BudgetInit, Pool!Init, Holders
  <1>2. CounterIInv /\ [BudgetNext]_budgetVars => [Pool!Next]_Holders
    <2> SUFFICES ASSUME CounterIInv, [BudgetNext]_budgetVars
                 PROVE  [Pool!Next]_Holders
      OBVIOUS
    <2> USE DEF CounterIInv
    <2>1. ASSUME NEW t \in Threads, Exchange(t) PROVE Pool!Acquire(t)
      <3>1. Holders' = Holders \cup {t} /\ t \notin Holders
        BY <2>1, HoldersStep DEF Exchange, Holders
      <3>2. used < Capacity
        BY <2>1, BudgetAssumption DEF Exchange, Room, BudgetTypeOK
      <3>3. QED
        BY <3>1, <3>2, SameCardinality DEF Exact, Pool!Acquire
    <2>2. ASSUME NEW t \in Threads, FetchSub(t) PROVE Pool!Release(t)
      <3>1. Holders' = Holders \ {t} /\ t \in Holders
        BY <2>2, HoldersStep DEF FetchSub, Holders
      <3>2. QED
        BY <3>1 DEF Pool!Release
    <2>3. ASSUME NEW t \in Threads, Load(t) \/ Refuse(t)
          PROVE  Holders' = Holders
      BY <2>3, HoldersStep DEF Load, Refuse
    <2>4. ASSUME NEW t \in Threads, ExchangeFails(t) PROVE Holders' = Holders
      BY <2>4 DEF ExchangeFails, Holders
    <2>5. CASE UNCHANGED budgetVars
      BY <2>5 DEF budgetVars, Holders
    <2>6. QED
      BY <2>1, <2>2, <2>3, <2>4, <2>5 DEF BudgetNext, Pool!Next
  <1>3. BudgetSpec => []CounterIInv  BY CounterInvariance
  <1>4. QED
    BY <1>1, <1>2, <1>3, PTL DEF BudgetSpec, Implements, Pool!Spec
=============================================================================
