-------------------------- MODULE SyncRuntimeProofs -------------------------
(***************************************************************************)
(* The serial runtime and its filter, for any filters, callers and body    *)
(* limit: a request that was turned away is not run, and what the Ruby     *)
(* thread decides of a request is decided once and is what its filter      *)
(* sends, that is, the filter implements Answers.                          *)
(***************************************************************************)
EXTENDS SyncRuntime, TLAPS

Senders == Clients \cup {Owner}

\* The senders of the commands in a channel.
Members(q) == {x \in Senders : \E i \in 1 .. Len(q) : q[i] = x}

\* A sender sends once.
Once(q) == \A i, j \in 1 .. Len(q) : q[i] = q[j] => i = j

\* A command is in the channel once, after it was sent.
Channel ==
  /\ Once(queue)
  /\ \A x \in Senders :
       pc[x] \in {"starting", "new", "running", "collecting", "send"} => x \notin Members(queue)

\* The reply of the start is taken before there is anything to shut down.
Start ==
  /\ ruby = "starting" => pc[Owner] = "starting" /\ reply[Owner] = "none"
  /\ reply[Owner] \in {"ready", "failed"} => pc[Owner] = "starting"
  /\ \A c \in Callers : reply[c] \in {"none", "ok", "error"}

\* The Ruby thread is at a command it has taken.
Serving ==
  /\ ruby = "run" => current \in Clients
  /\ ruby = "commit" => current \in Filters
  /\ ruby \in {"run", "commit"} => current \in ran

\* The two answers of an application.
Told(f) == sent[f] \in {<<"ok">>, <<"error">>}

\* How far a request is: what was sent, decided and run of it.
Request ==
  \A f \in Filters :
    /\ pc[f] \in {"new", "collecting", "send", "signal", "waiting", "done", "destroyed"}
    /\ pc[f] \in {"new", "collecting", "send"} => f \notin ran
    /\ pc[f] \in {"new", "collecting", "send", "signal", "waiting"} => sent[f] = << >>
    /\ f \notin ran => slot[f] = "none" /\ f \notin event /\ ~Told(f)
    /\ f \in ran => f \notin Members(queue) /\ sent[f] # <<"too_large">>
    /\ sent[f] = <<"too_large">> => f \notin Members(queue)
    /\ f \in Members(queue) /\ sent[f] # << >> => ruby \in {"closed", "gone"}
    /\ ruby = "run" /\ current = f => slot[f] = "none" /\ f \notin event /\ ~Told(f)

IInv == TypeOK /\ Channel /\ Start /\ Serving /\ Request

USE DEF rubyVars, filterVars

-----------------------------------------------------------------------------
(* The channel, and what is sent downstream. *)

Outcomes == {"ok", "error", "missing", "too_large", "unavailable"}

\* A command goes behind the others ...
LEMMA Enqueued ==
  ASSUME NEW q \in Seq(Senders), Once(q), NEW x \in Senders, x \notin Members(q)
  PROVE  /\ Append(q, x) \in Seq(Senders) /\ Once(Append(q, x))
         /\ Members(Append(q, x)) = Members(q) \cup {x}
  <1> DEFINE p == Append(q, x)
  <1>1. /\ p \in Seq(Senders) /\ Len(p) = Len(q) + 1 /\ Len(q) \in Nat
        /\ \A i \in 1 .. Len(q) : p[i] = q[i]
        /\ p[Len(q) + 1] = x
    OBVIOUS
  <1> HIDE DEF p
  <1>2. \A i \in 1 .. Len(q) : q[i] # x /\ i \in 1 .. Len(p)  BY <1>1 DEF Members
  <1>3. \A i \in 1 .. Len(p) : i \in 1 .. Len(q) \/ i = Len(q) + 1  BY <1>1
  <1>4. Once(p)  BY <1>1, <1>2, <1>3 DEF Once
  <1>5. \A y \in Senders : y \in Members(p) <=> y \in Members(q) \/ y = x
    <2> TAKE y \in Senders
    <2>1. y \in Members(p) => y \in Members(q) \/ y = x  BY <1>1, <1>3 DEF Members
    <2>2. ASSUME y \in Members(q) PROVE y \in Members(p)
      <3>1. PICK i \in 1 .. Len(q) : q[i] = y  BY <2>2 DEF Members
      <3>2. i \in 1 .. Len(p) /\ p[i] = y  BY <1>1, <1>2, <3>1
      <3> QED BY <3>2 DEF Members
    <2>3. x \in Members(p)
      <3>1. Len(q) + 1 \in 1 .. Len(p)  BY <1>1
      <3> QED BY <1>1, <3>1 DEF Members
    <2> QED BY <2>1, <2>2, <2>3
  <1>6. Members(p) = Members(q) \cup {x}  BY <1>5 DEF Members
  <1> QED BY <1>1, <1>4, <1>6 DEF p

\* ... and the first one is taken, for good.
LEMMA Dequeued ==
  ASSUME NEW q \in Seq(Senders), Once(q), q # << >>
  PROVE  /\ Tail(q) \in Seq(Senders) /\ Once(Tail(q))
         /\ Head(q) \in Members(q) /\ Members(Tail(q)) = Members(q) \ {Head(q)}
  <1> DEFINE t == Tail(q)
             h == Head(q)
  <1>1. /\ t \in Seq(Senders) /\ h \in Senders /\ h = q[1]
        /\ Len(q) \in Nat \ {0} /\ Len(t) = Len(q) - 1
        /\ \A i \in 1 .. Len(t) : t[i] = q[i + 1]
    OBVIOUS
  <1>2. \A i \in 1 .. Len(t) : i + 1 \in 1 .. Len(q) /\ i + 1 # 1  BY <1>1
  <1>3. 1 \in 1 .. Len(q)  BY <1>1
  <1> HIDE DEF t, h
  <1>4. Once(t)
    <2> SUFFICES ASSUME NEW i \in 1 .. Len(t), NEW j \in 1 .. Len(t), t[i] = t[j]
                 PROVE  i = j
      BY DEF Once
    <2>1. i + 1 = j + 1  BY <1>1, <1>2 DEF Once
    <2> QED BY <2>1
  <1>5. h \in Members(q)  BY <1>1, <1>3 DEF Members
  <1>6. \A y \in Senders : y \in Members(t) <=> y \in Members(q) /\ y # h
    <2> TAKE y \in Senders
    <2>1. ASSUME y \in Members(t) PROVE y \in Members(q) /\ y # h
      <3>1. PICK i \in 1 .. Len(t) : t[i] = y  BY <2>1 DEF Members
      <3>2. i + 1 \in 1 .. Len(q) /\ q[i + 1] = y /\ i + 1 # 1  BY <1>1, <1>2, <3>1
      <3> QED BY <1>1, <1>3, <3>2 DEF Members, Once
    <2>2. ASSUME y \in Members(q), y # h PROVE y \in Members(t)
      <3>1. PICK i \in 1 .. Len(q) : q[i] = y  BY <2>2 DEF Members
      <3>2. i - 1 \in 1 .. Len(t) /\ (i - 1) + 1 = i  BY <1>1, <2>2, <3>1
      <3>3. t[i - 1] = y  BY <1>1, <3>1, <3>2
      <3> QED BY <3>2, <3>3 DEF Members
    <2> QED BY <2>1, <2>2
  <1>7. Members(t) = Members(q) \ {h}  BY <1>6 DEF Members
  <1> QED BY <1>1, <1>4, <1>5, <1>7 DEF t, h

\* An empty channel has no command.
LEMMA Emptied ==
  << >> \in Seq(Senders) /\ Once(<< >>) /\ Members(<< >>) = {}
  BY DEF Once, Members

\* The first outcome sent is the only one.
LEMMA FirstSent ==
  /\ \A v \in Outcomes : /\ Append(<< >>, v) = <<v>> /\ <<v>> # << >> /\ <<v>>[1] = v
                         /\ <<v>> \in Seq(Outcomes)
  /\ \A v, w \in Outcomes : <<v>> = <<w>> => v = w
  BY DEF Outcomes

\* A filter or a caller is not the owner, and not nobody.
LEMMA Names ==
  /\ \A f \in Filters : f \in Clients /\ f \in Senders /\ f # Owner /\ f \notin Callers
  /\ \A c \in Callers : c \in Clients /\ c \in Senders /\ c # Owner
  /\ Owner \in Senders /\ "none" \notin Clients
  BY NamesAssumption DEF Clients, Senders

\* Sending an outcome leaves a sequence of outcomes for each filter.
LEMMA Sends ==
  ASSUME TypeOK, NEW f \in Filters, NEW v \in Outcomes, sent' = [sent EXCEPT ![f] = Append(@, v)]
  PROVE  sent' \in [Filters -> Seq(Outcomes)]
  <1>1. sent \in [Filters -> Seq(Outcomes)]  BY DEF TypeOK, Outcomes
  <1>2. sent[f] \in Seq(Outcomes)  BY <1>1
  <1> DEFINE s == Append(sent[f], v)
  <1>3. s \in Seq(Outcomes)  BY <1>2
  <1>4. sent' = [sent EXCEPT ![f] = s]  OBVIOUS
  <1> HIDE DEF s
  <1> QED BY <1>1, <1>3, <1>4

\* A part of the invariant carries over a step that leaves its variables alone.
LEMMA Untouched ==
  /\ Channel /\ UNCHANGED <<queue, pc>> => Channel'
  /\ Start /\ UNCHANGED <<ruby, pc, reply>> => Start'
  /\ Serving /\ UNCHANGED <<ruby, current, ran>> => Serving'
  /\ Request /\ UNCHANGED <<pc, ran, sent, slot, event, queue, ruby, current>> => Request'
  BY DEF Channel, Start, Serving, Request, Told

-----------------------------------------------------------------------------
(* The Ruby thread. *)

\* The starter hears how the start went.
LEMMA PrepareStep ==
  ASSUME IInv, Prepare
  PROVE  IInv'
  <1>1. TypeOK'  BY Names DEF IInv, TypeOK, Prepare
  <1>2. Start'  BY Names DEF IInv, TypeOK, Start, Prepare
  <1>3. Serving'  BY Names DEF IInv, TypeOK, Serving, Prepare
  <1>4. Request'  BY Names DEF IInv, TypeOK, Request, Told, Prepare
  <1>5. Channel'  BY Untouched DEF IInv, Prepare
  <1> QED BY <1>1, <1>2, <1>3, <1>4, <1>5 DEF IInv

\* A byte starts a pass over the channel.
LEMMA DrainStep ==
  ASSUME IInv, Drain
  PROVE  IInv'
  <1>1. TypeOK'  BY Names DEF IInv, TypeOK, Drain
  <1>2. Start'  BY Names DEF IInv, TypeOK, Start, Drain
  <1>3. Serving'  BY Names DEF IInv, TypeOK, Serving, Drain
  <1>4. Request'  BY Names DEF IInv, TypeOK, Request, Told, Drain
  <1>5. Channel'  BY Untouched DEF IInv, Drain
  <1> QED BY <1>1, <1>2, <1>3, <1>4, <1>5 DEF IInv

\* The thread fails outside a command.
LEMMA BreaksStep ==
  ASSUME IInv, Breaks
  PROVE  IInv'
  <1>1. TypeOK'  BY Names DEF IInv, TypeOK, Breaks
  <1>2. Start'  BY Names DEF IInv, TypeOK, Start, Breaks
  <1>3. Serving'  BY Names DEF IInv, TypeOK, Serving, Breaks
  <1>4. Request'  BY Names DEF IInv, TypeOK, Request, Told, Breaks
  <1>5. Channel'  BY Untouched DEF IInv, Breaks
  <1> QED BY <1>1, <1>2, <1>3, <1>4, <1>5 DEF IInv

\* A command is taken, run once, and not there to be run again.
LEMMA PollStep ==
  ASSUME IInv, Poll
  PROVE  IInv'
  <1>1. CASE queue = << >> /\ ruby' = "wait" /\ UNCHANGED <<queue, current, ran, reply>>
    <2>1. TypeOK'  BY <1>1 DEF IInv, TypeOK, Poll
    <2>2. Channel' /\ Start' /\ Serving'  BY <1>1 DEF IInv, Channel, Start, Serving, Poll
    <2>3. Request'  BY <1>1 DEF IInv, Request, Told, Poll
    <2> QED BY <2>1, <2>2, <2>3 DEF IInv
  <1>2. ASSUME queue # << >>, queue' = Tail(queue) PROVE IInv'
    <2> DEFINE x == Head(queue)
    <2>1. /\ queue' \in Seq(Senders) /\ Once(queue') /\ x \in Senders
          /\ x \in Members(queue) /\ Members(queue') = Members(queue) \ {x}
      BY <1>2, Dequeued, ZenonT(40) DEF IInv, TypeOK, Channel, Senders, Members
    <2>2. /\ ruby = "poll"
          /\ \/ /\ x = Owner /\ ruby' = "leaving" /\ reply' = [reply EXCEPT ![Owner] = "ok"]
                /\ UNCHANGED <<current, ran>>
             \/ /\ x # Owner /\ ruby' = "run" /\ current' = x /\ ran' = ran \cup {x}
                /\ UNCHANGED reply
             \/ /\ x \in Callers /\ reply' = [reply EXCEPT ![x] = "ok"]
                /\ UNCHANGED <<ruby, current, ran>>
          /\ UNCHANGED <<bell, failed, pc, received, slot, event, sent, result>>
      BY <1>2 DEF Poll
    <2> HIDE DEF x
    <2>3. x # Owner => x \in Clients  BY <2>1 DEF Senders
    <2>4. TypeOK'  BY <2>1, <2>2, <2>3, Names DEF IInv, TypeOK, Senders
    <2>5. Channel'  BY <2>1, <2>2 DEF IInv, Channel
    <2>6. Start'  BY <2>1, <2>2, Names DEF IInv, TypeOK, Start
    <2>7. Serving'  BY <2>2, <2>3 DEF IInv, Serving
    <2>8. Request'
      <3>1. x \in Filters => x \notin ran /\ sent[x] # <<"too_large">> /\ sent[x] = << >>
        BY <2>1, <2>2 DEF IInv, Request
      <3>2. \A f \in Filters : f \in ran' => f \in ran \/ f = x  BY <2>2
      <3>3. x \in Filters => pc[x] \notin {"new", "collecting", "send"}
        BY <2>1, Names DEF IInv, Channel
      <3> QED BY <2>1, <2>2, <3>1, <3>2, <3>3, Names DEF IInv, Request, Told
    <2> QED BY <2>4, <2>5, <2>6, <2>7, <2>8 DEF IInv
  <1> QED BY <1>1, <1>2 DEF Poll

\* The application decides a request that was not decided.
LEMMA RunStep ==
  ASSUME IInv, Run
  PROVE  IInv'
  <1>1. TypeOK'  BY Names DEF IInv, TypeOK, Serving, Clients, Run
  <1>2. Start'  BY Names DEF IInv, TypeOK, Start, Run
  <1>3. Serving'  BY Names DEF IInv, TypeOK, Serving, Run
  <1>4. Request'
    <2>1. CASE current \in Filters
      BY <2>1 DEF IInv, TypeOK, Serving, Request, Told, Run
    <2>2. CASE current \notin Filters
      BY <2>2 DEF IInv, TypeOK, Serving, Request, Told, Run
    <2> QED BY <2>1, <2>2
  <1>5. Channel'  BY Untouched DEF IInv, Run
  <1> QED BY <1>1, <1>2, <1>3, <1>4, <1>5 DEF IInv

\* A panic decides nothing.
LEMMA PanicsStep ==
  ASSUME IInv, Panics
  PROVE  IInv'
  <1>1. TypeOK'  BY Names DEF IInv, TypeOK, Panics
  <1>2. Start'  BY Names DEF IInv, TypeOK, Start, Panics
  <1>3. Serving'  BY Names DEF IInv, TypeOK, Serving, Panics
  <1>4. Request'  BY Names DEF IInv, TypeOK, Request, Told, Panics
  <1>5. Channel'  BY Untouched DEF IInv, Panics
  <1> QED BY <1>1, <1>2, <1>3, <1>4, <1>5 DEF IInv

\* The event follows the decision.
LEMMA CommitStep ==
  ASSUME IInv, Commit
  PROVE  IInv'
  <1>1. TypeOK'  BY Names DEF IInv, TypeOK, Serving, Commit
  <1>2. Start'  BY Names DEF IInv, TypeOK, Start, Commit
  <1>3. Serving'  BY Names DEF IInv, TypeOK, Serving, Commit
  <1>4. Request'  BY Names DEF IInv, TypeOK, Request, Told, Serving, Commit
  <1>5. Channel'  BY Untouched DEF IInv, Commit
  <1> QED BY <1>1, <1>2, <1>3, <1>4, <1>5 DEF IInv

\* The socket goes first ...
LEMMA CloseSocketStep ==
  ASSUME IInv, CloseSocket
  PROVE  IInv'
  <1>1. TypeOK'  BY Names DEF IInv, TypeOK, CloseSocket
  <1>2. Start'  BY Names DEF IInv, TypeOK, Start, CloseSocket
  <1>3. Serving'  BY Names DEF IInv, TypeOK, Serving, CloseSocket
  <1>4. Request'  BY Names DEF IInv, TypeOK, Request, Told, CloseSocket
  <1>5. Channel'  BY Untouched DEF IInv, CloseSocket
  <1> QED BY <1>1, <1>2, <1>3, <1>4, <1>5 DEF IInv

\* ... and the channel with its commands last.
LEMMA DropChannelStep ==
  ASSUME IInv, DropChannel
  PROVE  IInv'
  <1>1. TypeOK'
    BY Emptied DEF IInv, TypeOK, DropChannel
  <1>2. Channel'
    BY Emptied DEF IInv, TypeOK, Channel, DropChannel
  <1>3. Start'  BY Names DEF IInv, TypeOK, Start, DropChannel
  <1>4. Serving'  BY Names DEF IInv, TypeOK, Serving, DropChannel
  <1>5. Request'
    BY Emptied DEF IInv, TypeOK, Request, Told, DropChannel
  <1> QED BY <1>1, <1>2, <1>3, <1>4, <1>5 DEF IInv

-----------------------------------------------------------------------------
(* The clients. *)

\* A command is queued, or refused without having been.
LEMMA SendStep ==
  ASSUME NEW x \in Senders, IInv, Send(x)
  PROVE  IInv'
  <1>1. /\ pc[x] = "send"
        /\ \/ ruby # "gone" /\ queue' = Append(queue, x) /\ pc' = [pc EXCEPT ![x] = "signal"]
              /\ UNCHANGED sent
           \/ /\ ruby = "gone" /\ queue' = queue
              /\ \E where \in {"join", "done"} :
                   pc' = [pc EXCEPT ![x] = where] /\ (x \in Filters => where = "done")
              /\ sent' = IF x \in Filters THEN [sent EXCEPT ![x] = Append(@, "unavailable")] ELSE sent
    BY Names DEF Send, Goto, Queued
  <1>2. /\ Once(queue) /\ queue \in Seq(Senders) /\ x \notin Members(queue)
    BY <1>1 DEF IInv, TypeOK, Channel, Senders
  <1>3. /\ Once(queue') /\ queue' \in Seq(Senders)
        /\ Members(queue') = IF ruby # "gone" THEN Members(queue) \cup {x} ELSE Members(queue)
    BY <1>1, <1>2, Enqueued
  <1>4. sent' \in [Filters -> Seq(Outcomes)]
    BY <1>1, Sends DEF IInv, TypeOK, Outcomes
  <1>5. TypeOK'
    <2>1. pc' \in [Senders -> {"starting", "new", "running", "collecting", "send", "signal",
                              "waiting", "join", "done", "destroyed"}]
      BY <1>1 DEF IInv, TypeOK, Senders
    <2>2. result' \in [Callers \cup {Owner} ->
                   {"none", "failed", "ok", "error", "stopped", "io", "timeout", "panicked"}]
      BY Names DEF IInv, TypeOK, Send, Senders, Clients
    <2> QED BY <1>3, <1>4, <2>1, <2>2 DEF IInv, TypeOK, Send, Senders, Outcomes
  <1>6. Channel'
    BY <1>1, <1>2, <1>3 DEF IInv, TypeOK, Channel, Senders
  <1>7. Start'  BY Names DEF IInv, TypeOK, Start, Send, Goto, Queued
  <1>8. Request'
    <2>1. /\ UNCHANGED <<ran, slot, event, ruby, current>>
          /\ \A f \in Filters : f # x => pc'[f] = pc[f] /\ sent'[f] = sent[f]
      BY <1>1, Names DEF IInv, TypeOK, Send, Senders
    <2>2. ASSUME x \in Filters
          PROVE  /\ pc'[x] \in {"signal", "done"} /\ x \notin ran /\ x \notin Members(queue)
                 /\ IF ruby = "gone" THEN pc'[x] = "done" /\ sent'[x] = <<"unavailable">>
                                     ELSE pc'[x] = "signal" /\ sent'[x] = << >>
      <3>1. sent[x] = << >> /\ x \notin ran  BY <1>1, <2>2 DEF IInv, Request
      <3>2. Append(<< >>, "unavailable") = <<"unavailable">>  BY FirstSent DEF Outcomes
      <3> QED BY <1>1, <1>2, <2>2, <3>1, <3>2, Names DEF IInv, TypeOK, Senders
    <2>3. /\ <<"unavailable">> # << >> /\ <<"unavailable">> # <<"too_large">>
          /\ <<"unavailable">> # <<"ok">> /\ <<"unavailable">> # <<"error">>
          /\ <<"too_large">> # << >> /\ <<"ok">> # << >> /\ <<"error">> # << >>
      BY FirstSent DEF Outcomes
    <2> QED BY <1>3, <2>1, <2>2, <2>3 DEF IInv, Request, Told
  <1>9. Serving'  BY Untouched DEF IInv, Send, Goto, Queued
  <1> QED BY <1>5, <1>6, <1>7, <1>8, <1>9 DEF IInv

\* A signal that fails answers for a command no thread will take any more.
LEMMA SignalStep ==
  ASSUME NEW x \in Senders, IInv, Signal(x)
  PROVE  IInv'
  <1>1. /\ pc[x] = "signal" /\ queue' = queue
        /\ \E where \in {"waiting", "join", "done"} : pc' = [pc EXCEPT ![x] = where]
    BY DEF Signal, Goto
  <1>2. sent' \in [Filters -> Seq(Outcomes)]
    BY Sends DEF IInv, TypeOK, Signal, Outcomes
  <1>3. TypeOK'
    <2>1. pc' \in [Senders -> {"starting", "new", "running", "collecting", "send", "signal",
                              "waiting", "join", "done", "destroyed"}]
      BY <1>1 DEF IInv, TypeOK, Senders
    <2>2. bell' \in BOOLEAN  BY DEF IInv, TypeOK, Signal
    <2>3. result' \in [Callers \cup {Owner} ->
                   {"none", "failed", "ok", "error", "stopped", "io", "timeout", "panicked"}]
      BY Names DEF IInv, TypeOK, Signal, Senders, Clients
    <2> QED BY <1>1, <1>2, <2>1, <2>2, <2>3 DEF IInv, TypeOK, Signal, Senders, Outcomes
  <1>4. Channel'
    BY <1>1 DEF IInv, TypeOK, Channel, Senders
  <1>5. Start'  BY Names DEF IInv, TypeOK, Start, Signal, Goto
  <1>6. Request'  BY Names DEF IInv, TypeOK, Request, Told, Signal, Goto
  <1>7. Serving'  BY Untouched DEF IInv, Signal, Goto
  <1> QED BY <1>3, <1>4, <1>5, <1>6, <1>7 DEF IInv

\* A caller returns with the reply.
LEMMA ReceiveStep ==
  ASSUME NEW x \in Senders, IInv, Receive(x)
  PROVE  IInv'
  <1>1. TypeOK'  BY Names DEF IInv, TypeOK, Start, Receive, Goto
  <1>2. Channel'  BY Names DEF IInv, TypeOK, Channel, Receive, Goto
  <1>3. Start'  BY Names DEF IInv, TypeOK, Start, Receive, Goto
  <1>4. Request'  BY Names DEF IInv, TypeOK, Request, Told, Receive, Goto
  <1>5. Serving'  BY Untouched DEF IInv, Receive, Goto
  <1> QED BY <1>1, <1>2, <1>3, <1>4, <1>5 DEF IInv

\* A caller gives up.
LEMMA ReceiveTimesOutStep ==
  ASSUME NEW x \in Senders, IInv, ReceiveTimesOut(x)
  PROVE  IInv'
  <1>1. TypeOK'  BY Names DEF IInv, TypeOK, ReceiveTimesOut, Goto
  <1>2. Channel'  BY Names DEF IInv, TypeOK, Channel, ReceiveTimesOut, Goto
  <1>3. Start'  BY Names DEF IInv, TypeOK, Start, ReceiveTimesOut, Goto
  <1>4. Request'  BY Names DEF IInv, TypeOK, Request, Told, ReceiveTimesOut, Goto
  <1>5. Serving'  BY Untouched DEF IInv, ReceiveTimesOut, Goto
  <1> QED BY <1>1, <1>2, <1>3, <1>4, <1>5 DEF IInv

\* A caller sends once.
LEMMA CallStep ==
  ASSUME NEW c \in Callers, IInv, Call(c)
  PROVE  IInv'
  <1>1. TypeOK'  BY Names DEF IInv, TypeOK, Call, Goto, Running
  <1>2. Channel'  BY Names DEF IInv, TypeOK, Channel, Call, Goto, Running
  <1>3. Start'  BY Names DEF IInv, TypeOK, Start, Call, Goto, Running
  <1>4. Request'  BY Names DEF IInv, TypeOK, Request, Told, Call, Goto, Running
  <1>5. Serving'  BY Untouched DEF IInv, Call, Goto, Running
  <1> QED BY <1>1, <1>2, <1>3, <1>4, <1>5 DEF IInv

-----------------------------------------------------------------------------
(* The owner. *)

\* The reply of the start is taken.
LEMMA StartedStep ==
  ASSUME IInv, Started
  PROVE  IInv'
  <1>1. TypeOK'  BY Names DEF IInv, TypeOK, Started, Goto
  <1>2. Channel'  BY Names DEF IInv, TypeOK, Channel, Started, Goto
  <1>3. Start'  BY Names DEF IInv, TypeOK, Start, Started, Goto
  <1>4. Request'  BY Names DEF IInv, TypeOK, Request, Told, Started, Goto
  <1>5. Serving'  BY Untouched DEF IInv, Started, Goto
  <1> QED BY <1>1, <1>2, <1>3, <1>4, <1>5 DEF IInv

\* The owner sends its command once.
LEMMA ShutdownStep ==
  ASSUME IInv, Shutdown
  PROVE  IInv'
  <1>1. TypeOK'  BY Names DEF IInv, TypeOK, Shutdown, Goto
  <1>2. Channel'  BY Names DEF IInv, TypeOK, Channel, Shutdown, Goto
  <1>3. Start'  BY Names DEF IInv, TypeOK, Start, Shutdown, Goto
  <1>4. Request'  BY Names DEF IInv, TypeOK, Request, Told, Shutdown, Goto
  <1>5. Serving'  BY Untouched DEF IInv, Shutdown, Goto
  <1> QED BY <1>1, <1>2, <1>3, <1>4, <1>5 DEF IInv

\* The owner joins.
LEMMA JoinStep ==
  ASSUME IInv, Join
  PROVE  IInv'
  <1>1. TypeOK'  BY Names DEF IInv, TypeOK, Join, Goto
  <1>2. Channel'  BY Names DEF IInv, TypeOK, Channel, Join, Goto
  <1>3. Start'  BY Names DEF IInv, TypeOK, Start, Join, Goto
  <1>4. Request'  BY Names DEF IInv, TypeOK, Request, Told, Join, Goto
  <1>5. Serving'  BY Untouched DEF IInv, Join, Goto
  <1> QED BY <1>1, <1>2, <1>3, <1>4, <1>5 DEF IInv

-----------------------------------------------------------------------------
(* The filter. *)

\* A request is submitted once its body is in.
LEMMA OnRequestHeadersStep ==
  ASSUME NEW f \in Filters, IInv, OnRequestHeaders(f)
  PROVE  IInv'
  <1>1. TypeOK'  BY Names DEF IInv, TypeOK, OnRequestHeaders, Goto, Running
  <1>2. Channel'  BY Names DEF IInv, TypeOK, Channel, OnRequestHeaders, Goto, Running
  <1>3. Start'  BY Names DEF IInv, TypeOK, Start, OnRequestHeaders, Goto, Running
  <1>4. Request'  BY Names DEF IInv, TypeOK, Request, Told, OnRequestHeaders, Goto, Running
  <1>5. Serving'  BY Untouched DEF IInv, OnRequestHeaders, Goto, Running
  <1> QED BY <1>1, <1>2, <1>3, <1>4, <1>5 DEF IInv

\* A request that is too large is answered without having been sent.
LEMMA OnRequestBodyStep ==
  ASSUME NEW f \in Filters, IInv, OnRequestBody(f)
  PROVE  IInv'
  <1>1. pc[f] = "collecting" /\ UNCHANGED <<queue, bell, rubyVars, slot, event, reply, result>>
    BY DEF OnRequestBody
  <1>2. \/ /\ \E where \in {"send", "collecting"} : pc' = [pc EXCEPT ![f] = where]
           /\ UNCHANGED sent
           /\ \E n \in 0 .. MaxBodyBytes + 1 :
                received[f] + n =< MaxBodyBytes /\ received' = [received EXCEPT ![f] = @ + n]
        \/ /\ pc' = [pc EXCEPT ![f] = "done"] /\ UNCHANGED received
           /\ sent' = [sent EXCEPT ![f] = Append(@, "too_large")]
    BY DEF OnRequestBody, Goto, Fits
  <1>3. /\ sent[f] = << >> /\ f \notin ran /\ f \notin Members(queue)
        /\ Append(<< >>, "too_large") = <<"too_large">>
    BY <1>1, Names, FirstSent DEF IInv, Request, Channel, Outcomes
  <1>4. TypeOK'
    <2>1. sent' \in [Filters -> Seq(Outcomes)]
      BY <1>2, Sends DEF IInv, TypeOK, Outcomes
    <2>2. received' \in [Filters -> 0 .. MaxBodyBytes]
      <3>1. \A n \in 0 .. MaxBodyBytes + 1 :
              received[f] + n =< MaxBodyBytes => received[f] + n \in 0 .. MaxBodyBytes
        BY BodyAssumption DEF IInv, TypeOK
      <3> QED BY <1>2, <3>1, ZenonT(40) DEF IInv, TypeOK
    <2>3. pc' \in [Senders -> {"starting", "new", "running", "collecting", "send", "signal",
                              "waiting", "join", "done", "destroyed"}]
      BY <1>2 DEF IInv, TypeOK, Senders
    <2> QED BY <1>1, <2>1, <2>2, <2>3 DEF IInv, TypeOK, Senders, Outcomes
  <1>5. Channel'
    BY <1>1, <1>2, <1>3, Names DEF IInv, TypeOK, Channel, Senders
  <1>6. Start'  BY Names DEF IInv, TypeOK, Start, OnRequestBody, Goto, Fits
  <1>7. Request'
    <2>1. \A g \in Filters : g # f => pc'[g] = pc[g] /\ sent'[g] = sent[g]
      BY <1>2, Names DEF IInv, TypeOK, Senders
    <2>2. \/ pc'[f] \in {"send", "collecting"} /\ sent'[f] = << >>
          \/ pc'[f] = "done" /\ sent'[f] = <<"too_large">>
      BY <1>2, <1>3, Names DEF IInv, TypeOK, Senders
    <2>3. /\ <<"too_large">> # << >> /\ <<"too_large">> # <<"ok">> /\ <<"too_large">> # <<"error">>
          /\ <<"ok">> # << >> /\ <<"error">> # << >>
      BY FirstSent DEF Outcomes
    <2> QED BY <1>1, <1>3, <2>1, <2>2, <2>3 DEF IInv, Request, Told
  <1>8. Serving'  BY Untouched DEF IInv, OnRequestBody, Goto, Fits
  <1> QED BY <1>4, <1>5, <1>6, <1>7, <1>8 DEF IInv

\* Trailers end the body.
LEMMA OnRequestTrailersStep ==
  ASSUME NEW f \in Filters, IInv, OnRequestTrailers(f)
  PROVE  IInv'
  <1>1. TypeOK'  BY Names DEF IInv, TypeOK, OnRequestTrailers, Goto
  <1>2. Channel'  BY Names DEF IInv, TypeOK, Channel, OnRequestTrailers, Goto
  <1>3. Start'  BY Names DEF IInv, TypeOK, Start, OnRequestTrailers, Goto
  <1>4. Request'  BY Names DEF IInv, TypeOK, Request, Told, OnRequestTrailers, Goto
  <1>5. Serving'  BY Untouched DEF IInv, OnRequestTrailers, Goto
  <1> QED BY <1>1, <1>2, <1>3, <1>4, <1>5 DEF IInv

\* What was decided is sent, to a filter that sent nothing.
LEMMA OnScheduledStep ==
  ASSUME NEW f \in Filters, IInv, OnScheduled(f)
  PROVE  IInv'
  <1>1. /\ f \in event /\ f \in ran /\ event' = event \ {f}
        /\ UNCHANGED <<queue, bell, rubyVars, received, reply, result>>
    BY DEF OnScheduled, IInv, Request
  <1>2. \/ UNCHANGED <<sent, slot, pc>>
        \/ /\ pc[f] = "waiting" /\ pc' = [pc EXCEPT ![f] = "done"]
           /\ slot' = [slot EXCEPT ![f] = "none"]
           /\ \E v \in {"ok", "error", "missing"} : sent' = [sent EXCEPT ![f] = Append(@, v)]
    BY DEF OnScheduled, MayRespond, Goto, IInv, TypeOK
  <1>3. TypeOK'
    <2>1. sent' \in [Filters -> Seq(Outcomes)]
      BY <1>2, Sends DEF IInv, TypeOK, Outcomes
    <2>2. pc' \in [Senders -> {"starting", "new", "running", "collecting", "send", "signal",
                              "waiting", "join", "done", "destroyed"}]
      BY <1>2 DEF IInv, TypeOK, Senders
    <2> QED BY <1>1, <1>2, <2>1, <2>2 DEF IInv, TypeOK, Senders, Outcomes
  <1>4. Channel'
    BY <1>1, <1>2 DEF IInv, TypeOK, Channel, Senders
  <1>5. Start'  BY Names DEF IInv, TypeOK, Start, OnScheduled, Goto, MayRespond
  <1>6. Request'
    <2>1. \A g \in Filters : g # f => pc'[g] = pc[g] /\ sent'[g] = sent[g] /\ slot'[g] = slot[g]
      BY <1>2, Names DEF IInv, TypeOK, Senders
    <2>2. \/ UNCHANGED <<sent, slot, pc>>
          \/ /\ pc'[f] = "done" /\ slot'[f] = "none"
             /\ sent'[f] \in {<<"ok">>, <<"error">>, <<"missing">>}
      <3>1. pc[f] = "waiting" => sent[f] = << >>  BY DEF IInv, Request
      <3>2. \A v \in {"ok", "error", "missing"} : Append(<< >>, v) = <<v>>  BY FirstSent DEF Outcomes
      <3>3. ASSUME pc[f] = "waiting", NEW v \in {"ok", "error", "missing"},
                   sent' = [sent EXCEPT ![f] = Append(@, v)]
            PROVE  sent'[f] = <<v>>
        BY <3>1, <3>2, <3>3 DEF IInv, TypeOK
      <3>4. \A v \in {"ok", "error", "missing"} : <<v>> \in {<<"ok">>, <<"error">>, <<"missing">>}
        OBVIOUS
      <3> QED BY <1>2, <3>3, <3>4, Names DEF IInv, TypeOK, Senders
    <2>3. <<"too_large">> \notin {<<"ok">>, <<"error">>, <<"missing">>}
      BY FirstSent DEF Outcomes
    <2>4. ~(ruby = "run" /\ current = f)  BY <1>1 DEF IInv, Request
    <2> QED BY <1>1, <2>1, <2>2, <2>3, <2>4 DEF IInv, Request, Told
  <1>7. Serving'  BY Untouched DEF IInv, OnScheduled, Goto, MayRespond
  <1> QED BY <1>3, <1>4, <1>5, <1>6, <1>7 DEF IInv

\* A filter that is destroyed keeps what it sent.
LEMMA DestroyStep ==
  ASSUME NEW f \in Filters, IInv, Destroy(f)
  PROVE  IInv'
  <1>1. TypeOK'  BY Names DEF IInv, TypeOK, Destroy, Goto
  <1>2. Channel'  BY Names DEF IInv, TypeOK, Channel, Destroy, Goto
  <1>3. Start'  BY Names DEF IInv, TypeOK, Start, Destroy, Goto
  <1>4. Request'  BY Names DEF IInv, TypeOK, Request, Told, Destroy, Goto
  <1>5. Serving'  BY Untouched DEF IInv, Destroy, Goto
  <1> QED BY <1>1, <1>2, <1>3, <1>4, <1>5 DEF IInv

-----------------------------------------------------------------------------
(* The theorems. *)

\* The initial state satisfies the invariant.
LEMMA InitIInv == Init => IInv
  <1> SUFFICES ASSUME Init PROVE IInv
    OBVIOUS
  <1>1. TypeOK
    <2>1. queue \in Seq(Senders) /\ sent \in [Filters -> Seq(Outcomes)]  BY Emptied DEF Init
    <2>2. bell \in BOOLEAN /\ failed \in BOOLEAN  BY DEF Init
    <2>3. received \in [Filters -> 0 .. MaxBodyBytes]  BY BodyAssumption DEF Init
    <2> QED BY <2>1, <2>2, <2>3 DEF Init, TypeOK, Senders, Outcomes
  <1>2. Channel /\ Start /\ Serving
    BY Emptied, Names DEF Init, Channel, Start, Serving, Senders
  <1>3. Request
    <2>1. << >> \notin {<<"ok">>, <<"error">>, <<"too_large">>}  BY FirstSent DEF Outcomes
    <2>2. \A f \in Filters : pc[f] = "new" /\ sent[f] = << >>  BY Names DEF Init, Senders
    <2> QED BY <2>1, <2>2, Emptied DEF Init, Request, Told
  <1> QED BY <1>1, <1>2, <1>3 DEF IInv

\* Every step preserves it.
LEMMA NextIInv == IInv /\ [Next]_vars => IInv'
  <1> SUFFICES ASSUME IInv, [Next]_vars PROVE IInv'
    OBVIOUS
  <1>1. CASE Prepare \/ RubyStep \/ Breaks \/ Panics
    BY <1>1, PrepareStep, DrainStep, PollStep, RunStep, CommitStep, CloseSocketStep,
       DropChannelStep, BreaksStep, PanicsStep
    DEF RubyStep
  <1>2. CASE Started \/ Shutdown \/ Join
    BY <1>2, StartedStep, ShutdownStep, JoinStep
  <1>3. CASE \E x \in Clients \cup {Owner} : ClientStep(x) \/ ReceiveTimesOut(x)
    BY <1>3, SendStep, SignalStep, ReceiveStep, ReceiveTimesOutStep DEF ClientStep, Senders
  <1>4. CASE \E c \in Callers : Call(c)
    BY <1>4, CallStep
  <1>5. CASE \E f \in Filters : OnRequestHeaders(f) \/ OnRequestBody(f) \/ OnRequestTrailers(f)
                                \/ OnScheduled(f) \/ Destroy(f)
    BY <1>5, OnRequestHeadersStep, OnRequestBodyStep, OnRequestTrailersStep, OnScheduledStep,
       DestroyStep
  <1>6. CASE UNCHANGED vars
    <2>1. TypeOK'  BY <1>6 DEF IInv, TypeOK, vars
    <2> QED BY <1>6, <2>1, Untouched DEF IInv, vars
  <1> QED BY <1>1, <1>2, <1>3, <1>4, <1>5, <1>6 DEF Next

\* Every reachable state of the serial runtime satisfies the inductive invariant.
THEOREM Invariance == Spec => []IInv
  BY InitIInv, NextIInv, PTL DEF Spec

\* The variables keep the types the code gives them; in particular a filter never
\* has more of a body than the limit.
THEOREM TypeCorrect == Spec => []TypeOK
  <1>1. IInv => TypeOK  BY DEF IInv
  <1> QED BY <1>1, Invariance, PTL

\* Only a command taken from the channel is run, and it is one nobody answered.
LEMMA RunsAreUnanswered ==
  ASSUME IInv, [Next]_vars, NEW f \in Filters, f \in ran', f \notin ran
  PROVE  sent[f] = << >>
  <1>1. CASE Poll
    <2>1. ruby = "poll" /\ queue # << >> /\ f = Head(queue)  BY <1>1 DEF Poll
    <2>2. f \in Members(queue)  BY <2>1, Dequeued DEF IInv, TypeOK, Channel, Senders
    <2> QED BY <2>1, <2>2 DEF IInv, Request
  <1>2. CASE ~Poll
    <2>1. UNCHANGED ran
      BY <1>2 DEF Next, vars, Prepare, RubyStep, Drain, Breaks, Run, Panics, Commit, CloseSocket,
         DropChannel, Started, Shutdown, Join, ClientStep, Send, Signal, Receive, ReceiveTimesOut,
         Call, OnRequestHeaders, OnRequestBody, OnRequestTrailers, OnScheduled, Destroy
    <2> QED BY <2>1
  <1> QED BY <1>1, <1>2

\* A request that was answered is not run afterwards, and one that was too large
\* never is.
THEOREM TurnedAway == Spec => TurnedAwayNeverRuns
  <1> DEFINE A == \A f \in Filters :
                    /\ sent[f] # << >> => (f \in ran' => f \in ran)
                    /\ sent'[f] = <<"too_large">> => f \notin ran'
  <1>1. ASSUME IInv, IInv', [Next]_vars PROVE A
    BY <1>1, RunsAreUnanswered DEF IInv, Request
  <1>2. IInv /\ IInv' /\ [Next]_vars => [A]_vars  BY <1>1
  <1> HIDE DEF A
  <1>3. Spec => [][A]_vars  BY <1>2, Invariance, PTL DEF Spec
  <1> QED BY <1>3 DEF A, TurnedAwayNeverRuns

-----------------------------------------------------------------------------
(* The refinement of Answers. *)

\* A request is on its way once its filter has tried to send it.
LEMMA AskedIs ==
  ASSUME IInv
  PROVE  Asked = {f \in Filters : pc[f] \in {"signal", "waiting", "done", "destroyed"}}
  <1>1. \A f \in Filters : (\E i \in 1 .. Len(queue) : queue[i] = f) <=> f \in Members(queue)
    BY Names DEF Members
  <1>2. \A f \in Filters : pc[f] \in {"new", "collecting", "send"} =>
          f \notin ran /\ f \notin Members(queue) /\ sent[f] = << >>
    BY Names DEF IInv, Request, Channel
  <1> QED BY <1>1, <1>2 DEF IInv, Request, Asked

\* What a filter learned and what was decided, by what it sent.
LEMMA LearnedIs ==
  /\ \A f \in Filters : sent[f] = <<"ok">> => Learned(f) = "ok"
  /\ \A f \in Filters : sent[f] = <<"error">> => Learned(f) = "error"
  /\ \A f \in Filters : ~Told(f) => Learned(f) = "none"
  <1>1. <<"ok">>[1] = "ok" /\ <<"error">>[1] = "error"  BY FirstSent DEF Outcomes
  <1> QED BY <1>1 DEF Learned, Told

\* A step that neither submits, decides nor tells is none of Answers.
LEMMA Stutters ==
  ASSUME Asked' = Asked, \A f \in Filters : Decided(f)' = Decided(f) /\ Learned(f)' = Learned(f)
  PROVE  UNCHANGED Abstract!vars
  BY DEF Abstract!vars

\* A filter that submits, or answers or goes before it could, asks.
LEMMA Asks ==
  ASSUME NEW f \in Filters, f \notin Asked, Asked' = Asked \cup {f},
         \A g \in Filters : Decided(g)' = Decided(g) /\ Learned(g)' = Learned(g)
  PROVE  Abstract!Next
  <1>1. Abstract!Ask(f)  BY DEF Abstract!Ask
  <1> QED BY <1>1 DEF Abstract!Next

\* What is learned and decided depends on what was sent and on the slot.
LEMMA Undisturbed ==
  ASSUME NEW f \in Filters, sent'[f] = sent[f], slot'[f] = slot[f]
  PROVE  Decided(f)' = Decided(f) /\ Learned(f)' = Learned(f)
  BY DEF Decided, Learned

\* A failure sent of a request, as the first thing, tells nothing of a decision.
LEMMA FailureTellsNothing ==
  ASSUME NEW f \in Filters, sent[f] = << >>, slot'[f] = slot[f],
         sent'[f] \in {<<"unavailable">>, <<"too_large">>, <<"missing">>}
  PROVE  Decided(f)' = Decided(f) /\ Learned(f)' = Learned(f)
  <1>1. /\ <<"unavailable">> \notin {<<"ok">>, <<"error">>} /\ << >> \notin {<<"ok">>, <<"error">>}
        /\ <<"too_large">> \notin {<<"ok">>, <<"error">>}
        /\ <<"missing">> \notin {<<"ok">>, <<"error">>}
    BY FirstSent DEF Outcomes
  <1> QED BY <1>1 DEF Decided, Learned

\* Every step of the serial runtime is a step of Answers, or none.
LEMMA StepImplements ==
  ASSUME IInv, IInv', [Next]_vars
  PROVE  [Abstract!Next]_(Abstract!vars)
  <1> DEFINE On == {"signal", "waiting", "done", "destroyed"}
  <1>1. /\ Asked = {f \in Filters : pc[f] \in On}
        /\ Asked' = {f \in Filters : pc'[f] \in On}
    <2>1. Asked = {f \in Filters : pc[f] \in On}  BY AskedIs
    <2>2. Asked' = {f \in Filters : pc'[f] \in On}
      <3>1. ASSUME IInv' PROVE Asked' = {f \in Filters : pc'[f] \in On}
        BY <3>1, Names DEF IInv, Request, Channel, Asked, Members
      <3> QED BY <3>1
    <2> QED BY <2>1, <2>2
  <1>2. ASSUME UNCHANGED <<sent, slot>>, \A f \in Filters : pc'[f] \in On <=> pc[f] \in On
        PROVE  UNCHANGED Abstract!vars
    BY <1>1, <1>2, Undisturbed, Stutters
  <1>3. CASE Prepare \/ Drain \/ Poll \/ Commit \/ CloseSocket \/ DropChannel \/ Breaks \/ Panics
    BY <1>2, <1>3 DEF Prepare, Drain, Poll, Commit, CloseSocket, DropChannel, Breaks, Panics
  <1>4. CASE Started \/ Shutdown \/ Join \/ \E c \in Callers : Call(c)
    <2>1. UNCHANGED <<sent, slot>> /\ \A f \in Filters : pc'[f] = pc[f]
      BY <1>4, Names DEF IInv, TypeOK, Started, Shutdown, Join, Call, Goto
    <2> QED BY <1>2, <2>1
  <1>5. CASE \E x \in Senders : Receive(x) \/ ReceiveTimesOut(x)
    <2>1. UNCHANGED <<sent, slot>> /\ \A f \in Filters : pc'[f] = pc[f]
      BY <1>5, Names DEF IInv, TypeOK, Receive, ReceiveTimesOut, Goto
    <2> QED BY <1>2, <2>1
  <1>6. CASE Run
    <2>1. ASSUME NEW f \in Filters, current = f PROVE Abstract!Next
      <3>1. PICK d \in {"ok", "error"} : slot' = [slot EXCEPT ![f] = d]
        BY <1>6, <2>1 DEF Run
      <3>2. UNCHANGED <<sent, pc>>  BY <1>6 DEF Run
      <3>3. Asked' = Asked  BY <1>1, <3>2
      <3>4. slot[f] = "none" /\ ~Told(f) /\ f \in Asked
        BY <1>1, <1>6, <2>1 DEF IInv, Serving, Request, Run
      <3>5. Decided(f) = "none"  BY <3>4, LearnedIs DEF Decided
      <3>6. Decided(f)' = d /\ d # "none"  BY <3>1 DEF IInv, TypeOK, Decided
      <3>7. \A g \in Filters : Learned(g)' = Learned(g)  BY <3>2 DEF Learned
      <3>8. \A g \in Filters : g # f => Decided(g)' = Decided(g)
        BY <3>1, <3>2, Undisturbed DEF IInv, TypeOK
      <3>9. Abstract!Decide(f)
        BY <3>3, <3>4, <3>5, <3>6, <3>7, <3>8 DEF Abstract!Decide
      <3> QED BY <3>9 DEF Abstract!Next
    <2>2. CASE current \notin Filters  BY <1>2, <1>6, <2>2 DEF Run
    <2> QED BY <2>1, <2>2
  <1>7. ASSUME NEW x \in Senders, Send(x) PROVE [Abstract!Next]_(Abstract!vars)
    <2>1. /\ pc[x] = "send" /\ slot' = slot
          /\ \A f \in Filters : f # x => pc'[f] = pc[f] /\ sent'[f] = sent[f]
      <3>1. pc[x] = "send" /\ slot' = slot  BY <1>7 DEF Send
      <3>2. \A f \in Filters : f # x => pc'[f] = pc[f]
        BY <1>7, Names DEF IInv, TypeOK, Send, Goto, Senders
      <3>3. \A f \in Filters : f # x => sent'[f] = sent[f]  BY <1>7 DEF IInv, TypeOK, Send
      <3> QED BY <3>1, <3>2, <3>3
    <2>2. CASE x \in Filters
      <3>1. /\ sent[x] = << >> /\ Append(<< >>, "unavailable") = <<"unavailable">>
            /\ pc'[x] \in {"signal", "done"}
        BY <1>7, <2>2, Names, FirstSent DEF IInv, TypeOK, Request, Send, Goto, Outcomes
      <3>2. sent'[x] \in {<< >>, <<"unavailable">>}
        BY <1>7, <2>2, <3>1 DEF IInv, TypeOK, Send
      <3>3. \A g \in Filters : Decided(g)' = Decided(g) /\ Learned(g)' = Learned(g)
        BY <2>1, <2>2, <3>1, <3>2, Undisturbed, FailureTellsNothing
      <3>4. x \notin Asked /\ Asked' = Asked \cup {x}  BY <1>1, <2>1, <2>2, <3>1
      <3> QED BY <2>2, <3>3, <3>4, Asks
    <2>3. CASE x \notin Filters
      <3>1. sent' = sent  BY <1>7, <2>3 DEF Send
      <3> QED BY <1>2, <2>1, <2>3, <3>1
    <2> QED BY <2>2, <2>3
  <1>8. ASSUME NEW x \in Senders, Signal(x) PROVE [Abstract!Next]_(Abstract!vars)
    <2>1. /\ pc[x] = "signal" /\ slot' = slot
          /\ \A f \in Filters : f # x => pc'[f] = pc[f] /\ sent'[f] = sent[f]
      <3>1. pc[x] = "signal" /\ slot' = slot  BY <1>8 DEF Signal
      <3>2. \A f \in Filters : f # x => pc'[f] = pc[f]
        BY <1>8, Names DEF IInv, TypeOK, Signal, Goto, Senders
      <3>3. \A f \in Filters : f # x => sent'[f] = sent[f]  BY <1>8 DEF IInv, TypeOK, Signal
      <3> QED BY <3>1, <3>2, <3>3
    <2>2. CASE x \in Filters
      <3>1. /\ sent[x] = << >> /\ Append(<< >>, "unavailable") = <<"unavailable">>
            /\ pc'[x] \in {"waiting", "done"}
        BY <1>8, <2>2, Names, FirstSent DEF IInv, TypeOK, Request, Signal, Goto, Outcomes
      <3>2. sent'[x] \in {<< >>, <<"unavailable">>}
        BY <1>8, <2>2, <3>1 DEF IInv, TypeOK, Signal
      <3>3. \A g \in Filters : Decided(g)' = Decided(g) /\ Learned(g)' = Learned(g)
        BY <2>1, <2>2, <3>1, <3>2, Undisturbed, FailureTellsNothing
      <3>4. Asked' = Asked  BY <1>1, <2>1, <2>2, <3>1
      <3> QED BY <3>3, <3>4, Stutters
    <2>3. CASE x \notin Filters
      <3>1. sent' = sent  BY <1>8, <2>3 DEF Signal
      <3> QED BY <1>2, <2>1, <2>3, <3>1
    <2> QED BY <2>2, <2>3
  <1>9. ASSUME NEW f \in Filters, OnRequestHeaders(f) \/ OnRequestTrailers(f)
        PROVE  UNCHANGED Abstract!vars
    <2>1. UNCHANGED <<sent, slot>>  BY <1>9 DEF OnRequestHeaders, OnRequestTrailers
    <2>2. pc[f] \notin On /\ \E where \in {"send", "collecting"} : pc' = [pc EXCEPT ![f] = where]
      BY <1>9 DEF OnRequestHeaders, OnRequestTrailers, Goto
    <2> QED BY <1>2, <2>1, <2>2, Names DEF IInv, TypeOK, Senders
  <1>10. ASSUME NEW f \in Filters, OnRequestBody(f) PROVE [Abstract!Next]_(Abstract!vars)
    <2>1. pc[f] = "collecting" /\ slot' = slot /\ sent[f] = << >>
      BY <1>10 DEF IInv, Request, OnRequestBody
    <2>2. CASE /\ \E where \in {"send", "collecting"} : pc' = [pc EXCEPT ![f] = where]
               /\ UNCHANGED sent
      BY <1>2, <2>1, <2>2, Names DEF IInv, TypeOK, Senders
    <2>3. CASE /\ pc' = [pc EXCEPT ![f] = "done"]
               /\ sent' = [sent EXCEPT ![f] = Append(@, "too_large")]
      <3>1. sent'[f] = <<"too_large">>
        <4>1. Append(<< >>, "too_large") = <<"too_large">>  BY FirstSent DEF Outcomes
        <4> QED BY <2>1, <2>3, <4>1 DEF IInv, TypeOK
      <3>2. \A g \in Filters : g # f => sent'[g] = sent[g]  BY <2>3 DEF IInv, TypeOK
      <3>3. \A g \in Filters : Decided(g)' = Decided(g) /\ Learned(g)' = Learned(g)
        BY <2>1, <3>1, <3>2, Undisturbed, FailureTellsNothing
      <3>4. f \notin Asked /\ Asked' = Asked \cup {f}
        BY <1>1, <2>1, <2>3, Names DEF IInv, TypeOK, Senders
      <3> QED BY <3>3, <3>4, Asks
    <2>4. \/ /\ \E where \in {"send", "collecting"} : pc' = [pc EXCEPT ![f] = where]
             /\ UNCHANGED sent
          \/ /\ pc' = [pc EXCEPT ![f] = "done"]
             /\ sent' = [sent EXCEPT ![f] = Append(@, "too_large")]
      BY <1>10 DEF OnRequestBody, Goto
    <2> QED BY <2>2, <2>3, <2>4
  <1>11. ASSUME NEW f \in Filters, OnScheduled(f) PROVE [Abstract!Next]_(Abstract!vars)
    <2>1. CASE pc[f] # "waiting"
      BY <1>2, <1>11, <2>1 DEF OnScheduled, MayRespond
    <2>2. CASE pc[f] = "waiting"
      <3>1. /\ pc' = [pc EXCEPT ![f] = "done"] /\ slot' = [slot EXCEPT ![f] = "none"]
            /\ sent' = [sent EXCEPT ![f] = Append(@, IF slot[f] = "none" THEN "missing" ELSE slot[f])]
        BY <1>11, <2>2 DEF OnScheduled, MayRespond, Goto
      <3>2. Asked' = Asked  BY <1>1, <2>2, <3>1, Names DEF IInv, TypeOK, Senders
      <3>3. sent[f] = << >> /\ slot[f] \in {"none", "ok", "error"}
        BY <2>2 DEF IInv, TypeOK, Request
      <3>4. slot'[f] = "none" /\ \A g \in Filters : g # f => sent'[g] = sent[g] /\ slot'[g] = slot[g]
        BY <3>1 DEF IInv, TypeOK
      <3>5. CASE slot[f] = "none"
        <4>1. sent'[f] = <<"missing">>
          <5>1. Append(<< >>, "missing") = <<"missing">>  BY FirstSent DEF Outcomes
          <5> QED BY <3>1, <3>3, <3>5, <5>1 DEF IInv, TypeOK
        <4> QED BY <3>2, <3>3, <3>4, <3>5, <4>1, Undisturbed, FailureTellsNothing, Stutters
      <3>6. CASE slot[f] \in {"ok", "error"}
        <4>1. sent'[f] = <<slot[f]>>
          <5>1. Append(<< >>, slot[f]) = <<slot[f]>>  BY <3>6, FirstSent DEF Outcomes
          <5> QED BY <3>1, <3>3, <3>6, <5>1 DEF IInv, TypeOK
        <4>2. Learned(f) = "none" /\ Decided(f) = slot[f]
          <5>1. << >> \notin {<<"ok">>, <<"error">>}  BY FirstSent DEF Outcomes
          <5> QED BY <3>3, <3>6, <5>1 DEF Learned, Decided
        <4>3. Learned(f)' = slot[f]
          <5>1. sent'[f] \in {<<"ok">>, <<"error">>} /\ <<slot[f]>>[1] = slot[f]
            BY <3>6, <4>1, FirstSent DEF Outcomes
          <5> QED BY <4>1, <5>1 DEF Learned
        <4>4. Decided(f)' = Decided(f)  BY <3>4, <4>2, <4>3 DEF Decided
        <4>5. \A g \in Filters : g # f => Decided(g)' = Decided(g) /\ Learned(g)' = Learned(g)
          BY <3>4, Undisturbed
        <4>6. Abstract!Learn(f)
          BY <3>2, <3>6, <4>2, <4>3, <4>4, <4>5 DEF Abstract!Learn
        <4> QED BY <4>6 DEF Abstract!Next
      <3> QED BY <3>3, <3>5, <3>6
    <2> QED BY <2>1, <2>2
  <1>12. ASSUME NEW f \in Filters, Destroy(f) PROVE [Abstract!Next]_(Abstract!vars)
    <2>1. /\ UNCHANGED <<sent, slot>> /\ pc' = [pc EXCEPT ![f] = "destroyed"]
          /\ pc[f] \in {"collecting", "waiting", "done"}
      BY <1>12 DEF Destroy, Goto
    <2>2. Asked' = Asked \cup {f}  BY <1>1, <2>1, Names DEF IInv, TypeOK, Senders
    <2>3. CASE f \in Asked  BY <2>1, <2>2, <2>3, Undisturbed, Stutters
    <2>4. CASE f \notin Asked  BY <2>1, <2>2, <2>4, Undisturbed, Asks
    <2> QED BY <2>3, <2>4
  <1>13. CASE UNCHANGED vars  BY <1>2, <1>13 DEF vars
  <1> QED
    BY <1>3, <1>4, <1>5, <1>6, <1>7, <1>8, <1>9, <1>10, <1>11, <1>12, <1>13
    DEF Next, RubyStep, ClientStep, Senders

\* The initial state is one of Answers: nothing is asked.
LEMMA InitImplements == Init => Abstract!Init
  <1> SUFFICES ASSUME Init PROVE Abstract!Init
    OBVIOUS
  <1>1. IInv  BY InitIInv
  <1>2. \A f \in Filters : pc[f] = "new" /\ slot[f] = "none" /\ sent[f] = << >>
    BY Names DEF Init, Senders
  <1>3. Asked = {}  BY <1>1, <1>2, AskedIs
  <1>4. << >> \notin {<<"ok">>, <<"error">>}  BY FirstSent DEF Outcomes
  <1>5. \A f \in Filters : Decided(f) = "none" /\ Learned(f) = "none"
    BY <1>2, <1>4 DEF Decided, Learned
  <1> QED BY <1>3, <1>5 DEF Abstract!Init

\* The serial runtime implements Answers: a request is decided at most once, after
\* it was submitted, and its filter sends that decision or none.
THEOREM Refinement == Spec => ImplementsAnswers
  <1>1. IInv /\ IInv' /\ [Next]_vars => [Abstract!Next]_(Abstract!vars)  BY StepImplements
  <1> QED BY <1>1, InitImplements, Invariance, PTL DEF Spec, ImplementsAnswers, Abstract!Spec
=============================================================================
