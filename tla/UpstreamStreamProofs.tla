------------------------ MODULE UpstreamStreamProofs ------------------------
(***************************************************************************)
(* The safety properties of UpstreamStream, for every pair of body         *)
(* lengths, every queue limit and every set of modes.                      *)
(*                                                                         *)
(* The difficulty is that a callback is several steps, that Envoy may call *)
(* back from inside a call into it, and that the fibers act in between:    *)
(* none of the properties holds by one step.  IInv therefore speaks of the *)
(* worker's list of steps as a set (Todo) and of its order (Plan), and     *)
(* says what each step still to come guarantees: the handle it will use is *)
(* live (Handle), the call it will count has an outcome (Counts, Reasons), *)
(* the reader and the writer it will tell may be parked (Told,             *)
(* WriterTold), the end it will push is true (Ending).  The two queues     *)
(* hold what their counters say (ResponseQueue, RequestQueue, Finishing),  *)
(* and the fibers are where these parts need them (Early, Places).         *)
(*                                                                         *)
(* One lemma per action; a case split of Next puts them together at the    *)
(* end.                                                                    *)
(***************************************************************************)
EXTENDS UpstreamStream, ResponseStreamProofs

-----------------------------------------------------------------------------
(* The lists of steps. *)

Members(w) == {w[i] : i \in 1 .. Len(w)}

\* The order in which every callback takes its steps.
Rank(step) ==
  CASE step = "stopped" -> 0
    [] step = "pushHead" -> 1
    [] step = "setTrailers" -> 2
    [] step = "pushEnd" -> 3
    [] step = "pushFailure" -> 4
    [] step \in {"cancelRequest", "wantReset"} -> 5
    [] step = "oweReader" -> 6
    [] step = "oweWriter" -> 7
    [] step \in {"wakeSelf", "count"} -> 8
    [] step \in {"inside", "start", "first"} -> 9
    [] step \in {"pump", "send", "owePump"} -> 10

\* Failing a stream and leaving it both give up the request body.
Twice == {"cancelRequest", "wantReset"}

Precedes(x, y) == Rank(x) < Rank(y) \/ (x \in Twice /\ y \in Twice)

Planned(w) == \A i, j \in 1 .. Len(w) : i < j => Precedes(w[i], w[j])

\* A list of one step.
LEMMA Singles ==
  ASSUME NEW x \in Steps
  PROVE  <<x>> \in Seq(Steps) /\ Planned(<<x>>) /\ Members(<<x>>) = {x}
  <1>1. <<x>> \in Seq(Steps) /\ Len(<<x>>) = 1 /\ <<x>>[1] = x  OBVIOUS
  <1>2. 1 .. 1 = {1}  OBVIOUS
  <1> QED BY <1>1, <1>2 DEF Planned, Members

\* A list without steps.
LEMMA Nothing == << >> \in Seq(Steps) /\ Planned(<< >>) /\ Members(<< >>) = {}
  BY DEF Planned, Members

\* The members of a list put together, and of one that lost its first step.
LEMMA Concat ==
  ASSUME NEW S, NEW u \in Seq(S), NEW w \in Seq(S)
  PROVE  u \o w \in Seq(S) /\ Members(u \o w) = Members(u) \cup Members(w)
  <1> DEFINE r == u \o w
  <1>1. /\ Len(r) = Len(u) + Len(w) /\ Len(u) \in Nat /\ Len(w) \in Nat
        /\ \A i \in 1 .. Len(u) : r[i] = u[i]
        /\ \A i \in 1 .. Len(r) : i > Len(u) => r[i] = w[i - Len(u)]
        /\ r \in Seq(S)
    OBVIOUS
  <1> HIDE DEF r
  <1>2. Members(r) \subseteq Members(u) \cup Members(w)
    <2> SUFFICES ASSUME NEW i \in 1 .. Len(r) PROVE r[i] \in Members(u) \cup Members(w)
      BY DEF Members
    <2>1. CASE i \in 1 .. Len(u)  BY <2>1, <1>1 DEF Members
    <2>2. CASE i > Len(u)
      <3>1. i - Len(u) \in 1 .. Len(w) /\ r[i] = w[i - Len(u)]  BY <2>2, <1>1
      <3> QED BY <3>1 DEF Members
    <2> QED BY <2>1, <2>2, <1>1
  <1>3. Members(u) \subseteq Members(r)
    <2> SUFFICES ASSUME NEW i \in 1 .. Len(u) PROVE u[i] \in Members(r)
      BY DEF Members
    <2>1. i \in 1 .. Len(r) /\ r[i] = u[i]  BY <1>1
    <2> QED BY <2>1 DEF Members
  <1>4. Members(w) \subseteq Members(r)
    <2> SUFFICES ASSUME NEW i \in 1 .. Len(w) PROVE w[i] \in Members(r)
      BY DEF Members
    <2>1. i + Len(u) \in 1 .. Len(r) /\ r[i + Len(u)] = w[i]  BY <1>1, SMTT(30)
    <2> QED BY <2>1 DEF Members
  <1> QED BY <1>1, <1>2, <1>3, <1>4 DEF r

\* The members of a list that lost its first step.
LEMMA Rests ==
  ASSUME NEW S, NEW w \in Seq(S), w # << >>
  PROVE  /\ Head(w) \in S /\ Tail(w) \in Seq(S)
         /\ Members(w) = {Head(w)} \cup Members(Tail(w))
  <1> DEFINE t == Tail(w)
  <1>1. /\ Len(w) \in Nat /\ 1 \in 1 .. Len(w) /\ Head(w) = w[1] /\ w[1] \in S
        /\ t \in Seq(S) /\ Len(t) = Len(w) - 1
        /\ \A i \in 1 .. Len(t) : t[i] = w[i + 1]
    OBVIOUS
  <1> HIDE DEF t
  <1>2. \A i \in 1 .. Len(t) : i + 1 \in 1 .. Len(w)  BY <1>1
  <1>3. Members(t) \subseteq Members(w) /\ w[1] \in Members(w)
    BY <1>1, <1>2 DEF Members
  <1>4. Members(w) \subseteq {w[1]} \cup Members(t)
    <2> SUFFICES ASSUME NEW i \in 1 .. Len(w), i # 1 PROVE w[i] \in Members(t)
      BY DEF Members
    <2>1. i - 1 \in 1 .. Len(t) /\ t[i - 1] = w[i]  BY <1>1
    <2> QED BY <2>1 DEF Members
  <1> QED BY <1>1, <1>3, <1>4 DEF t

\* Lists of steps in order make one when the steps of the first come first.
LEMMA Joins ==
  ASSUME NEW u \in Seq(Steps), NEW w \in Seq(Steps), Planned(u), Planned(w),
         \A x \in Members(u), y \in Members(w) : Precedes(x, y)
  PROVE  Planned(u \o w)
  <1> DEFINE r == u \o w
  <1>1. /\ Len(r) = Len(u) + Len(w) /\ Len(u) \in Nat /\ Len(w) \in Nat
        /\ \A i \in 1 .. Len(u) : r[i] = u[i]
        /\ \A i \in 1 .. Len(r) : i > Len(u) => r[i] = w[i - Len(u)]
    OBVIOUS
  <1> HIDE DEF r
  <1> SUFFICES ASSUME NEW i \in 1 .. Len(r), NEW j \in 1 .. Len(r), i < j
               PROVE  Precedes(r[i], r[j])
    BY DEF Planned, r
  <1>2. CASE j =< Len(u)
    <2>1. i \in 1 .. Len(u) /\ j \in 1 .. Len(u)  BY <1>1, <1>2
    <2> QED BY <1>1, <2>1 DEF Planned
  <1>3. CASE i =< Len(u) /\ j > Len(u)
    <2>1. i \in 1 .. Len(u) /\ j - Len(u) \in 1 .. Len(w)  BY <1>1, <1>3
    <2>2. r[i] \in Members(u) /\ r[j] \in Members(w)  BY <1>1, <1>3, <2>1 DEF Members
    <2> QED BY <2>2
  <1>4. CASE i > Len(u)
    <2>1. i - Len(u) \in 1 .. Len(w) /\ j - Len(u) \in 1 .. Len(w) /\ i - Len(u) < j - Len(u)
          /\ r[i] = w[i - Len(u)] /\ r[j] = w[j - Len(u)]
      BY <1>1, <1>4
    <2> QED BY <2>1 DEF Planned
  <1> QED BY <1>1, <1>2, <1>3, <1>4

\* What is left of a planned list is planned, and comes after the step it lost.
LEMMA Pops ==
  ASSUME NEW w \in Seq(Steps), Planned(w), w # << >>
  PROVE  Planned(Tail(w)) /\ \A y \in Members(Tail(w)) : Precedes(Head(w), y)
  <1> DEFINE t == Tail(w)
  <1>1. /\ Len(w) \in Nat /\ 1 \in 1 .. Len(w) /\ Head(w) = w[1] /\ Len(t) = Len(w) - 1
        /\ \A i \in 1 .. Len(t) : t[i] = w[i + 1]
    OBVIOUS
  <1> HIDE DEF t
  <1>2. Planned(t)
    <2> SUFFICES ASSUME NEW i \in 1 .. Len(t), NEW j \in 1 .. Len(t), i < j
                 PROVE  Precedes(t[i], t[j])
      BY DEF Planned
    <2>1. i + 1 \in 1 .. Len(w) /\ j + 1 \in 1 .. Len(w) /\ i + 1 < j + 1  BY <1>1
    <2> QED BY <2>1, <1>1 DEF Planned
  <1>3. \A y \in Members(t) : Precedes(w[1], y)
    <2> SUFFICES ASSUME NEW i \in 1 .. Len(t) PROVE Precedes(w[1], t[i])
      BY DEF Members
    <2>1. i + 1 \in 1 .. Len(w) /\ 1 < i + 1  BY <1>1
    <2> QED BY <2>1, <1>1 DEF Planned
  <1> QED BY <1>1, <1>2, <1>3 DEF t

\* w is a list of the steps of `steps`, in order.
Lists(w, steps) == w \in Seq(Steps) /\ Planned(w) /\ Members(w) = steps

\* Two lists put together, where all of the first comes before the second.
LEMMA JoinLists ==
  ASSUME NEW u, NEW w, NEW S, NEW T, Lists(u, S), Lists(w, T),
         \A x \in S, y \in T : Precedes(x, y)
  PROVE  Lists(u \o w, S \cup T)
  BY Joins, Concat DEF Lists

\* A step on its own.
LEMMA Single == ASSUME NEW x \in Steps PROVE Lists(<<x>>, {x})
  BY Singles DEF Lists

\* No steps.
LEMMA Empty == Lists(<< >>, {})
  BY Nothing DEF Lists

\* wake_stream: the reader, then the writer.
LEMMA WakeStreamList == Lists(WakeStream, {"oweReader", "oweWriter"})
  <1>1. WakeStream = <<"oweReader">> \o <<"oweWriter">>  BY DEF WakeStream
  <1>2. Precedes("oweReader", "oweWriter")  BY DEF Precedes, Rank
  <1>3. Lists(<<"oweReader">>, {"oweReader"}) /\ Lists(<<"oweWriter">>, {"oweWriter"})
    BY Single DEF Steps
  <1>4. Lists(<<"oweReader">> \o <<"oweWriter">>, {"oweReader"} \cup {"oweWriter"})
    BY <1>2, <1>3, JoinLists
  <1>5. {"oweReader"} \cup {"oweWriter"} = {"oweReader", "oweWriter"}  OBVIOUS
  <1> QED BY <1>1, <1>4, <1>5

\* fail: the failure is pushed, the request is given up and a reset is asked for.
LEMMA FailList == Lists(Fail, {"pushFailure", "cancelRequest", "wantReset"})
  <1>1. /\ Fail \in Seq(Steps) /\ Len(Fail) = 3 /\ Fail[1] = "pushFailure"
        /\ Fail[2] = "cancelRequest" /\ Fail[3] = "wantReset"
    BY DEF Fail, Steps
  <1>2. 1 .. 3 = {1, 2, 3}  OBVIOUS
  <1>3. Planned(Fail)  BY <1>1, <1>2 DEF Planned, Precedes, Rank, Twice
  <1> QED BY <1>1, <1>2, <1>3 DEF Lists, Members

\* The end of every callback that takes the stream out of the table.
LEMMA GoneList == Lists(Gone, {"cancelRequest", "oweReader", "oweWriter", "count"})
  <1>1. /\ Lists(<<"cancelRequest">>, {"cancelRequest"})
       /\ Lists(WakeStream, {"oweReader", "oweWriter"})
       /\ Lists(<<"count">>, {"count"})
    BY Single, WakeStreamList DEF Steps
  <1>2. \A x \in {"cancelRequest"}, y \in {"oweReader", "oweWriter"} : Precedes(x, y)
    BY DEF Precedes, Rank, Twice
  <1>3. {"cancelRequest"} \cup {"oweReader", "oweWriter"}
        = {"cancelRequest", "oweReader", "oweWriter"}
    OBVIOUS
  <1>4. Lists(<<"cancelRequest">> \o WakeStream, {"cancelRequest", "oweReader", "oweWriter"})
    BY <1>1, <1>2, <1>3, JoinLists
  <1>5. \A x \in {"cancelRequest", "oweReader", "oweWriter"}, y \in {"count"} : Precedes(x, y)
    BY DEF Precedes, Rank, Twice
  <1>6. {"cancelRequest", "oweReader", "oweWriter"} \cup {"count"}
        = {"cancelRequest", "oweReader", "oweWriter", "count"}
    OBVIOUS
  <1>7. Lists(<<"cancelRequest">> \o WakeStream \o <<"count">>,
              {"cancelRequest", "oweReader", "oweWriter", "count"})
    BY <1>1, <1>4, <1>5, <1>6, JoinLists
  <1> QED BY <1>7 DEF Gone

\* on_headers without an end.
LEMMA HeadSteps == Lists(<<"pushHead">> \o WakeStream, {"pushHead", "oweReader", "oweWriter"})
  <1>1. /\ Lists(<<"pushHead">>, {"pushHead"})
       /\ Lists(WakeStream, {"oweReader", "oweWriter"})
    BY Single, WakeStreamList DEF Steps
  <1>2. \A x \in {"pushHead"}, y \in {"oweReader", "oweWriter"} : Precedes(x, y)
    BY DEF Precedes, Rank, Twice
  <1>3. {"pushHead"} \cup {"oweReader", "oweWriter"}
        = {"pushHead", "oweReader", "oweWriter"}
    OBVIOUS
  <1>4. Lists(<<"pushHead">> \o WakeStream, {"pushHead", "oweReader", "oweWriter"})
    BY <1>1, <1>2, <1>3, JoinLists
  <1> QED BY <1>4

\* on_headers with the end.
LEMMA HeadEndSteps ==
  Lists(<<"pushHead">> \o <<"pushEnd">> \o WakeStream,
        {"pushHead", "pushEnd", "oweReader", "oweWriter"})
  <1>1. /\ Lists(<<"pushHead">>, {"pushHead"})
       /\ Lists(<<"pushEnd">>, {"pushEnd"})
       /\ Lists(WakeStream, {"oweReader", "oweWriter"})
    BY Single, WakeStreamList DEF Steps
  <1>2. \A x \in {"pushHead"}, y \in {"pushEnd"} : Precedes(x, y)
    BY DEF Precedes, Rank, Twice
  <1>3. {"pushHead"} \cup {"pushEnd"} = {"pushHead", "pushEnd"}  OBVIOUS
  <1>4. Lists(<<"pushHead">> \o <<"pushEnd">>, {"pushHead", "pushEnd"})
    BY <1>1, <1>2, <1>3, JoinLists
  <1>5. \A x \in {"pushHead", "pushEnd"}, y \in {"oweReader", "oweWriter"} : Precedes(x, y)
    BY DEF Precedes, Rank, Twice
  <1>6. {"pushHead", "pushEnd"} \cup {"oweReader", "oweWriter"}
        = {"pushHead", "pushEnd", "oweReader", "oweWriter"}
    OBVIOUS
  <1>7. Lists(<<"pushHead">> \o <<"pushEnd">> \o WakeStream,
              {"pushHead", "pushEnd", "oweReader", "oweWriter"})
    BY <1>1, <1>4, <1>5, <1>6, JoinLists
  <1> QED BY <1>7

\* on_data with the end.
LEMMA EndSteps == Lists(<<"pushEnd">> \o WakeStream, {"pushEnd", "oweReader", "oweWriter"})
  <1>1. /\ Lists(<<"pushEnd">>, {"pushEnd"})
       /\ Lists(WakeStream, {"oweReader", "oweWriter"})
    BY Single, WakeStreamList DEF Steps
  <1>2. \A x \in {"pushEnd"}, y \in {"oweReader", "oweWriter"} : Precedes(x, y)
    BY DEF Precedes, Rank, Twice
  <1>3. {"pushEnd"} \cup {"oweReader", "oweWriter"} = {"pushEnd", "oweReader", "oweWriter"}  OBVIOUS
  <1>4. Lists(<<"pushEnd">> \o WakeStream, {"pushEnd", "oweReader", "oweWriter"})
    BY <1>1, <1>2, <1>3, JoinLists
  <1> QED BY <1>4

\* on_data for a response the fiber has closed.
LEMMA StoppedSteps == Lists(<<"stopped">> \o WakeStream, {"stopped", "oweReader", "oweWriter"})
  <1>1. /\ Lists(<<"stopped">>, {"stopped"})
       /\ Lists(WakeStream, {"oweReader", "oweWriter"})
    BY Single, WakeStreamList DEF Steps
  <1>2. \A x \in {"stopped"}, y \in {"oweReader", "oweWriter"} : Precedes(x, y)
    BY DEF Precedes, Rank, Twice
  <1>3. {"stopped"} \cup {"oweReader", "oweWriter"} = {"stopped", "oweReader", "oweWriter"}  OBVIOUS
  <1>4. Lists(<<"stopped">> \o WakeStream, {"stopped", "oweReader", "oweWriter"})
    BY <1>1, <1>2, <1>3, JoinLists
  <1> QED BY <1>4

\* on_trailers.
LEMMA TrailersList ==
  Lists(<<"setTrailers">> \o <<"pushEnd">> \o WakeStream,
        {"setTrailers", "pushEnd", "oweReader", "oweWriter"})
  <1>1. /\ Lists(<<"setTrailers">>, {"setTrailers"})
       /\ Lists(<<"pushEnd">>, {"pushEnd"})
       /\ Lists(WakeStream, {"oweReader", "oweWriter"})
    BY Single, WakeStreamList DEF Steps
  <1>2. \A x \in {"setTrailers"}, y \in {"pushEnd"} : Precedes(x, y)
    BY DEF Precedes, Rank, Twice
  <1>3. {"setTrailers"} \cup {"pushEnd"} = {"setTrailers", "pushEnd"}  OBVIOUS
  <1>4. Lists(<<"setTrailers">> \o <<"pushEnd">>, {"setTrailers", "pushEnd"})
    BY <1>1, <1>2, <1>3, JoinLists
  <1>5. \A x \in {"setTrailers", "pushEnd"}, y \in {"oweReader", "oweWriter"} : Precedes(x, y)
    BY DEF Precedes, Rank, Twice
  <1>6. {"setTrailers", "pushEnd"} \cup {"oweReader", "oweWriter"}
        = {"setTrailers", "pushEnd", "oweReader", "oweWriter"}
    OBVIOUS
  <1>7. Lists(<<"setTrailers">> \o <<"pushEnd">> \o WakeStream,
              {"setTrailers", "pushEnd", "oweReader", "oweWriter"})
    BY <1>1, <1>4, <1>5, <1>6, JoinLists
  <1> QED BY <1>7

\* on_headers of a response that is not valid.
LEMMA FailSteps ==
  Lists(Fail \o WakeStream,
        {"pushFailure", "cancelRequest", "wantReset", "oweReader", "oweWriter"})
  <1>1. /\ Lists(Fail, {"pushFailure", "cancelRequest", "wantReset"})
       /\ Lists(WakeStream, {"oweReader", "oweWriter"})
    BY FailList, WakeStreamList DEF Steps
  <1>2. \A x \in {"pushFailure", "cancelRequest", "wantReset"},
            y \in {"oweReader", "oweWriter"} : Precedes(x, y)
    BY DEF Precedes, Rank, Twice
  <1>3. {"pushFailure", "cancelRequest", "wantReset"} \cup {"oweReader", "oweWriter"}
        = {"pushFailure", "cancelRequest", "wantReset", "oweReader", "oweWriter"}
    OBVIOUS
  <1>4. Lists(Fail \o WakeStream,
              {"pushFailure", "cancelRequest", "wantReset", "oweReader", "oweWriter"})
    BY <1>1, <1>2, <1>3, JoinLists
  <1> QED BY <1>4

\* on_data beyond the limit wakes the worker to reset the stream.
LEMMA OverflowSteps ==
  Lists(Fail \o WakeStream \o <<"wakeSelf">>,
        {"pushFailure", "cancelRequest", "wantReset", "oweReader", "oweWriter", "wakeSelf"})
  <1>1. /\ Lists(Fail, {"pushFailure", "cancelRequest", "wantReset"})
       /\ Lists(WakeStream, {"oweReader", "oweWriter"})
       /\ Lists(<<"wakeSelf">>, {"wakeSelf"})
    BY FailList, WakeStreamList, Single DEF Steps
  <1>2. \A x \in {"pushFailure", "cancelRequest", "wantReset"},
            y \in {"oweReader", "oweWriter"} : Precedes(x, y)
    BY DEF Precedes, Rank, Twice
  <1>3. {"pushFailure", "cancelRequest", "wantReset"} \cup {"oweReader", "oweWriter"}
        = {"pushFailure", "cancelRequest", "wantReset", "oweReader", "oweWriter"}
    OBVIOUS
  <1>4. Lists(Fail \o WakeStream,
              {"pushFailure", "cancelRequest", "wantReset", "oweReader", "oweWriter"})
    BY <1>1, <1>2, <1>3, JoinLists
  <1>5. \A x \in {"pushFailure", "cancelRequest", "wantReset", "oweReader", "oweWriter"},
            y \in {"wakeSelf"} : Precedes(x, y)
    BY DEF Precedes, Rank, Twice
  <1>6. {"pushFailure", "cancelRequest", "wantReset", "oweReader", "oweWriter"} \cup {"wakeSelf"}
        = {"pushFailure", "cancelRequest", "wantReset", "oweReader", "oweWriter", "wakeSelf"}
    OBVIOUS
  <1>7. Lists(Fail \o WakeStream \o <<"wakeSelf">>,
              {"pushFailure", "cancelRequest", "wantReset", "oweReader", "oweWriter", "wakeSelf"})
    BY <1>1, <1>4, <1>5, <1>6, JoinLists
  <1> QED BY <1>7

\* A stream that never went out, refused or abandoned in the queue.
LEMMA UnsentSteps ==
  Lists(Fail \o WakeStream \o <<"count">>,
        {"pushFailure", "cancelRequest", "wantReset", "oweReader", "oweWriter", "count"})
  <1>1. /\ Lists(Fail, {"pushFailure", "cancelRequest", "wantReset"})
       /\ Lists(WakeStream, {"oweReader", "oweWriter"})
       /\ Lists(<<"count">>, {"count"})
    BY FailList, WakeStreamList, Single DEF Steps
  <1>2. \A x \in {"pushFailure", "cancelRequest", "wantReset"},
            y \in {"oweReader", "oweWriter"} : Precedes(x, y)
    BY DEF Precedes, Rank, Twice
  <1>3. {"pushFailure", "cancelRequest", "wantReset"} \cup {"oweReader", "oweWriter"}
        = {"pushFailure", "cancelRequest", "wantReset", "oweReader", "oweWriter"}
    OBVIOUS
  <1>4. Lists(Fail \o WakeStream,
              {"pushFailure", "cancelRequest", "wantReset", "oweReader", "oweWriter"})
    BY <1>1, <1>2, <1>3, JoinLists
  <1>5. \A x \in {"pushFailure", "cancelRequest", "wantReset", "oweReader", "oweWriter"},
            y \in {"count"} : Precedes(x, y)
    BY DEF Precedes, Rank, Twice
  <1>6. {"pushFailure", "cancelRequest", "wantReset", "oweReader", "oweWriter"} \cup {"count"}
        = {"pushFailure", "cancelRequest", "wantReset", "oweReader", "oweWriter", "count"}
    OBVIOUS
  <1>7. Lists(Fail \o WakeStream \o <<"count">>,
              {"pushFailure", "cancelRequest", "wantReset", "oweReader", "oweWriter", "count"})
    BY <1>1, <1>4, <1>5, <1>6, JoinLists
  <1> QED BY <1>7

\* completed, of a response that was not over.
LEMMA EndGone ==
  Lists(<<"pushEnd">> \o Gone,
        {"pushEnd", "cancelRequest", "oweReader", "oweWriter", "count"})
  <1>1. /\ Lists(<<"pushEnd">>, {"pushEnd"})
       /\ Lists(Gone, {"cancelRequest", "oweReader", "oweWriter", "count"})
    BY Single, GoneList DEF Steps
  <1>2. \A x \in {"pushEnd"},
            y \in {"cancelRequest", "oweReader", "oweWriter", "count"} : Precedes(x, y)
    BY DEF Precedes, Rank, Twice
  <1>3. {"pushEnd"} \cup {"cancelRequest", "oweReader", "oweWriter", "count"}
        = {"pushEnd", "cancelRequest", "oweReader", "oweWriter", "count"}
    OBVIOUS
  <1>4. Lists(<<"pushEnd">> \o Gone,
              {"pushEnd", "cancelRequest", "oweReader", "oweWriter", "count"})
    BY <1>1, <1>2, <1>3, JoinLists
  <1> QED BY <1>4

\* A reset, or abandon_upstreams, of a response that was not over.
LEMMA FailGone ==
  Lists(Fail \o Gone,
        {"pushFailure", "cancelRequest", "wantReset", "oweReader", "oweWriter", "count"})
  <1>1. /\ Lists(Fail, {"pushFailure", "cancelRequest", "wantReset"})
       /\ Lists(Gone, {"cancelRequest", "oweReader", "oweWriter", "count"})
    BY FailList, GoneList DEF Steps
  <1>2. \A x \in {"pushFailure", "cancelRequest", "wantReset"},
            y \in {"cancelRequest", "oweReader", "oweWriter", "count"} : Precedes(x, y)
    BY DEF Precedes, Rank, Twice
  <1>3. {"pushFailure", "cancelRequest", "wantReset"} \cup
          {"cancelRequest", "oweReader", "oweWriter", "count"}
        = {"pushFailure", "cancelRequest", "wantReset", "oweReader", "oweWriter", "count"}
    OBVIOUS
  <1>4. Lists(Fail \o Gone,
              {"pushFailure", "cancelRequest", "wantReset", "oweReader", "oweWriter", "count"})
    BY <1>1, <1>2, <1>3, JoinLists
  <1> QED BY <1>4

-----------------------------------------------------------------------------
(* The inductive invariant. *)

Todo == Members(worker)

Some(steps) == \E step \in steps : step \in Todo

\* A callback that gives the reader something tells it, and the writer; a pump
\* follows whatever Envoy may call back from.
Plan ==
  /\ Planned(worker)
  /\ Some({"inside", "start", "first"}) => "pump" \in Todo
  /\ Some({"pushHead", "pushEnd", "pushFailure"}) => "oweReader" \in Todo
  /\ Some({"cancelRequest", "oweReader"}) => "oweWriter" \in Todo
  /\ ~("pushEnd" \in Todo /\ "pushFailure" \in Todo)

\* The OpenStream is open as long as Envoy's stream is, and untouched before.
Handle ==
  /\ stream.state = "open" <=> envoy = "open"
  /\ stream.state = "open" => ~closed
  /\ stream.state = "none" => stream = NoStream /\ phase = "none"
  /\ stream.state = "none" => Todo \subseteq {"start", "first", "pump"}
  /\ "send" \in Todo => stream.state = "open" /\ ~stream.request_ended
  /\ queued => stream.state = "none" /\ ~closed /\ ~Some({"start", "first"})
  /\ Some({"start", "first"}) => stream.state = "none" /\ ~closed

\* A call that was made is queued, about to start or in the table, unless it
\* was refused.
Early ==
  /\ stream.state = "none" /\ ~queued /\ ~Some({"start", "first"}) =>
       pc.reader = "call" \/ result = "refused"
  /\ pc.reader = "call" =>
       /\ stream.state = "none" /\ ~queued /\ ~event /\ worker = << >> /\ closing = << >>
       /\ request = EmptyStream /\ written = 0 /\ uploaded = 0

\* Where the fibers may be.
Places ==
  /\ pc.reader \in {"call", "wake", "pull", "check", "park", "finish", "timeout", "stopping"} =>
       cpu = "reader"
  /\ result # "none" <=> pc.reader \in {"close", "done"}
  /\ response.waiter # NoFiber => pc.reader \in {"parked", "timeout", "stopping"}
  /\ pc.reader = "parked" => response.waiter # NoFiber
  /\ pc.upload = "parked" <=> request.waiter # NoFiber
  /\ pc.reader \in {"call", "wake", "finish"} \/ result = "refused" => pc.upload = "none"
  /\ pc.reader = "finish" \/ "finish" \in Members(closing) => mode = "protocol"
  /\ mode # "body" /\ loop = "head" => pc.upload = "none"
  /\ pc.reader \in {"call", "wake", "head"} => loop = "head"
  /\ pc.reader \in {"finish", "app", "pull", "check"} => loop = "pull"
  /\ reactor = "wait" => resolving = {}

\* A stream that left the table has an outcome, and is counted or about to be.
Counts ==
  /\ stream.state = "gone" =>
       /\ stream.outcome # "none"
       /\ "count" \in Todo => counted = << >>
       /\ "count" \notin Todo => counted = <<stream.outcome>>
  /\ stream.state # "gone" => counted = << >> /\ "count" \notin Todo
  /\ stream.response_ended /\ "stopped" \notin Todo => stream.outcome # "none"
  /\ "stopped" \in Todo => stream.state = "open" /\ stream.response_ended
  /\ stream.state = "open" /\ ~stream.response_ended => stream.outcome = "none"

\* The reader has given up, and has said why.
GaveUp == result # "none" /\ (result = "timeout" => timedOut)

\* What closes the channel of a call without a body is the reader, which says why
\* before; or the stream is over.
Reasons ==
  /\ stream.outcome = "timed_out" => timedOut
  /\ timedOut \/ "timedOut" \in Members(closing) => result = "timeout"
  /\ result = "timeout" => timedOut \/ (closing # << >> /\ Head(closing) = "timedOut")
  /\ "stopped" \in Todo => response.cancelled
  /\ stream.reset_sent => resetWanted
  /\ mode # "body" /\ Members(closing) \cap {"cancelResponse", "wantReset"} # {} => result # "none"
  /\ mode # "body" /\ ~closed /\ (resetWanted \/ response.cancelled \/ "wantReset" \in Todo) =>
       stream.outcome \notin {"none", "abandoned"} \/ GaveUp
  /\ mode # "body" /\ ~closed /\ stream.outcome = "abandoned"
       /\ (stream.state = "open" \/ stream.reset_sent) => result \notin {"none", "timeout"}

NoHead == \A i \in 1 .. Len(response.items) : response.items[i].kind # "head"

\* The response queue.
ResponseQueue ==
  /\ ~response.paused
  /\ response.cancelled => response.items = << >> /\ response.buffered_bytes = 0
  /\ ~response.cancelled =>
       /\ Ordered(response.items, got, accepted)
       /\ response.buffered_bytes = accepted - got
  /\ \A i \in 1 .. Len(response.items) : response.items[i].kind \in {"end", "failed"} =>
       i = Len(response.items) /\ response.ended
  /\ \A i, j \in 1 .. Len(response.items) :
       response.items[i].kind = "head" /\ response.items[j].kind = "head" => i = j
  /\ phase = "none" \/ "pushHead" \in Todo => loop = "head" /\ NoHead
  /\ "pushHead" \in Todo => phase # "none"
  /\ loop = "pull" => NoHead
  /\ loop = "head" /\ response.items # << >> => response.items[1].kind # "chunk"
  /\ phase = "body" /\ stream.state = "open" /\ ~stream.response_ended /\ ~response.cancelled =>
       loop = "pull" \/ response.items # << >> \/ "pushHead" \in Todo
  /\ response.ended \/ Some({"pushEnd", "pushFailure"}) =>
       stream.response_ended \/ stream.state = "gone"
  /\ Some({"pushHead", "pushEnd", "pushFailure"}) => ~response.ended

\* A reader that has found nothing has been told of everything since.
Told ==
  pc.reader \in {"check", "park", "parked"} /\ response.items # << >> =>
    "response" \in owed \cup resolving \/ "oweReader" \in Todo

\* The response is over, and nothing can be added to it.
EndSeen ==
  /\ stream.outcome = "completed"
  /\ phase \in {"none", "body"} => envoy = "over"

Ending ==
  /\ phase \in {"trailers", "ended"} => stream.response_ended
  /\ "pushEnd" \in Todo => EndSeen /\ (phase = "trailers" => trailers \/ "setTrailers" \in Todo)
  /\ response.ended /\ ~response.cancelled /\ ~FailureQueued /\ pc.reader \notin {"close", "done"} =>
       EndSeen /\ (phase = "trailers" => trailers)
  /\ result = "eof" => EndSeen /\ (phase = "trailers" => trailers)

\* The request queue.
RequestQueue ==
  /\ ~request.paused
  /\ request.cancelled => request.items = << >> /\ request.buffered_bytes = 0
  /\ ~request.cancelled =>
       /\ Ordered(request.items, uploaded, written)
       /\ request.buffered_bytes = written - uploaded
  /\ written =< RequestBytes
  /\ \A i \in 1 .. Len(request.items) :
       request.items[i].kind # "chunk" => i = Len(request.items) /\ request.ended
  /\ mode = "body" /\ request.ended /\ ~request.cancelled => written = RequestBytes
  /\ stream.request_ended /\ mode = "body" => uploaded = RequestBytes

Finishing ==
  mode = "body" /\ pc.upload = "finish" => written = RequestBytes \/ Refuses(request)

\* The reader closes, and stops the writer: it is not the reader of a relay that
\* waits for the writer to end.
ReaderStops == pc.reader = "close" /\ (result \notin Ends \/ mode # "protocol")

\* Whoever makes room for the writer, or ends its queue, tells it.
WriterTold ==
  /\ pc.upload = "parked" /\ ~MayParkWriter(request) =>
       \/ "request" \in owed \cup resolving
       \/ Some({"oweWriter", "owePump"})
       \/ stream.state = "open" /\ Some({"pump", "send"})
       \/ ReaderStops
  /\ pc.upload = "parked" /\ closing # << >> => ReaderStops

IInv ==
  /\ TypeOK /\ Plan /\ Handle /\ Early /\ Places /\ Counts /\ Reasons /\ ResponseQueue /\ Told
  /\ Ending /\ RequestQueue /\ Finishing /\ WriterTold

\* Nothing is left of a list without members.
LEMMA NoneLeft == ASSUME NEW w \in Seq(Steps) PROVE w = << >> <=> Members(w) = {}
  <1>1. w # << >> => 1 \in 1 .. Len(w)  OBVIOUS
  <1>2. w = << >> => 1 .. Len(w) = {}  OBVIOUS
  <1> QED BY <1>1, <1>2 DEF Members

\* The worker's list holds steps, and is empty when nothing is to do.
LEMMA Known == TypeOK => Todo \subseteq Steps /\ (worker = << >> <=> Todo = {})
  <1> SUFFICES ASSUME TypeOK PROVE Todo \subseteq Steps /\ (worker = << >> <=> Todo = {})
    OBVIOUS
  <1>1. worker \in Seq(Steps)  BY DEF TypeOK, WorkerTypes
  <1>2. \A i \in 1 .. Len(worker) : worker[i] \in Steps  BY <1>1
  <1> QED BY <1>1, <1>2, NoneLeft DEF Todo, Members

\* What the worker does first is in the plan, and what is left comes after it.
LEMMA Begun ==
  ASSUME TypeOK, Plan, NEW x, At(x)
  PROVE  /\ x \in Steps /\ x \in Todo /\ Lists(Rest, Members(Rest)) /\ Members(Rest) \subseteq Steps
         /\ Todo = {x} \cup Members(Rest) /\ \A y \in Members(Rest) : Precedes(x, y)
         /\ x \notin Twice => Members(Rest) = Todo \ {x}
  <1>1. worker \in Seq(Steps) /\ Planned(worker) /\ worker # << >> /\ Head(worker) = x
    BY DEF TypeOK, WorkerTypes, Plan, At
  <1>2. /\ x \in Steps /\ Rest \in Seq(Steps) /\ Planned(Rest)
        /\ Todo = {x} \cup Members(Rest) /\ \A y \in Members(Rest) : Precedes(x, y)
    BY <1>1, Pops, Rests DEF Rest, Todo
  <1>3. x \notin Twice => ~Precedes(x, x)  BY <1>2 DEF Precedes, Rank, Steps
  <1> QED BY <1>2, <1>3, Known DEF Lists

\* What a step the worker has taken leaves to do.
LEMMA Popped ==
  ASSUME TypeOK, Plan, NEW x, At(x), worker' = Rest
  PROVE  /\ x \in Steps /\ x \in Todo /\ Todo \subseteq Steps
         /\ worker' \in Seq(Steps) /\ Planned(worker)'
         /\ Todo = {x} \cup Todo' /\ \A y \in Todo' : Precedes(x, y)
         /\ x \notin Twice => Todo' = Todo \ {x}
  BY Begun, Known DEF Lists, Todo

-----------------------------------------------------------------------------
(* The types of the fields, and what a step leaves alone. *)

\* The fields of the two queues.
LEMMA Fields ==
  TypeOK =>
    /\ response \in StreamsOf({"reader"}) /\ request \in StreamsOf({"upload"})
    /\ response.items \in Seq(Items) /\ response.buffered_bytes \in Nat
    /\ response.cancelled \in BOOLEAN /\ response.ended \in BOOLEAN /\ response.paused \in BOOLEAN
    /\ response.waiter \in {NoFiber, "reader"}
    /\ request.items \in Seq(Items) /\ request.buffered_bytes \in Nat
    /\ request.cancelled \in BOOLEAN /\ request.ended \in BOOLEAN /\ request.paused \in BOOLEAN
    /\ request.waiter \in {NoFiber, "upload"}
    /\ ResponseBytes \in Nat /\ RequestBytes \in Nat \ {0} /\ MaxBufferedBytes \in Nat \ {0}
  BY BytesAssumption, MaxBufferedBytesAssumption DEF TypeOK, ChannelTypes, StreamsOf

\* The fields of the OpenStream.
LEMMA StreamFields ==
  TypeOK =>
    /\ stream \in OpenStreams /\ stream.state \in {"none", "open", "gone"}
    /\ stream.outcome \in {"none"} \cup Outcomes
    /\ stream.request_ended \in BOOLEAN /\ stream.response_ended \in BOOLEAN
    /\ stream.reset_sent \in BOOLEAN /\ stream.upgraded \in BOOLEAN
  BY DEF TypeOK, WorkerTypes, OpenStreams

\* get_or_insert keeps an outcome that is there, and touches nothing else.
LEMMA SettledFacts ==
  ASSUME NEW s \in OpenStreams, NEW o \in Outcomes
  PROVE  /\ Settled(s, o) \in OpenStreams
         /\ Settled(s, o).outcome = IF s.outcome = "none" THEN o ELSE s.outcome
         /\ Settled(s, o).outcome # "none"
         /\ Settled(s, o).state = s.state /\ Settled(s, o).request_ended = s.request_ended
         /\ Settled(s, o).response_ended = s.response_ended
         /\ Settled(s, o).reset_sent = s.reset_sent /\ Settled(s, o).upgraded = s.upgraded
  <1> DEFINE oo == IF s.outcome = "none" THEN o ELSE s.outcome
  <1>1. oo \in Outcomes /\ oo \in {"none"} \cup Outcomes /\ oo # "none"
    BY DEF OpenStreams, Outcomes
  <1>2. Settled(s, o) = [s EXCEPT !.outcome = oo]  BY DEF Settled
  <1> HIDE DEF oo
  <1>3. /\ Settled(s, o) \in OpenStreams /\ Settled(s, o).outcome = oo
        /\ Settled(s, o).state = s.state /\ Settled(s, o).request_ended = s.request_ended
        /\ Settled(s, o).response_ended = s.response_ended
        /\ Settled(s, o).reset_sent = s.reset_sent /\ Settled(s, o).upgraded = s.upgraded
    BY <1>1, <1>2 DEF OpenStreams
  <1> QED BY <1>1, <1>3 DEF oo

\* end and fail.
LEMMA OverFacts ==
  ASSUME NEW s \in OpenStreams, NEW o \in Outcomes
  PROVE  /\ Over(s, o) \in OpenStreams /\ Over(s, o).response_ended
         /\ Over(s, o).outcome = IF s.outcome = "none" THEN o ELSE s.outcome
         /\ Over(s, o).outcome # "none"
         /\ Over(s, o).state = s.state /\ Over(s, o).request_ended = s.request_ended
         /\ Over(s, o).reset_sent = s.reset_sent /\ Over(s, o).upgraded = s.upgraded
  <1> DEFINE yes == TRUE
             t == [s EXCEPT !.response_ended = yes]
  <1>1. yes \in BOOLEAN /\ yes  OBVIOUS
  <1>2. Over(s, o) = Settled(t, o)  BY DEF Over
  <1> HIDE DEF yes
  <1>3. /\ t \in OpenStreams /\ t.response_ended = yes /\ t.outcome = s.outcome
        /\ t.state = s.state /\ t.request_ended = s.request_ended
        /\ t.reset_sent = s.reset_sent /\ t.upgraded = s.upgraded
    BY <1>1 DEF OpenStreams
  <1> HIDE DEF t
  <1>4. /\ Over(s, o) \in OpenStreams /\ Over(s, o).response_ended = yes
        /\ Over(s, o).outcome = IF s.outcome = "none" THEN o ELSE s.outcome
        /\ Over(s, o).outcome # "none"
        /\ Over(s, o).state = s.state /\ Over(s, o).request_ended = s.request_ended
        /\ Over(s, o).reset_sent = s.reset_sent /\ Over(s, o).upgraded = s.upgraded
    BY <1>2, <1>3, SettledFacts
  <1> QED BY <1>1, <1>4, Zenon

\* A stream leaves the table.
LEMMA GoneFacts ==
  ASSUME NEW s \in OpenStreams
  PROVE  LET g == [s EXCEPT !.state = "gone"]
         IN  /\ g \in OpenStreams /\ g.state = "gone" /\ g.outcome = s.outcome
             /\ g.request_ended = s.request_ended /\ g.response_ended = s.response_ended
             /\ g.reset_sent = s.reset_sent /\ g.upgraded = s.upgraded
  BY DEF OpenStreams

\* Where the two fibers may be.
LEMMA RubyFields ==
  TypeOK =>
    /\ pc = [reader |-> pc.reader, upload |-> pc.upload]
    /\ pc.reader \in {"call", "wake", "head", "finish", "app", "pull", "check", "park", "parked",
                      "resumed", "timeout", "stopping", "close", "done"}
    /\ pc.upload \in {"none", "write", "push", "wake", "park", "parked", "resumed", "finish", "done"}
  BY DEF TypeOK, RubyTypes

\* A fiber moves and the other stays.
LEMMA Moves ==
  ASSUME RubyTypes
  PROVE  /\ \A where : Goto("reader", where) =>
               pc' = [reader |-> where, upload |-> pc.upload] /\ pc'.reader = where
               /\ pc'.upload = pc.upload
         /\ \A where : Goto("upload", where) =>
               pc' = [reader |-> pc.reader, upload |-> where] /\ pc'.reader = pc.reader
               /\ pc'.upload = where
  BY DEF Goto, RubyTypes

\* The fibers stay where they are.
LEMMA Stays ==
  ASSUME RubyTypes, UNCHANGED <<reactor, resolving, pc, mode, loop, got, written, result>>,
         cpu' \in {"reactor"} \cup Fibers, closing' \in Seq(ClosingSteps)
  PROVE  RubyTypes'
  BY ZenonT(40) DEF RubyTypes

\* What closing the channel consists of.
LEMMA ClosingLists ==
  /\ Close \in Seq(ClosingSteps) /\ TimeOut \in Seq(ClosingSteps)
  /\ Members(Close) = {"cancelResponse", "cancelRequest", "wantReset", "wakeWorker"}
  /\ Members(TimeOut) = {"timedOut"} \cup Members(Close)
  /\ TimeOut # << >> /\ Head(TimeOut) = "timedOut"
  /\ << >> \in Seq(ClosingSteps) /\ Members(<< >>) = {}
  /\ <<"wakeWorker">> \in Seq(ClosingSteps) /\ Members(<<"wakeWorker">>) = {"wakeWorker"}
  /\ <<"finish", "wakeWorker">> \in Seq(ClosingSteps)
  /\ Members(<<"finish", "wakeWorker">>) = {"finish", "wakeWorker"}
  <1>1. 1 .. 1 = {1} /\ 1 .. 2 = {1, 2} /\ 1 .. 4 = {1, 2, 3, 4}  OBVIOUS
  <1>2. /\ Close \in Seq(ClosingSteps)
        /\ Members(Close) = {"cancelResponse", "cancelRequest", "wantReset", "wakeWorker"}
    BY <1>1 DEF Close, Members, ClosingSteps
  <1>3. /\ <<"timedOut">> \in Seq(ClosingSteps) /\ Members(<<"timedOut">>) = {"timedOut"}
        /\ <<"wakeWorker">> \in Seq(ClosingSteps) /\ Members(<<"wakeWorker">>) = {"wakeWorker"}
        /\ << >> \in Seq(ClosingSteps) /\ Members(<< >>) = {}
    BY <1>1 DEF Members, ClosingSteps
  <1>4. /\ <<"finish", "wakeWorker">> \in Seq(ClosingSteps)
        /\ Members(<<"finish", "wakeWorker">>) = {"finish", "wakeWorker"}
    BY <1>1 DEF Members, ClosingSteps
  <1>5. TimeOut \in Seq(ClosingSteps) /\ Members(TimeOut) = {"timedOut"} \cup Members(Close)
    <2> DEFINE reason == <<"timedOut">>
    <2>1. reason \in Seq(ClosingSteps) /\ Members(reason) = {"timedOut"} /\ TimeOut = reason \o Close
      BY <1>3 DEF TimeOut
    <2> HIDE DEF reason
    <2> QED BY <2>1, <1>2, Concat
  <1>6. TimeOut # << >> /\ Head(TimeOut) = "timedOut"
    BY DEF TimeOut, Close
  <1> QED BY <1>2, <1>3, <1>4, <1>5, <1>6

\* Each part of the invariant depends on these variables alone.
LEMMA Untouched ==
  /\ ChannelTypes /\ UNCHANGED <<response, request, resetWanted, timedOut, trailers>> =>
        ChannelTypes'
  /\ RouteTypes /\ UNCHANGED <<closed, queued, event, owed>> => RouteTypes'
  /\ WorkerTypes /\ UNCHANGED <<worker, stream, envoy, phase, reported, accepted, uploaded,
                                counted, stop>> => WorkerTypes'
  /\ RubyTypes /\ UNCHANGED <<cpu, reactor, resolving, pc, closing, mode, loop, got, written,
                              result>> => RubyTypes'
  /\ Plan /\ worker' = worker => Plan'
  /\ Handle /\ UNCHANGED <<stream, envoy, closed, phase, worker, queued>> => Handle'
  /\ Early /\ UNCHANGED <<stream, queued, worker, result, event, closing, request, written,
                          uploaded>>
       /\ pc'.reader = pc.reader => Early'
  /\ Places /\ UNCHANGED <<pc, cpu, reactor, resolving, result, closing, mode, loop>>
       /\ response'.waiter = response.waiter /\ request'.waiter = request.waiter => Places'
  /\ Counts /\ UNCHANGED <<stream, worker, counted>> => Counts'
  /\ Reasons /\ UNCHANGED <<stream, timedOut, result, closing, worker, resetWanted, mode, closed>>
       /\ response'.cancelled = response.cancelled => Reasons'
  /\ ResponseQueue /\ UNCHANGED <<got, accepted, phase, worker, loop, stream>>
       /\ response'.items = response.items /\ response'.buffered_bytes = response.buffered_bytes
       /\ response'.cancelled = response.cancelled /\ response'.ended = response.ended
       /\ response'.paused = response.paused => ResponseQueue'
  /\ Told /\ UNCHANGED <<owed, resolving, worker>> /\ response'.items = response.items
       /\ pc'.reader = pc.reader => Told'
  /\ Ending /\ UNCHANGED <<phase, stream, worker, envoy, trailers, result>>
       /\ response'.items = response.items /\ response'.cancelled = response.cancelled
       /\ response'.ended = response.ended /\ pc'.reader = pc.reader => Ending'
  /\ RequestQueue /\ UNCHANGED <<written, uploaded, mode>>
       /\ request'.items = request.items /\ request'.buffered_bytes = request.buffered_bytes
       /\ request'.cancelled = request.cancelled /\ request'.ended = request.ended
       /\ request'.paused = request.paused
       /\ stream'.request_ended = stream.request_ended => RequestQueue'
  /\ Finishing /\ UNCHANGED <<written, mode>> /\ pc'.upload = pc.upload
       /\ request'.cancelled = request.cancelled /\ request'.ended = request.ended => Finishing'
  /\ WriterTold /\ UNCHANGED <<pc, request, owed, resolving, worker, closing, result, mode>>
       /\ stream'.state = stream.state => WriterTold'
  <1>1. worker' = worker => Todo' = Todo  BY DEF Todo
  <1>2. /\ ChannelTypes /\ UNCHANGED <<response, request, resetWanted, timedOut, trailers>> =>
             ChannelTypes'
        /\ RouteTypes /\ UNCHANGED <<closed, queued, event, owed>> => RouteTypes'
        /\ WorkerTypes /\ UNCHANGED <<worker, stream, envoy, phase, reported, accepted, uploaded,
                                      counted, stop>> => WorkerTypes'
        /\ RubyTypes /\ UNCHANGED <<cpu, reactor, resolving, pc, closing, mode, loop, got, written,
                                    result>> => RubyTypes'
    BY DEF ChannelTypes, RouteTypes, WorkerTypes, RubyTypes
  <1>3. Plan /\ worker' = worker => Plan'  BY <1>1 DEF Plan, Some
  <1>4. Handle /\ UNCHANGED <<stream, envoy, closed, phase, worker, queued>> => Handle'
    BY <1>1 DEF Handle, Some
  <1> QED
    BY <1>1, <1>2, <1>3, <1>4
    DEF Early, Places, Counts, Reasons, GaveUp, ResponseQueue, NoHead, Told, Ending,
         EndSeen, FailureQueued, RequestQueue, Finishing, WriterTold, ReaderStops, Ends, MayParkWriter, Full, Refuses,
         Some

-----------------------------------------------------------------------------
(* What a step does to a queue. *)

\* The end of the request body is queued once, and only if anything is accepted.
LEMMA EndsRequest ==
  ASSUME TypeOK, RequestQueue, request' = Push(request, Item("end", written, written))
  PROVE  /\ request' \in StreamsOf({"upload"}) /\ request'.waiter = request.waiter
         /\ ~request'.paused /\ request'.cancelled = request.cancelled
         /\ request'.buffered_bytes = request.buffered_bytes
         /\ request.cancelled => request'.items = << >>
         /\ ~request.cancelled => Ordered(request'.items, uploaded, written)
         /\ \A i \in 1 .. Len(request'.items) :
              request'.items[i].kind # "chunk" => i = Len(request'.items) /\ request'.ended
         /\ Refuses(request) => request' = request
         /\ Refuses(request')
  <1> DEFINE e == Item("end", written, written)
  <1>0. written \in Nat /\ uploaded \in Nat  BY DEF TypeOK, RubyTypes, WorkerTypes
  <1>1. e \in Items /\ e.kind = "end" /\ e.from = written /\ e.upto = written
    BY <1>0, ItemFacts DEF Kinds
  <1> HIDE DEF e
  <1>2. request' = Push(request, e)  BY DEF e
  <1>3. CASE Refuses(request)
    <2>1. request' = request  BY <1>2, <1>3 DEF Push
    <2> QED BY <1>3, <2>1, Fields DEF RequestQueue
  <1>4. CASE ~Refuses(request)
    <2>1. e.from =< e.upto /\ e.kind \in {"end", "failed"} /\ e.upto - e.from = 0
      BY <1>0, <1>1
    <2>2. /\ request' \in StreamsOf({"upload"}) /\ request'.items = Append(request.items, e)
          /\ request'.buffered_bytes = request.buffered_bytes + (e.upto - e.from)
          /\ request'.ended /\ request'.cancelled = request.cancelled
          /\ request'.paused = request.paused /\ request'.waiter = request.waiter
      BY <1>1, <1>2, <1>4, <2>1, Fields, PushFacts, SMTT(30)
    <2>3. ~request.cancelled /\ ~request.ended  BY <1>4 DEF Refuses
    <2>4. Ordered(request'.items, uploaded, written)
      <3>1. request.items \in Seq(Items) /\ Ordered(request.items, uploaded, written)
        BY <2>3, Fields DEF RequestQueue
      <3> QED BY <1>0, <1>1, <2>1, <2>2, <3>1, OrderedAppend
    <2>5. \A i \in 1 .. Len(request'.items) :
            request'.items[i].kind # "chunk" => i = Len(request'.items)
      <3>1. /\ Len(request'.items) = Len(request.items) + 1 /\ Len(request.items) \in Nat
            /\ \A i \in 1 .. Len(request.items) : request'.items[i] = request.items[i]
        BY <1>1, <2>2, Fields, AppendFacts, SMTT(30)
      <3> QED BY <3>1, <2>3 DEF RequestQueue
    <2> QED BY <1>4, <2>1, <2>2, <2>3, <2>4, <2>5, Fields DEF RequestQueue, Refuses
  <1> QED BY <1>3, <1>4

\* The reader takes what is first, and the rest stays in order.
LEMMA TakesResponse ==
  ASSUME TypeOK, ResponseQueue, CanTake(response), response' = TakeNext(response)
  PROVE  /\ response' \in StreamsOf({"reader"}) /\ response'.waiter = response.waiter
         /\ ~response'.paused /\ ~response.cancelled /\ ~response'.cancelled
         /\ response'.ended = response.ended
         /\ response.items # << >> /\ Head(response.items) = response.items[1]
         /\ response.items[1] \in Items /\ 1 \in 1 .. Len(response.items)
         /\ response'.items = Tail(response.items)
         /\ Len(response'.items) = Len(response.items) - 1 /\ Len(response.items) \in Nat
         /\ \A i \in 1 .. Len(response'.items) :
              i + 1 \in 1 .. Len(response.items) /\ response'.items[i] = response.items[i + 1]
         /\ Ordered(response'.items, response.items[1].upto, accepted)
         /\ response'.buffered_bytes = accepted - response.items[1].upto
         /\ response.items[1].kind # "chunk" => response.items[1].upto = got
         /\ response.items[1].kind \in {"end", "failed"} =>
              response.ended /\ Len(response.items) = 1 /\ response'.items = << >>
         /\ \A i \in 1 .. Len(response'.items) : response'.items[i].kind \in {"end", "failed"} =>
              i = Len(response'.items) /\ response'.ended
         /\ \A i, j \in 1 .. Len(response'.items) :
              response'.items[i].kind = "head" /\ response'.items[j].kind = "head" => i = j
         /\ NoHead \/ response.items[1].kind = "head" => NoHead'
         /\ response.items[1].kind # "failed" /\ FailureQueued => FailureQueued'
  <1>1. /\ got \in Nat /\ accepted \in Nat /\ response.items \in Seq(Items)
        /\ response \in StreamsOf({"reader"})
    BY Fields DEF TypeOK, RubyTypes, WorkerTypes
  <1>2. /\ response.items # << >> /\ ~response.cancelled
        /\ Ordered(response.items, got, accepted) /\ response.buffered_bytes = accepted - got
    BY Fields DEF CanTake, ResponseQueue
  <1>3. /\ Head(response.items) = response.items[1] /\ response.items[1] \in Items
        /\ 1 \in 1 .. Len(response.items) /\ Len(response.items) \in Nat
        /\ Len(Tail(response.items)) = Len(response.items) - 1
        /\ \A i \in 1 .. Len(Tail(response.items)) :
             /\ i + 1 \in 1 .. Len(response.items)
             /\ Tail(response.items)[i] = response.items[i + 1]
        /\ Len(response.items) = 1 => Tail(response.items) = << >>
    BY <1>1, <1>2, TailFacts
  <1> DEFINE e == response.items[1]
  <1>4. /\ Ordered(Tail(response.items), e.upto, accepted)
        /\ e.from = got /\ got =< e.upto /\ e.upto =< accepted
        /\ e.kind # "chunk" => e.upto = got
    BY <1>1, <1>2, OrderedTail
  <1>5. e.upto \in Nat /\ e.from \in Nat  BY <1>3 DEF Items
  <1> HIDE DEF e
  <1>6. e.from =< e.upto /\ e.upto - e.from =< response.buffered_bytes
    BY <1>1, <1>2, <1>4, <1>5
  <1>7. /\ response' \in StreamsOf({"reader"}) /\ response'.items = Tail(response.items)
        /\ response'.buffered_bytes = response.buffered_bytes - (e.upto - e.from)
        /\ response'.ended = response.ended /\ response'.cancelled = response.cancelled
        /\ response'.paused = response.paused /\ response'.waiter = response.waiter
    BY <1>1, <1>6, TakeFacts DEF e
  <1>8. response'.buffered_bytes = accepted - e.upto
    BY <1>1, <1>2, <1>4, <1>5, <1>7
  <1>9. e.kind \in {"end", "failed"} => response.ended /\ Len(response.items) = 1
    BY <1>3, Fields DEF ResponseQueue, e
  <1>10. /\ response'.items = Tail(response.items) /\ response'.ended = response.ended
         /\ Len(response'.items) = Len(response.items) - 1 /\ Len(response.items) \in Nat
         /\ 1 \in 1 .. Len(response.items)
         /\ \A i \in 1 .. Len(response'.items) :
              i + 1 \in 1 .. Len(response.items) /\ response'.items[i] = response.items[i + 1]
    BY <1>3, <1>7
  <1>11. /\ \A i \in 1 .. Len(response.items) : response.items[i].kind \in {"end", "failed"} =>
              i = Len(response.items) /\ response.ended
         /\ \A i, j \in 1 .. Len(response.items) :
              response.items[i].kind = "head" /\ response.items[j].kind = "head" => i = j
    BY DEF ResponseQueue
  <1>12. \A i \in 1 .. Len(response'.items) : response'.items[i].kind \in {"end", "failed"} =>
           i = Len(response'.items) /\ response'.ended
    BY <1>10, <1>11
  <1>13. \A i, j \in 1 .. Len(response'.items) :
           response'.items[i].kind = "head" /\ response'.items[j].kind = "head" => i = j
    <2> SUFFICES ASSUME NEW i \in 1 .. Len(response'.items), NEW j \in 1 .. Len(response'.items),
                        response'.items[i].kind = "head", response'.items[j].kind = "head"
                 PROVE  i = j
      OBVIOUS
    <2>1. i + 1 = j + 1  BY <1>10, <1>11
    <2> QED BY <2>1
  <1>14. NoHead \/ e.kind = "head" => NoHead'
    <2> SUFFICES ASSUME NoHead \/ e.kind = "head", NEW i \in 1 .. Len(response'.items)
                 PROVE  response'.items[i].kind # "head"
      BY DEF NoHead
    <2>1. i + 1 \in 1 .. Len(response.items) /\ response'.items[i] = response.items[i + 1]
          /\ i + 1 # 1
      BY <1>10
    <2> QED BY <2>1, <1>10, <1>11 DEF NoHead, e
  <1>15. e.kind # "failed" /\ FailureQueued => FailureQueued'
    <2> SUFFICES ASSUME e.kind # "failed", NEW i \in 1 .. Len(response.items),
                        response.items[i].kind = "failed"
                 PROVE  FailureQueued'
      BY DEF FailureQueued
    <2>1. i # 1 /\ i - 1 \in 1 .. Len(response'.items)  BY <1>10 DEF e
    <2>2. response'.items[i - 1] = response.items[i]  BY <1>10, <2>1
    <2> QED BY <2>1, <2>2 DEF FailureQueued
  <1> QED
    BY <1>1, <1>2, <1>3, <1>4, <1>7, <1>8, <1>9, <1>12, <1>13, <1>14, <1>15, Fields
    DEF ResponseQueue, e

\* The worker queues a head, an end or a failure, unless the reader has left.
LEMMA PushesResponse ==
  ASSUME TypeOK, ResponseQueue, ~response.ended, NEW k \in {"head", "end", "failed"},
         response' = Push(response, Item(k, accepted, accepted))
  PROVE  /\ response' \in StreamsOf({"reader"}) /\ response'.waiter = response.waiter
         /\ ~response'.paused /\ response'.cancelled = response.cancelled
         /\ response.cancelled => response' = response
         /\ ~response.cancelled =>
              /\ Ordered(response'.items, got, accepted)
              /\ response'.buffered_bytes = accepted - got
              /\ (response'.ended <=> k \in {"end", "failed"})
              /\ Len(response'.items) = Len(response.items) + 1 /\ Len(response.items) \in Nat
              /\ \A i \in 1 .. Len(response.items) :
                   /\ response'.items[i] = response.items[i]
                   /\ response.items[i].kind \notin {"end", "failed"}
              /\ response'.items[Len(response.items) + 1].kind = k
              /\ response.items = << >> => response'.items[1].kind = k
  <1> DEFINE e == Item(k, accepted, accepted)
  <1>0. accepted \in Nat /\ got \in Nat  BY DEF TypeOK, RubyTypes, WorkerTypes
  <1>1. e \in Items /\ e.kind = k /\ e.from = accepted /\ e.upto = accepted
    BY <1>0, ItemFacts DEF Kinds
  <1> HIDE DEF e
  <1>2. response' = Push(response, e)  BY DEF e
  <1>3. CASE response.cancelled
    <2>1. response' = response  BY <1>2, <1>3 DEF Push, Refuses
    <2> QED BY <1>3, <2>1, Fields DEF ResponseQueue
  <1>4. CASE ~response.cancelled
    <2>1. /\ ~Refuses(response) /\ response \in StreamsOf({"reader"})
          /\ response.items \in Seq(Items) /\ Ordered(response.items, got, accepted)
          /\ response.buffered_bytes = accepted - got /\ response.buffered_bytes \in Nat
      BY <1>4, Fields DEF Refuses, ResponseQueue
    <2>2. e.from =< e.upto /\ e.upto - e.from = 0  BY <1>0, <1>1
    <2>3. /\ response' \in StreamsOf({"reader"}) /\ response'.items = Append(response.items, e)
          /\ response'.buffered_bytes = response.buffered_bytes + (e.upto - e.from)
          /\ response'.ended <=> e.kind \in {"end", "failed"}
          /\ response'.cancelled = response.cancelled
          /\ response'.paused = response.paused /\ response'.waiter = response.waiter
      BY <1>1, <1>2, <2>1, <2>2, PushFacts
    <2>4. Ordered(response'.items, got, accepted)
      BY <1>0, <1>1, <2>1, <2>2, <2>3, OrderedAppend
    <2>5. /\ Len(response'.items) = Len(response.items) + 1 /\ Len(response.items) \in Nat
          /\ \A i \in 1 .. Len(response.items) : response'.items[i] = response.items[i]
          /\ response'.items[Len(response.items) + 1] = e
      BY <1>1, <2>1, <2>3, AppendFacts
    <2>6. \A i \in 1 .. Len(response.items) : response.items[i].kind \notin {"end", "failed"}
      BY DEF ResponseQueue
    <2>7. response'.ended <=> k \in {"end", "failed"}  BY <1>1, <2>3
    <2>8. response.items = << >> => response'.items[1].kind = k
      BY <1>1, <2>3
    <2>9. response'.buffered_bytes = accepted - got  BY <2>1, <2>2, <2>3
    <2> QED BY <1>1, <1>4, <2>3, <2>4, <2>5, <2>6, <2>7, <2>8, <2>9 DEF ResponseQueue
  <1> QED BY <1>3, <1>4

\* The worker takes what is first of the request body, and the end of it only
\* when it has all the rest.
LEMMA TakesRequest ==
  ASSUME TypeOK, RequestQueue, request' = TakeNext(request), uploaded' = uploaded + Taken
  PROVE  /\ request' \in StreamsOf({"upload"}) /\ request'.waiter = request.waiter
         /\ ~request'.paused /\ request'.cancelled = request.cancelled
         /\ request'.ended = request.ended /\ uploaded' \in Nat
         /\ request.cancelled => request'.items = << >> /\ request'.buffered_bytes = 0
         /\ ~request.cancelled =>
              /\ Ordered(request'.items, uploaded', written)
              /\ request'.buffered_bytes = written - uploaded'
         /\ \A i \in 1 .. Len(request'.items) :
              request'.items[i].kind # "chunk" => i = Len(request'.items) /\ request'.ended
         /\ TakesEnd \in BOOLEAN
         /\ TakesEnd /\ mode = "body" => uploaded' = RequestBytes
         /\ ~CanTake(request) => request' = request /\ uploaded' = uploaded
  <1>1. /\ uploaded \in Nat /\ written \in Nat /\ request.items \in Seq(Items)
        /\ request \in StreamsOf({"upload"}) /\ request.buffered_bytes \in Nat
    BY Fields DEF TypeOK, RubyTypes, WorkerTypes
  <1>2. TakesEnd \in BOOLEAN  BY DEF TakesEnd
  <1>3. CASE ~CanTake(request)
    <2>1. request' = request /\ uploaded' = uploaded /\ ~TakesEnd
      BY <1>1, <1>3 DEF TakeNext, Taken, TakesEnd
    <2> QED BY <1>1, <1>2, <2>1, Fields DEF RequestQueue
  <1>4. CASE CanTake(request)
    <2> DEFINE e == request.items[1]
    <2>1. /\ request.items # << >> /\ ~request.cancelled
          /\ Ordered(request.items, uploaded, written)
          /\ request.buffered_bytes = written - uploaded
      BY <1>4, Fields DEF CanTake, RequestQueue
    <2>2. /\ Head(request.items) = e /\ e \in Items
          /\ 1 \in 1 .. Len(request.items) /\ Len(request.items) \in Nat
          /\ Len(Tail(request.items)) = Len(request.items) - 1
          /\ \A i \in 1 .. Len(Tail(request.items)) :
               /\ i + 1 \in 1 .. Len(request.items)
               /\ Tail(request.items)[i] = request.items[i + 1]
          /\ Len(request.items) = 1 => Tail(request.items) = << >>
      BY <1>1, <2>1, TailFacts
    <2>3. /\ Ordered(Tail(request.items), e.upto, written)
          /\ e.from = uploaded /\ uploaded =< e.upto /\ e.upto =< written
          /\ e.kind # "chunk" => e.upto = uploaded
      BY <1>1, <2>1, OrderedTail
    <2>4. e.upto \in Nat /\ e.from \in Nat  BY <2>2 DEF Items
    <2>5. Taken = e.upto - e.from  BY <1>4, <2>2 DEF Taken, Size
    <2>6. e.kind = "end" => Len(request.items) = 1 /\ request.ended
      BY <2>2 DEF RequestQueue
    <2>7. TakesEnd => e.kind = "end"  BY <2>2 DEF TakesEnd
    <2>8. e.kind = "end" => written = e.upto
      BY <2>2, <2>3, <2>6 DEF Ordered
    <2> HIDE DEF e
    <2>9. uploaded' = e.upto /\ e.from =< e.upto /\ e.upto - e.from =< request.buffered_bytes
      BY <1>1, <2>1, <2>3, <2>4, <2>5
    <2>10. /\ request' \in StreamsOf({"upload"}) /\ request'.items = Tail(request.items)
           /\ request'.buffered_bytes = request.buffered_bytes - (e.upto - e.from)
           /\ request'.ended = request.ended /\ request'.cancelled = request.cancelled
           /\ request'.paused = request.paused /\ request'.waiter = request.waiter
      BY <1>1, <1>4, <2>9, TakeFacts DEF e
    <2>11. request'.buffered_bytes = written - uploaded'
      BY <1>1, <2>1, <2>3, <2>4, <2>9, <2>10
    <2>12. \A i \in 1 .. Len(request'.items) :
             request'.items[i].kind # "chunk" => i = Len(request'.items) /\ request'.ended
      <3>1. \A i \in 1 .. Len(request.items) :
              request.items[i].kind # "chunk" => i = Len(request.items) /\ request.ended
        BY DEF RequestQueue
      <3>2. /\ Len(request'.items) = Len(request.items) - 1 /\ Len(request.items) \in Nat
            /\ \A i \in 1 .. Len(request'.items) :
                 i + 1 \in 1 .. Len(request.items) /\ request'.items[i] = request.items[i + 1]
            /\ request'.ended = request.ended
        BY <2>2, <2>10
      <3> QED BY <3>1, <3>2
    <2>13. TakesEnd /\ mode = "body" => uploaded' = RequestBytes
      BY <2>1, <2>6, <2>7, <2>8, <2>9 DEF RequestQueue
    <2> QED BY <1>2, <1>4, <2>1, <2>3, <2>4, <2>9, <2>10, <2>11, <2>12, <2>13 DEF RequestQueue
  <1> QED BY <1>3, <1>4

\* A piece of the response is queued behind what is there.
LEMMA PieceArrives ==
  ASSUME TypeOK, ResponseQueue, ~Refuses(response), NEW n \in Nat, accepted' = accepted + n,
         response' = Push(response, Item("chunk", accepted, accepted + n))
  PROVE  /\ response' \in StreamsOf({"reader"}) /\ response'.waiter = response.waiter
         /\ ~response'.paused /\ ~response'.cancelled /\ ~response'.ended /\ accepted' \in Nat
         /\ Ordered(response'.items, got, accepted') /\ response'.buffered_bytes = accepted' - got
         /\ response'.items # << >>
         /\ response.items # << >> => response'.items[1] = response.items[1]
         /\ \A i \in 1 .. Len(response'.items) : response'.items[i].kind \notin {"end", "failed"}
         /\ \A i \in 1 .. Len(response'.items) : response'.items[i].kind = "head" =>
              i \in 1 .. Len(response.items) /\ response.items[i].kind = "head"
  <1> DEFINE e == Item("chunk", accepted, accepted + n)
  <1>0. accepted \in Nat /\ got \in Nat /\ accepted' \in Nat
    <2>1. accepted \in Nat /\ got \in Nat  BY DEF TypeOK, RubyTypes, WorkerTypes
    <2> QED BY <2>1
  <1>1. e \in Items /\ e.kind = "chunk" /\ e.from = accepted /\ e.upto = accepted'
    BY <1>0, ItemFacts DEF Kinds
  <1> HIDE DEF e
  <1>2. response' = Push(response, e)  BY DEF e
  <1>3. /\ ~response.cancelled /\ ~response.ended /\ response \in StreamsOf({"reader"})
        /\ response.items \in Seq(Items) /\ Ordered(response.items, got, accepted)
        /\ response.buffered_bytes = accepted - got /\ response.buffered_bytes \in Nat
    BY Fields DEF Refuses, ResponseQueue
  <1>4. e.from =< e.upto /\ e.upto - e.from = n  BY <1>0, <1>1
  <1>5. /\ response' \in StreamsOf({"reader"}) /\ response'.items = Append(response.items, e)
        /\ response'.buffered_bytes = response.buffered_bytes + (e.upto - e.from)
        /\ response'.ended <=> e.kind \in {"end", "failed"}
        /\ response'.cancelled = response.cancelled
        /\ response'.paused = response.paused /\ response'.waiter = response.waiter
    BY <1>1, <1>2, <1>3, <1>4, PushFacts
  <1>6. Ordered(response'.items, got, accepted')
    BY <1>0, <1>1, <1>3, <1>4, <1>5, OrderedAppend
  <1>7. /\ Len(response'.items) = Len(response.items) + 1 /\ Len(response.items) \in Nat
        /\ \A i \in 1 .. Len(response.items) : response'.items[i] = response.items[i]
        /\ response'.items[Len(response.items) + 1] = e /\ response'.items # << >>
        /\ response.items = << >> <=> Len(response.items) = 0
    BY <1>1, <1>3, <1>5, AppendFacts
  <1>8. \A i \in 1 .. Len(response'.items) :
          i \in 1 .. Len(response.items) \/ i = Len(response.items) + 1
    BY <1>7
  <1>9. \A i \in 1 .. Len(response.items) : response.items[i].kind \notin {"end", "failed"}
    BY <1>3 DEF ResponseQueue
  <1>10. response'.buffered_bytes = accepted' - got  BY <1>0, <1>3, <1>4, <1>5
  <1>11. /\ \A i \in 1 .. Len(response'.items) : response'.items[i].kind \notin {"end", "failed"}
         /\ \A i \in 1 .. Len(response'.items) : response'.items[i].kind = "head" =>
              i \in 1 .. Len(response.items) /\ response.items[i].kind = "head"
    BY <1>1, <1>7, <1>8, <1>9
  <1>12. response.items # << >> => response'.items[1] = response.items[1]  BY <1>7
  <1> QED BY <1>0, <1>1, <1>3, <1>5, <1>6, <1>7, <1>10, <1>11, <1>12, Fields DEF ResponseQueue

-----------------------------------------------------------------------------
(* The fibers and the reactor. *)

\* A fiber that is done, or waits for the upload, lets the thread go.
LEMMA FiberLeavesInv == IInv /\ FiberLeaves => IInv'
  <1> SUFFICES ASSUME IInv, FiberLeaves  PROVE IInv'
    OBVIOUS
  <1>1. /\ UNCHANGED <<response, request, resetWanted, timedOut, trailers, closed, queued,
                       event, owed, worker, stream, envoy, phase, reported, accepted,
                       uploaded, counted, stop, reactor, resolving, pc, closing, mode,
                       loop, got, written, result>>
        /\ Todo' = Todo
        /\ cpu' = "reactor"
        /\ cpu = "reader" => pc.reader \in {"done", "close"}
    BY DEF IInv, TypeOK, FiberLeaves, FiberAt, Fibers, Todo, channelVars, routeVars, workerVars,
      rubyVars
  <1>2. RubyTypes'
    <2>1. cpu' \in {"reactor"} \cup Fibers  BY <1>1
    <2>2. UNCHANGED <<reactor, resolving, pc, mode, loop, got, written, result>>  BY <1>1
    <2>3. RubyTypes /\ closing' \in Seq(ClosingSteps)  BY <1>1 DEF IInv, TypeOK, RubyTypes
    <2> QED BY <2>1, <2>2, <2>3, Stays
  <1>3. Places'  BY <1>1 DEF IInv, TypeOK, Places
  <1>4. /\ ChannelTypes' /\ RouteTypes' /\ WorkerTypes' /\ Plan' /\ Handle' /\ Early' /\ Counts'
        /\ Reasons' /\ ResponseQueue' /\ Told' /\ Ending' /\ RequestQueue' /\ Finishing'
        /\ WriterTold'
    BY <1>1, Untouched DEF IInv, TypeOK
  <1> QED BY <1>2, <1>3, <1>4 DEF IInv, TypeOK

\* write looks at the room in the queue.
LEMMA WriteInv == IInv /\ Write => IInv'
  <1> SUFFICES ASSUME IInv, Write  PROVE IInv'
    OBVIOUS
  <1>1. /\ UNCHANGED <<response, request, resetWanted, timedOut, trailers, closed, queued,
                       event, owed, worker, stream, envoy, phase, reported, accepted,
                       uploaded, counted, stop, cpu, reactor, resolving, closing, mode,
                       loop, got, written, result>>
        /\ Todo' = Todo
        /\ cpu = "upload" /\ pc.upload = "write" /\ pc'.reader = pc.reader
        /\ pc' = [reader |-> pc.reader, upload |-> pc'.upload]
        /\ pc'.upload \in {"finish", "park", "push"}
        /\ pc'.upload = "finish" => written = RequestBytes
    BY Moves DEF IInv, TypeOK, Write, FiberAt, Todo, channelVars, routeVars, workerVars, rubyVars
  <1>2. RubyTypes'  BY <1>1 DEF IInv, TypeOK, RubyTypes
  <1>3. Places'  BY <1>1 DEF IInv, TypeOK, Places
  <1>4. Finishing'  BY <1>1 DEF IInv, TypeOK, Finishing, Refuses
  <1>5. WriterTold'  BY <1>1 DEF IInv, TypeOK, WriterTold, ReaderStops, Ends, MayParkWriter, Full, Some
  <1>6. /\ ChannelTypes' /\ RouteTypes' /\ WorkerTypes' /\ Plan' /\ Handle' /\ Early' /\ Counts'
        /\ Reasons' /\ ResponseQueue' /\ Told' /\ Ending' /\ RequestQueue'
    BY <1>1, Untouched DEF IInv, TypeOK
  <1> QED BY <1>2, <1>3, <1>4, <1>5, <1>6 DEF IInv, TypeOK

\* The client's side of an upgraded stream ends.
LEMMA WriteEndsInv == IInv /\ WriteEnds => IInv'
  <1> SUFFICES ASSUME IInv, WriteEnds  PROVE IInv'
    OBVIOUS
  <1>1. /\ UNCHANGED <<response, request, resetWanted, timedOut, trailers, closed, queued,
                       event, owed, worker, stream, envoy, phase, reported, accepted,
                       uploaded, counted, stop, cpu, reactor, resolving, closing, mode,
                       loop, got, written, result>>
        /\ Todo' = Todo
        /\ cpu = "upload" /\ pc.upload = "write" /\ pc'.reader = pc.reader
        /\ pc' = [reader |-> pc.reader, upload |-> pc'.upload]
        /\ mode = "protocol" /\ pc'.upload = "finish"
    BY Moves DEF IInv, TypeOK, WriteEnds, FiberAt, Todo, channelVars, routeVars, workerVars, rubyVars
  <1>2. RubyTypes'  BY <1>1 DEF IInv, TypeOK, RubyTypes
  <1>3. Places'  BY <1>1 DEF IInv, TypeOK, Places
  <1>4. Finishing'  BY <1>1 DEF IInv, TypeOK, Finishing, Refuses
  <1>5. WriterTold'  BY <1>1 DEF IInv, TypeOK, WriterTold, ReaderStops, Ends, MayParkWriter, Full, Some
  <1>6. /\ ChannelTypes' /\ RouteTypes' /\ WorkerTypes' /\ Plan' /\ Handle' /\ Early' /\ Counts'
        /\ Reasons' /\ ResponseQueue' /\ Told' /\ Ending' /\ RequestQueue'
    BY <1>1, Untouched DEF IInv, TypeOK
  <1> QED BY <1>2, <1>3, <1>4, <1>5, <1>6 DEF IInv, TypeOK

\* write wakes the worker after a push.
LEMMA PieceWakesInv == IInv /\ PieceWakes => IInv'
  <1> SUFFICES ASSUME IInv, PieceWakes  PROVE IInv'
    OBVIOUS
  <1>1. /\ UNCHANGED <<response, request, resetWanted, timedOut, trailers, closed, queued, owed,
                       worker, stream, envoy, phase, reported, accepted, uploaded,
                       counted, stop, cpu, reactor, resolving, closing, mode, loop, got,
                       written, result>>
        /\ Todo' = Todo
        /\ cpu = "upload" /\ pc.upload = "wake" /\ pc'.reader = pc.reader
        /\ pc' = [reader |-> pc.reader, upload |-> pc'.upload]
        /\ event' /\ event' \in BOOLEAN /\ pc'.upload = "write"
    BY Moves DEF IInv, TypeOK, PieceWakes, FiberAt, Todo, channelVars, routeVars, workerVars, rubyVars
  <1>2. RouteTypes'  BY <1>1 DEF IInv, TypeOK, RouteTypes
  <1>3. RubyTypes'  BY <1>1 DEF IInv, TypeOK, RubyTypes
  <1>4. Early'  BY <1>1 DEF IInv, TypeOK, Early, Some, Places
  <1>5. Places'  BY <1>1 DEF IInv, TypeOK, Places
  <1>6. Finishing'  BY <1>1 DEF IInv, TypeOK, Finishing, Refuses
  <1>7. WriterTold'  BY <1>1 DEF IInv, TypeOK, WriterTold, ReaderStops, Ends, MayParkWriter, Full, Some
  <1>8. /\ ChannelTypes' /\ WorkerTypes' /\ Plan' /\ Handle' /\ Counts' /\ Reasons'
        /\ ResponseQueue' /\ Told' /\ Ending' /\ RequestQueue'
    BY <1>1, Untouched DEF IInv, TypeOK
  <1> QED BY <1>2, <1>3, <1>4, <1>5, <1>6, <1>7, <1>8 DEF IInv, TypeOK

\* The idle timeout fires for a parked reader.
LEMMA IdleTimeoutInv == IInv /\ IdleTimeout => IInv'
  <1> SUFFICES ASSUME IInv, IdleTimeout  PROVE IInv'
    OBVIOUS
  <1>1. /\ UNCHANGED <<response, request, resetWanted, timedOut, trailers, closed, queued,
                       event, owed, worker, stream, envoy, phase, reported, accepted,
                       uploaded, counted, stop, reactor, resolving, closing, mode, loop,
                       got, written, result>>
        /\ Todo' = Todo
        /\ pc.reader \in {"parked", "resumed"} /\ pc'.upload = pc.upload /\ cpu' = "reader"
        /\ pc' = [reader |-> pc'.reader, upload |-> pc.upload] /\ pc'.reader = "timeout"
    BY Moves DEF IInv, TypeOK, IdleTimeout, Todo, channelVars, routeVars, workerVars, rubyVars
  <1>2. RubyTypes'  BY <1>1 DEF IInv, TypeOK, RubyTypes, Fibers
  <1>3. Early'  BY <1>1 DEF IInv, TypeOK, Early, Some
  <1>4. Places'  BY <1>1 DEF IInv, TypeOK, Places
  <1>5. Told'  BY <1>1 DEF IInv, TypeOK, Told
  <1>6. Ending'  BY <1>1 DEF IInv, TypeOK, Ending, EndSeen, FailureQueued
  <1>7. WriterTold'  BY <1>1 DEF IInv, TypeOK, WriterTold, ReaderStops, Ends, MayParkWriter, Full, Some
  <1>8. /\ ChannelTypes' /\ RouteTypes' /\ WorkerTypes' /\ Plan' /\ Handle' /\ Counts'
        /\ Reasons' /\ ResponseQueue' /\ RequestQueue' /\ Finishing'
    BY <1>1, Untouched DEF IInv, TypeOK
  <1> QED BY <1>2, <1>3, <1>4, <1>5, <1>6, <1>7, <1>8 DEF IInv, TypeOK

\* The application reads on.
LEMMA ReadOnInv == IInv /\ ReadOn => IInv'
  <1> SUFFICES ASSUME IInv, ReadOn  PROVE IInv'
    OBVIOUS
  <1>1. /\ UNCHANGED <<response, request, resetWanted, timedOut, trailers, closed, queued,
                       event, owed, worker, stream, envoy, phase, reported, accepted,
                       uploaded, counted, stop, reactor, resolving, closing, mode, loop,
                       got, written>>
        /\ Todo' = Todo
        /\ cpu = "reader" /\ pc.reader = "app" /\ pc'.upload = pc.upload
        /\ pc' = [reader |-> pc'.reader, upload |-> pc.upload]
        /\ \/ pc'.reader = "pull" /\ UNCHANGED <<cpu, result>>
           \/ pc'.reader = "close" /\ result' = "broke off" /\ cpu' = cpu
           \/ pc'.reader = "app" /\ result' = result /\ cpu' = "reactor"
    BY Moves, RubyFields DEF IInv, TypeOK, ReadOn, FiberAt, RubyTypes, Todo, channelVars, routeVars,
      workerVars, rubyVars
  <1>2. RubyTypes'  BY <1>1 DEF IInv, TypeOK, RubyTypes, Fibers
  <1>3. Early'  BY <1>1 DEF IInv, TypeOK, Early, Some, Places
  <1>4. Places'  BY <1>1 DEF IInv, TypeOK, Places
  <1>5. Reasons'  BY <1>1 DEF IInv, TypeOK, Reasons, GaveUp, Places
  <1>6. Told'  BY <1>1 DEF IInv, TypeOK, Told
  <1>7. Ending'  BY <1>1 DEF IInv, TypeOK, Ending, EndSeen, FailureQueued
  <1>8. WriterTold'  BY <1>1 DEF IInv, TypeOK, WriterTold, ReaderStops, Ends, MayParkWriter, Full, Some
  <1>9. /\ ChannelTypes' /\ RouteTypes' /\ WorkerTypes' /\ Plan' /\ Handle' /\ Counts'
        /\ ResponseQueue' /\ RequestQueue' /\ Finishing'
    BY <1>1, Untouched DEF IInv, TypeOK
  <1> QED BY <1>2, <1>3, <1>4, <1>5, <1>6, <1>7, <1>8, <1>9 DEF IInv, TypeOK

\* finished? tells the end of the response from a queue to wait at.
LEMMA CheckInv == IInv /\ Check => IInv'
  <1> SUFFICES ASSUME IInv, Check  PROVE IInv'
    OBVIOUS
  <1>1. /\ UNCHANGED <<response, request, resetWanted, timedOut, trailers, closed, queued,
                       event, owed, worker, stream, envoy, phase, reported, accepted,
                       uploaded, counted, stop, cpu, reactor, resolving, closing, mode,
                       loop, got, written>>
        /\ Todo' = Todo
        /\ cpu = "reader" /\ pc.reader = "check" /\ pc'.upload = pc.upload
        /\ pc' = [reader |-> pc'.reader, upload |-> pc.upload]
        /\ \/ pc'.reader = "park" /\ result' = result
           \/ pc'.reader = "close" /\ result' \in {"cut", "missed", "eof"}
        /\ result' = "eof" => response.ended /\ ~response.cancelled /\ ~FailureQueued
    BY Moves DEF IInv, TypeOK, Check, FiberAt, IsFinished, Places, Todo, channelVars, routeVars,
      workerVars, rubyVars
  <1>2. RubyTypes'  BY <1>1 DEF IInv, TypeOK, RubyTypes
  <1>3. Early'  BY <1>1 DEF IInv, TypeOK, Early, Some, Places
  <1>4. Places'  BY <1>1 DEF IInv, TypeOK, Places
  <1>5. Reasons'  BY <1>1 DEF IInv, TypeOK, Reasons, GaveUp, Places
  <1>6. Told'  BY <1>1 DEF IInv, TypeOK, Told
  <1>7. Ending'  BY <1>1 DEF IInv, TypeOK, Ending, EndSeen, FailureQueued
  <1>8. WriterTold'  BY <1>1 DEF IInv, TypeOK, WriterTold, ReaderStops, Ends, MayParkWriter, Full, Some
  <1>9. /\ ChannelTypes' /\ RouteTypes' /\ WorkerTypes' /\ Plan' /\ Handle' /\ Counts'
        /\ ResponseQueue' /\ RequestQueue' /\ Finishing'
    BY <1>1, Untouched DEF IInv, TypeOK
  <1> QED BY <1>2, <1>3, <1>4, <1>5, <1>6, <1>7, <1>8, <1>9 DEF IInv, TypeOK

\* The reactor takes the list of queues owed a wakeup.
LEMMA TakeWakeupsInv == IInv /\ TakeWakeups => IInv'
  <1> SUFFICES ASSUME IInv, TakeWakeups  PROVE IInv'
    OBVIOUS
  <1>1. /\ UNCHANGED <<response, request, resetWanted, timedOut, trailers, closed, queued,
                       event, worker, stream, envoy, phase, reported, accepted,
                       uploaded, counted, stop, cpu, pc, closing, mode, loop, got,
                       written, result>>
        /\ Todo' = Todo
        /\ cpu = "reactor" /\ reactor = "wait" /\ resolving' = owed
        /\ owed' = {} /\ reactor' = "resolve"
    BY DEF IInv, TypeOK, TakeWakeups, ReactorAt, Todo, channelVars, routeVars, workerVars, rubyVars
  <1>2. RouteTypes'  BY <1>1 DEF IInv, TypeOK, RouteTypes
  <1>3. RubyTypes'  BY <1>1, ZenonT(40) DEF IInv, TypeOK, RubyTypes, RouteTypes
  <1>4. Places'  BY <1>1 DEF IInv, TypeOK, Places
  <1>5. Told'  BY <1>1 DEF IInv, TypeOK, Told, Places
  <1>6. WriterTold'  BY <1>1 DEF IInv, TypeOK, WriterTold, ReaderStops, Ends, MayParkWriter, Full, Some, Places
  <1>7. /\ ChannelTypes' /\ WorkerTypes' /\ Plan' /\ Handle' /\ Early' /\ Counts' /\ Reasons'
        /\ ResponseQueue' /\ Ending' /\ RequestQueue' /\ Finishing'
    BY <1>1, Untouched DEF IInv, TypeOK
  <1> QED BY <1>2, <1>3, <1>4, <1>5, <1>6, <1>7 DEF IInv, TypeOK

\* A fiber of a cancelled request is stopped where it waits.
LEMMA StopCancelledInv == IInv /\ StopCancelled => IInv'
  <1> SUFFICES ASSUME IInv, StopCancelled  PROVE IInv'
    OBVIOUS
  <1>1. /\ UNCHANGED <<response, request, resetWanted, timedOut, trailers, closed, queued,
                       event, owed, worker, stream, envoy, phase, reported, accepted,
                       uploaded, counted, stop, resolving, closing, mode, loop, got,
                       written>>
        /\ Todo' = Todo
        /\ cpu = "reactor" /\ resolving = {} /\ pc'.upload = pc.upload /\ reactor' = "wait"
        /\ pc' = [reader |-> pc'.reader, upload |-> pc.upload]
        /\ \/ pc'.reader = pc.reader /\ UNCHANGED <<cpu, result>>
           \/ /\ cpu' = "reader" /\ result' = result /\ pc'.reader = "stopping"
              /\ pc.reader \in {"parked", "resumed"}
           \/ /\ cpu' = "reader" /\ result' = "stopping" /\ pc'.reader = "close"
              /\ pc.reader \in {"head", "app"} \/ result \in Ends
    BY Moves, RubyFields DEF IInv, TypeOK, StopCancelled, AwaitsUpload, ReactorAt, RubyTypes, Todo, channelVars,
      routeVars, workerVars, rubyVars
  <1>2. RubyTypes'  BY <1>1 DEF IInv, TypeOK, RubyTypes, Fibers
  <1>3. Early'  BY <1>1 DEF IInv, TypeOK, Early, Some, Places, Ends
  <1>4. Places'  BY <1>1 DEF IInv, TypeOK, Places, Ends
  <1>5. Reasons'  BY <1>1 DEF IInv, TypeOK, Reasons, GaveUp, Places, Ends
  <1>6. Told'  BY <1>1 DEF IInv, TypeOK, Told
  <1>7. Ending'  BY <1>1 DEF IInv, TypeOK, Ending, EndSeen, FailureQueued
  <1>8. WriterTold'  BY <1>1 DEF IInv, TypeOK, WriterTold, ReaderStops, Ends, MayParkWriter, Full, Some
  <1>9. /\ ChannelTypes' /\ RouteTypes' /\ WorkerTypes' /\ Plan' /\ Handle' /\ Counts'
        /\ ResponseQueue' /\ RequestQueue' /\ Finishing'
    BY <1>1, Untouched DEF IInv, TypeOK
  <1> QED BY <1>2, <1>3, <1>4, <1>5, <1>6, <1>7, <1>8, <1>9 DEF IInv, TypeOK

\* The reactor resumes the waiter of the response queue.
LEMMA ResolveReaderInv == IInv /\ ResolveReader => IInv'
  <1> SUFFICES ASSUME IInv, ResolveReader  PROVE IInv'
    OBVIOUS
  <1>1. /\ UNCHANGED <<request, resetWanted, timedOut, trailers, closed, queued, event, owed,
                       worker, stream, envoy, phase, reported, accepted, uploaded,
                       counted, stop, cpu, reactor, closing, mode, loop, got, written,
                       result>>
        /\ Todo' = Todo
        /\ cpu = "reactor" /\ resolving' = resolving \ {"response"} /\ pc'.upload = pc.upload
        /\ reactor = "resolve"
        /\ pc' = [reader |-> pc'.reader, upload |-> pc.upload]
        /\ pc'.reader = IF response.waiter # NoFiber THEN "resumed" ELSE pc.reader
        /\ response' \in StreamsOf({"reader"}) /\ response'.waiter = NoFiber
        /\ response'.items = response.items /\ response'.ended = response.ended
        /\ response'.buffered_bytes = response.buffered_bytes
        /\ response'.cancelled = response.cancelled /\ response'.paused = response.paused
    BY Moves, RubyFields, UnparkFacts, Fields DEF IInv, TypeOK, ResolveReader, ReactorAt, Todo,
      channelVars, routeVars, workerVars, rubyVars
  <1>2. ChannelTypes'  BY <1>1 DEF IInv, TypeOK, ChannelTypes
  <1>3. RubyTypes'  BY <1>1 DEF IInv, TypeOK, RubyTypes
  <1>4. Early'  BY <1>1 DEF IInv, TypeOK, Early, Some, Places
  <1>5. Places'  BY <1>1 DEF IInv, TypeOK, Places
  <1>6. Told'  BY <1>1 DEF IInv, TypeOK, Told, Places
  <1>7. Ending'  BY <1>1 DEF IInv, TypeOK, Ending, EndSeen, FailureQueued, Places
  <1>8. WriterTold'  BY <1>1 DEF IInv, TypeOK, WriterTold, ReaderStops, Ends, MayParkWriter, Full, Some, Places
  <1>9. /\ RouteTypes' /\ WorkerTypes' /\ Plan' /\ Handle' /\ Counts' /\ Reasons'
        /\ ResponseQueue' /\ RequestQueue' /\ Finishing'
    BY <1>1, Untouched DEF IInv, TypeOK
  <1> QED BY <1>2, <1>3, <1>4, <1>5, <1>6, <1>7, <1>8, <1>9 DEF IInv, TypeOK

\* The reactor resumes the waiter of the request queue.
LEMMA ResolveUploadInv == IInv /\ ResolveUpload => IInv'
  <1> SUFFICES ASSUME IInv, ResolveUpload  PROVE IInv'
    OBVIOUS
  <1>1. /\ UNCHANGED <<response, resetWanted, timedOut, trailers, closed, queued, event, owed,
                       worker, stream, envoy, phase, reported, accepted, uploaded,
                       counted, stop, cpu, reactor, closing, mode, loop, got, written,
                       result>>
        /\ Todo' = Todo
        /\ cpu = "reactor" /\ resolving' = resolving \ {"request"} /\ pc'.reader = pc.reader
        /\ reactor = "resolve"
        /\ pc' = [reader |-> pc.reader, upload |-> pc'.upload]
        /\ pc'.upload = IF request.waiter # NoFiber THEN "resumed" ELSE pc.upload
        /\ request' \in StreamsOf({"upload"}) /\ request'.waiter = NoFiber
        /\ request'.items = request.items /\ request'.ended = request.ended
        /\ request'.buffered_bytes = request.buffered_bytes
        /\ request'.cancelled = request.cancelled /\ request'.paused = request.paused
    BY Moves, RubyFields, UnparkFacts, Fields DEF IInv, TypeOK, ResolveUpload, ReactorAt, Todo,
      channelVars, routeVars, workerVars, rubyVars
  <1>2. ChannelTypes'  BY <1>1 DEF IInv, TypeOK, ChannelTypes
  <1>3. RubyTypes'  BY <1>1 DEF IInv, TypeOK, RubyTypes
  <1>4. Early'  BY <1>1 DEF IInv, TypeOK, Early, Some, Places
  <1>5. Places'  BY <1>1 DEF IInv, TypeOK, Places
  <1>6. Told'  BY <1>1 DEF IInv, TypeOK, Told
  <1>7. Finishing'  BY <1>1 DEF IInv, TypeOK, Finishing, Refuses
  <1>8. WriterTold'  BY <1>1 DEF IInv, TypeOK, WriterTold, ReaderStops, Ends, MayParkWriter, Full, Some, Places
  <1>9. /\ RouteTypes' /\ WorkerTypes' /\ Plan' /\ Handle' /\ Counts' /\ Reasons'
        /\ ResponseQueue' /\ Ending' /\ RequestQueue'
    BY <1>1, Untouched DEF IInv, TypeOK
  <1> QED BY <1>2, <1>3, <1>4, <1>5, <1>6, <1>7, <1>8, <1>9 DEF IInv, TypeOK

\* The upload fiber goes on after its wait.
LEMMA UploadResumesInv == IInv /\ UploadResumes => IInv'
  <1> SUFFICES ASSUME IInv, UploadResumes  PROVE IInv'
    OBVIOUS
  <1>1. /\ UNCHANGED <<response, resetWanted, timedOut, trailers, closed, queued, event, owed,
                       worker, stream, envoy, phase, reported, accepted, uploaded,
                       counted, stop, cpu, reactor, resolving, closing, mode, loop, got,
                       written, result>>
        /\ Todo' = Todo
        /\ cpu = "upload" /\ pc.upload = "resumed" /\ pc'.reader = pc.reader
        /\ pc' = [reader |-> pc.reader, upload |-> pc'.upload]
        /\ pc'.upload = "push"
        /\ request' \in StreamsOf({"upload"}) /\ request'.waiter = NoFiber
        /\ request'.items = request.items /\ request'.ended = request.ended
        /\ request'.buffered_bytes = request.buffered_bytes
        /\ request'.cancelled = request.cancelled /\ request'.paused = request.paused
    BY Moves, RubyFields, UnparkFacts, Fields DEF IInv, TypeOK, UploadResumes, FiberAt, Todo,
      channelVars, routeVars, workerVars, rubyVars
  <1>2. ChannelTypes'  BY <1>1 DEF IInv, TypeOK, ChannelTypes
  <1>3. RubyTypes'  BY <1>1 DEF IInv, TypeOK, RubyTypes
  <1>4. Early'  BY <1>1 DEF IInv, TypeOK, Early, Some, Places
  <1>5. Places'  BY <1>1 DEF IInv, TypeOK, Places
  <1>6. Finishing'  BY <1>1 DEF IInv, TypeOK, Finishing, Refuses
  <1>7. WriterTold'  BY <1>1 DEF IInv, TypeOK, WriterTold, ReaderStops, Ends, MayParkWriter, Full, Some
  <1>8. /\ RouteTypes' /\ WorkerTypes' /\ Plan' /\ Handle' /\ Counts' /\ Reasons'
        /\ ResponseQueue' /\ Told' /\ Ending' /\ RequestQueue'
    BY <1>1, Untouched DEF IInv, TypeOK
  <1> QED BY <1>2, <1>3, <1>4, <1>5, <1>6, <1>7, <1>8 DEF IInv, TypeOK

\* The reader parks at an empty queue.
LEMMA ParkReaderInv == IInv /\ ParkReader => IInv'
  <1> SUFFICES ASSUME IInv, ParkReader  PROVE IInv'
    OBVIOUS
  <1>1. /\ UNCHANGED <<request, resetWanted, timedOut, trailers, closed, queued, event, owed,
                       worker, stream, envoy, phase, reported, accepted, uploaded,
                       counted, stop, reactor, resolving, closing, mode, loop, got,
                       written, result>>
        /\ Todo' = Todo
        /\ cpu = "reader" /\ pc.reader = "park" /\ pc'.upload = pc.upload
        /\ pc' = [reader |-> pc'.reader, upload |-> pc.upload]
        /\ pc'.reader = IF MayPark(response) THEN "parked" ELSE loop
        /\ cpu' = IF MayPark(response) THEN "reactor" ELSE cpu
        /\ response' \in StreamsOf({"reader"})
        /\ response'.waiter = IF MayPark(response) THEN "reader" ELSE response.waiter
        /\ response'.items = response.items /\ response'.ended = response.ended
        /\ response'.buffered_bytes = response.buffered_bytes
        /\ response'.cancelled = response.cancelled /\ response'.paused = response.paused
    BY Moves, ParkFacts, Fields DEF IInv, TypeOK, ParkReader, FiberAt, NoFiber, Todo, channelVars,
      routeVars, workerVars, rubyVars
  <1>2. ChannelTypes'  BY <1>1 DEF IInv, TypeOK, ChannelTypes
  <1>3. RubyTypes'  BY <1>1 DEF IInv, TypeOK, RubyTypes, Fibers
  <1>4. Early'  BY <1>1 DEF IInv, TypeOK, Early, Some, RubyTypes
  <1>5. Places'  BY <1>1 DEF IInv, TypeOK, Places, NoFiber, RubyTypes
  <1>6. Told'  BY <1>1 DEF IInv, TypeOK, Told
  <1>7. Ending'  BY <1>1 DEF IInv, TypeOK, Ending, EndSeen, FailureQueued
  <1>8. WriterTold'  BY <1>1 DEF IInv, TypeOK, WriterTold, ReaderStops, Ends, MayParkWriter, Full, Some
  <1>9. /\ RouteTypes' /\ WorkerTypes' /\ Plan' /\ Handle' /\ Counts' /\ Reasons'
        /\ ResponseQueue' /\ RequestQueue' /\ Finishing'
    BY <1>1, Untouched DEF IInv, TypeOK
  <1> QED BY <1>2, <1>3, <1>4, <1>5, <1>6, <1>7, <1>8, <1>9 DEF IInv, TypeOK

\* The worker is woken for the call, and a body gets a fiber of its own.
LEMMA WakeWorkerInv == IInv /\ WakeWorker => IInv'
  <1> SUFFICES ASSUME IInv, WakeWorker  PROVE IInv'
    OBVIOUS
  <1>1. /\ UNCHANGED <<response, request, resetWanted, timedOut, trailers, closed, queued, owed,
                       worker, stream, envoy, phase, reported, accepted, uploaded,
                       counted, stop, reactor, resolving, closing, mode, loop, got,
                       written, result>>
        /\ Todo' = Todo
        /\ cpu = "reader" /\ pc.reader = "wake" /\ event' /\ event' \in BOOLEAN
        /\ pc' = [reader |-> "head", upload |-> IF mode = "body" THEN "write" ELSE "none"]
        /\ cpu' = IF mode = "body" THEN "upload" ELSE "reader"
    BY Zenon DEF IInv, TypeOK, WakeWorker, FiberAt, Todo, channelVars, routeVars, workerVars, rubyVars
  <1>2. RouteTypes'  BY <1>1 DEF IInv, TypeOK, RouteTypes
  <1>3. RubyTypes'  BY <1>1 DEF IInv, TypeOK, RubyTypes, Fibers
  <1>4. Early'  BY <1>1 DEF IInv, TypeOK, Early, Some
  <1>5. Places'  BY <1>1 DEF IInv, TypeOK, Places
  <1>6. Told'  BY <1>1 DEF IInv, TypeOK, Told
  <1>7. Ending'  BY <1>1 DEF IInv, TypeOK, Ending, EndSeen, FailureQueued
  <1>8. Finishing'  BY <1>1 DEF IInv, TypeOK, Finishing, Refuses
  <1>9. WriterTold'  BY <1>1 DEF IInv, TypeOK, WriterTold, ReaderStops, Ends, MayParkWriter, Full, Some
  <1>10. /\ ChannelTypes' /\ WorkerTypes' /\ Plan' /\ Handle' /\ Counts' /\ Reasons'
         /\ ResponseQueue' /\ RequestQueue'
    BY <1>1, Untouched DEF IInv, TypeOK
  <1> QED BY <1>2, <1>3, <1>4, <1>5, <1>6, <1>7, <1>8, <1>9, <1>10 DEF IInv, TypeOK

\* The reactor gives the thread to a fiber that can run.
LEMMA FiberResumeInv == IInv /\ (\E f \in Fibers : FiberResume(f)) => IInv'
  <1> SUFFICES ASSUME IInv, NEW f \in Fibers, FiberResume(f)  PROVE IInv'
    OBVIOUS
  <1>1. /\ UNCHANGED <<response, request, resetWanted, timedOut, trailers, closed, queued,
                       event, owed, worker, stream, envoy, phase, reported, accepted,
                       uploaded, counted, stop, reactor, resolving, pc, closing, mode,
                       loop, got, written, result>>
        /\ Todo' = Todo
        /\ cpu = "reactor" /\ cpu' \in Fibers
    BY DEF IInv, TypeOK, FiberResume, ReactorAt, Todo, channelVars, routeVars, workerVars, rubyVars
  <1>2. RubyTypes'
    <2>1. cpu' \in {"reactor"} \cup Fibers  BY <1>1
    <2> QED BY <1>1, <2>1, ZenonT(40) DEF IInv, TypeOK, RubyTypes
  <1>3. Places'  BY <1>1 DEF IInv, TypeOK, Places
  <1>4. /\ ChannelTypes' /\ RouteTypes' /\ WorkerTypes' /\ Plan' /\ Handle' /\ Early' /\ Counts'
        /\ Reasons' /\ ResponseQueue' /\ Told' /\ Ending' /\ RequestQueue' /\ Finishing'
        /\ WriterTold'
    BY <1>1, Untouched DEF IInv, TypeOK
  <1> QED BY <1>2, <1>3, <1>4 DEF IInv, TypeOK

\* The upload fiber parks at a full queue.
LEMMA ParkUploadInv == IInv /\ ParkUpload => IInv'
  <1> SUFFICES ASSUME IInv, ParkUpload  PROVE IInv'
    OBVIOUS
  <1>1. /\ UNCHANGED <<response, resetWanted, timedOut, trailers, closed, queued, event, owed,
                       worker, stream, envoy, phase, reported, accepted, uploaded,
                       counted, stop, reactor, resolving, closing, mode, loop, got,
                       written, result>>
        /\ Todo' = Todo
        /\ cpu = "upload" /\ pc.upload = "park" /\ pc'.reader = pc.reader
        /\ pc' = [reader |-> pc.reader, upload |-> pc'.upload]
        /\ pc'.upload = IF MayParkWriter(request) THEN "parked" ELSE "push"
        /\ cpu' = IF MayParkWriter(request) THEN "reactor" ELSE cpu
        /\ request' \in StreamsOf({"upload"})
        /\ request'.waiter = IF MayParkWriter(request) THEN "upload" ELSE request.waiter
        /\ request'.items = request.items /\ request'.ended = request.ended
        /\ request'.buffered_bytes = request.buffered_bytes
        /\ request'.cancelled = request.cancelled /\ request'.paused = request.paused
        /\ closing = << >>
    BY Moves, ParkWriterFacts, Fields DEF IInv, TypeOK, ParkUpload, FiberAt, Todo, channelVars,
      routeVars, workerVars, rubyVars
  <1>2. ChannelTypes'  BY <1>1 DEF IInv, TypeOK, ChannelTypes
  <1>3. RubyTypes'  BY <1>1 DEF IInv, TypeOK, RubyTypes, Fibers
  <1>4. Early'  BY <1>1 DEF IInv, TypeOK, Early, Some, Places
  <1>5. Places'  BY <1>1 DEF IInv, TypeOK, Places, NoFiber
  <1>6. Finishing'  BY <1>1 DEF IInv, TypeOK, Finishing, Refuses
  <1>7. WriterTold'  BY <1>1 DEF IInv, TypeOK, WriterTold, ReaderStops, Ends, MayParkWriter, Full, Some, Places
  <1>8. /\ RouteTypes' /\ WorkerTypes' /\ Plan' /\ Handle' /\ Counts' /\ Reasons'
        /\ ResponseQueue' /\ Told' /\ Ending' /\ RequestQueue'
    BY <1>1, Untouched DEF IInv, TypeOK
  <1> QED BY <1>2, <1>3, <1>4, <1>5, <1>6, <1>7, <1>8 DEF IInv, TypeOK

\* The reader's wait is over.
LEMMA WaitEndsInv == IInv /\ WaitEnds => IInv'
  <1> SUFFICES ASSUME IInv, WaitEnds  PROVE IInv'
    OBVIOUS
  <1>1. /\ UNCHANGED <<request, resetWanted, timedOut, trailers, closed, queued, event, owed,
                       worker, stream, envoy, phase, reported, accepted, uploaded,
                       counted, stop, cpu, reactor, resolving, mode, loop, got,
                       written>>
        /\ Todo' = Todo
        /\ cpu = "reader" /\ closing = << >> /\ pc'.upload = pc.upload
        /\ pc' = [reader |-> pc'.reader, upload |-> pc.upload]
        /\ \/ pc.reader = "resumed" /\ pc'.reader = loop /\ result' = result /\ closing' = << >>
           \/ /\ pc.reader = "timeout" /\ pc'.reader = "close"
              /\ result' = "timeout" /\ closing' = TimeOut
           \/ /\ pc.reader = "stopping" /\ pc'.reader = "close"
              /\ result' = "stopping" /\ closing' = << >>
        /\ response' \in StreamsOf({"reader"}) /\ response'.waiter = NoFiber
        /\ response'.items = response.items /\ response'.ended = response.ended
        /\ response'.buffered_bytes = response.buffered_bytes
        /\ response'.cancelled = response.cancelled /\ response'.paused = response.paused
    BY Moves, UnparkFacts, Fields DEF IInv, TypeOK, WaitEnds, FiberAt, Todo, channelVars, routeVars,
      workerVars, rubyVars
  <1>2. ChannelTypes'  BY <1>1 DEF IInv, TypeOK, ChannelTypes
  <1>3. RubyTypes'  BY <1>1, ClosingLists DEF IInv, TypeOK, RubyTypes
  <1>4. Early'  BY <1>1 DEF IInv, TypeOK, Early, Some, Places, RubyTypes
  <1>5. Places'
    <2>1. "finish" \notin Members(closing')  BY <1>1, ClosingLists
    <2>2. CASE pc.reader = "resumed"  BY <1>1, <2>1, <2>2 DEF IInv, TypeOK, RubyTypes, Places
    <2>3. CASE pc.reader \in {"timeout", "stopping"}  BY <1>1, <2>1, <2>3 DEF IInv, Places
    <2> QED BY <1>1, <2>2, <2>3
  <1>6. Reasons'  BY <1>1, ClosingLists DEF IInv, TypeOK, Reasons, GaveUp, Places
  <1>7. Told'  BY <1>1 DEF IInv, TypeOK, Told, RubyTypes
  <1>8. Ending'
    BY <1>1, ZenonT(40) DEF IInv, TypeOK, Ending, EndSeen, FailureQueued, Places, RubyTypes
  <1>9. WriterTold'  BY <1>1 DEF IInv, TypeOK, WriterTold, ReaderStops, Ends, MayParkWriter, Full, Some
  <1>10. /\ RouteTypes' /\ WorkerTypes' /\ Plan' /\ Handle' /\ Counts' /\ ResponseQueue'
         /\ RequestQueue' /\ Finishing'
    BY <1>1, Untouched DEF IInv, TypeOK
  <1> QED BY <1>2, <1>3, <1>4, <1>5, <1>6, <1>7, <1>8, <1>9, <1>10 DEF IInv, TypeOK

\* The body that is uploaded makes its fiber wait, or fails.
LEMMA ReadRestInv == IInv /\ ReadRest => IInv'
  <1> SUFFICES ASSUME IInv, ReadRest  PROVE IInv'
    OBVIOUS
  <1>1. /\ UNCHANGED <<response, request, resetWanted, timedOut, trailers, closed, queued,
                       event, owed, worker, stream, envoy, phase, reported, accepted,
                       uploaded, counted, stop, reactor, resolving, mode, loop, got,
                       written, result>>
        /\ Todo' = Todo
        /\ cpu = "upload" /\ pc.upload = "write" /\ pc'.reader = pc.reader
        /\ pc' = [reader |-> pc.reader, upload |-> pc'.upload]
        /\ closing = << >>
        /\ \/ cpu' = "reactor" /\ pc'.upload = "write" /\ closing' = closing
           \/ mode = "body" /\ cpu' = cpu /\ pc'.upload = "done" /\ closing' = Close
    BY Moves, RubyFields DEF IInv, TypeOK, ReadRest, FiberAt, RubyTypes, Todo, channelVars, routeVars,
      workerVars, rubyVars
  <1>2. RubyTypes'  BY <1>1, ClosingLists DEF IInv, TypeOK, RubyTypes
  <1>3. Early'  BY <1>1 DEF IInv, TypeOK, Early, Some, Places
  <1>4. Places'  BY <1>1, ClosingLists DEF IInv, TypeOK, Places
  <1>5. Reasons'  BY <1>1, ClosingLists DEF IInv, TypeOK, Reasons, GaveUp
  <1>6. Finishing'  BY <1>1 DEF IInv, TypeOK, Finishing, Refuses
  <1>7. WriterTold'  BY <1>1 DEF IInv, TypeOK, WriterTold, ReaderStops, Ends, MayParkWriter, Full, Some, Places
  <1>8. /\ ChannelTypes' /\ RouteTypes' /\ WorkerTypes' /\ Plan' /\ Handle' /\ Counts'
        /\ ResponseQueue' /\ Told' /\ Ending' /\ RequestQueue'
    BY <1>1, Untouched DEF IInv, TypeOK
  <1> QED BY <1>2, <1>3, <1>4, <1>5, <1>6, <1>7, <1>8 DEF IInv, TypeOK

\* open_stream creates the channel and queues the call, or is refused.
LEMMA OpenStreamInv == IInv /\ OpenStream => IInv'
  <1> SUFFICES ASSUME IInv, OpenStream  PROVE IInv'
    OBVIOUS
  <1>1. /\ UNCHANGED <<response, resetWanted, timedOut, trailers, closed, event, owed, worker,
                       stream, envoy, phase, reported, accepted, uploaded, counted,
                       stop, cpu, reactor, resolving, closing, mode, loop, got,
                       written>>
        /\ Todo' = Todo
        /\ cpu = "reader" /\ pc.reader = "call" /\ pc'.upload = pc.upload
        /\ pc' = [reader |-> pc'.reader, upload |-> pc.upload]
        /\ \/ closed /\ pc'.reader = "done" /\ result' = "refused" /\ UNCHANGED <<request, queued>>
           \/ /\ ~closed /\ pc'.reader = "wake" /\ queued' /\ queued' \in BOOLEAN /\ result' = result
              /\ request' = IF mode = "plain" THEN Push(request, Item("end", 0, 0)) ELSE request
    BY Moves DEF IInv, TypeOK, OpenStream, FiberAt, Todo, channelVars, routeVars, workerVars, rubyVars
  <1>2. /\ stream.state = "none" /\ ~queued /\ ~event /\ worker = << >> /\ Todo = {}
        /\ closing = << >>
        /\ request = EmptyStream /\ written = 0 /\ uploaded = 0 /\ result = "none"
    BY <1>1, Known DEF IInv, TypeOK, Early, Places
  <1>3. /\ request' \in StreamsOf({"upload"}) /\ request'.waiter = NoFiber
        /\ ~request'.paused /\ ~request'.cancelled /\ request'.buffered_bytes = 0
        /\ Ordered(request'.items, 0, 0) /\ (mode = "body" => ~request'.ended)
        /\ \A i \in 1 .. Len(request'.items) :
             request'.items[i].kind # "chunk" => i = Len(request'.items) /\ request'.ended
    <2> DEFINE e == Item("end", 0, 0)
    <2>1. /\ EmptyStream \in StreamsOf({"upload"}) /\ ~Refuses(EmptyStream)
          /\ EmptyStream.items = << >> /\ EmptyStream.buffered_bytes = 0 /\ ~EmptyStream.paused
          /\ ~EmptyStream.cancelled /\ ~EmptyStream.ended /\ EmptyStream.waiter = NoFiber
      BY DEF EmptyStream, StreamsOf, Refuses
    <2>2. Ordered(<< >>, 0, 0)  BY DEF Ordered
    <2>3. CASE request' = request  BY <1>2, <2>1, <2>2, <2>3
    <2>4. CASE mode = "plain" /\ request' = Push(EmptyStream, e)
      <3>1. e \in Items /\ e.kind = "end" /\ e.from = 0 /\ e.upto = 0  BY ItemFacts DEF Kinds
      <3> HIDE DEF e
      <3>2. /\ request' \in StreamsOf({"upload"}) /\ request'.items = Append(<< >>, e)
            /\ request'.buffered_bytes = 0 /\ request'.ended
            /\ request'.cancelled = EmptyStream.cancelled
            /\ request'.paused = EmptyStream.paused /\ request'.waiter = NoFiber
        <4>1. e.from =< e.upto /\ e.kind \in {"end", "failed"}  BY <3>1
        <4> QED BY <2>1, <2>4, <3>1, <4>1, PushFacts
      <3>3. Ordered(Append(<< >>, e), 0, 0)
        <4>1. << >> \in Seq(Items) /\ 0 \in Nat /\ e.from =< e.upto  BY <3>1
        <4> QED BY <4>1, <2>2, <3>1, OrderedAppend
      <3>4. Len(Append(<< >>, e)) = 1  OBVIOUS
      <3> QED BY <2>1, <2>4, <3>2, <3>3, <3>4
    <2> QED BY <1>1, <1>2, <2>3, <2>4
  <1>4. ChannelTypes'  BY <1>1, <1>2, <1>3 DEF IInv, TypeOK, ChannelTypes
  <1>5. RouteTypes'  BY <1>1, <1>2, <1>3 DEF IInv, TypeOK, RouteTypes
  <1>6. RubyTypes'  BY <1>1, <1>2, <1>3 DEF IInv, TypeOK, RubyTypes
  <1>7. Handle'  BY <1>1, <1>2, <1>3 DEF IInv, TypeOK, Handle, Some
  <1>8. Early'  BY <1>1, <1>2, <1>3 DEF IInv, TypeOK, Early, Some
  <1>9. Places'  BY <1>1, <1>2, <1>3 DEF IInv, TypeOK, Places
  <1>10. Reasons'  BY <1>1, <1>2, <1>3 DEF IInv, TypeOK, Reasons, GaveUp
  <1>11. Told'  BY <1>1, <1>2, <1>3 DEF IInv, TypeOK, Told
  <1>12. Ending'  BY <1>1, <1>2, <1>3 DEF IInv, TypeOK, Ending, EndSeen, FailureQueued
  <1>13. RequestQueue'  BY <1>1, <1>2, <1>3, Fields DEF IInv, TypeOK, RequestQueue
  <1>14. Finishing'  BY <1>1, <1>2, <1>3 DEF IInv, TypeOK, Finishing, Refuses
  <1>15. WriterTold'
    BY <1>1, <1>2, <1>3 DEF IInv, TypeOK, WriterTold, ReaderStops, Ends, MayParkWriter, Full, Some, Places
  <1>16. /\ WorkerTypes' /\ Plan' /\ Counts' /\ ResponseQueue'
    BY <1>1, <1>2, <1>3, Untouched DEF IInv, TypeOK
  <1> QED BY <1>4, <1>5, <1>6, <1>7, <1>8, <1>9, <1>10, <1>11, <1>12, <1>13, <1>14, <1>15, <1>16
    DEF IInv, TypeOK

\* close: the upload is stopped, and the channel closed unless both are over.
LEMMA CloseBodyInv == IInv /\ CloseBody => IInv'
  <1> SUFFICES ASSUME IInv, CloseBody  PROVE IInv'
    OBVIOUS
  <1>1. /\ UNCHANGED <<response, resetWanted, timedOut, trailers, closed, queued, event, owed,
                       worker, stream, envoy, phase, reported, accepted, uploaded,
                       counted, stop, cpu, reactor, resolving, mode, loop, got, written,
                       result>>
        /\ Todo' = Todo
        /\ cpu = "reader" /\ pc.reader = "close" /\ closing = << >>
        /\ pc' = [reader |-> "done", upload |-> IF Uploading THEN "done" ELSE pc.upload]
        /\ request' = IF Uploading THEN Unpark(request) ELSE request
    BY Zenon DEF IInv, TypeOK, CloseBody, FiberAt, Todo, channelVars, routeVars, workerVars, rubyVars
  <1>2. /\ pc' = [reader |-> pc'.reader, upload |-> pc'.upload] /\ pc'.reader = "done"
        /\ pc'.upload \in {"none", "done"} /\ (pc.upload = "none" => pc'.upload = "none")
    BY <1>1, RubyFields DEF IInv, Uploading
  <1>3. /\ request' \in StreamsOf({"upload"}) /\ request'.waiter = NoFiber
        /\ request'.items = request.items /\ request'.ended = request.ended
        /\ request'.buffered_bytes = request.buffered_bytes
        /\ request'.cancelled = request.cancelled /\ request'.paused = request.paused
    <2>1. CASE Uploading  BY <1>1, <2>1, UnparkFacts, Fields DEF IInv
    <2>2. CASE ~Uploading  BY <1>1, <2>2, Fields DEF IInv, Uploading, Places
    <2> QED BY <2>1, <2>2
  <1>4. /\ closing' \in Seq(ClosingSteps) /\ "timedOut" \notin Members(closing')
        /\ "finish" \in Members(closing') => mode = "protocol"
    <2> DEFINE u == When(Relaying /\ Uploading, <<"finish", "wakeWorker">>)
               w == When(Relaying \/ Uploading \/ result \notin Ends, Close)
    <2>1. closing' = u \o w  BY DEF CloseBody
    <2>2. /\ u \in Seq(ClosingSteps) /\ Members(u) \subseteq {"finish", "wakeWorker"}
          /\ "finish" \in Members(u) => mode = "protocol"
      BY ClosingLists DEF When, Relaying
    <2>3. w \in Seq(ClosingSteps) /\ Members(w) \subseteq Members(Close)
      BY ClosingLists DEF When
    <2> HIDE DEF u, w
    <2>4. u \o w \in Seq(ClosingSteps) /\ Members(u \o w) = Members(u) \cup Members(w)
      BY <2>2, <2>3, Concat
    <2> QED BY <2>1, <2>2, <2>3, <2>4, ClosingLists
  <1>5. ChannelTypes'  BY <1>1, <1>2, <1>3, <1>4 DEF IInv, TypeOK, ChannelTypes
  <1>6. RubyTypes'  BY <1>1, <1>2, <1>3, <1>4 DEF IInv, TypeOK, RubyTypes
  <1>7. Early'  BY <1>1, <1>2, <1>3, <1>4 DEF IInv, TypeOK, Early, Some
  <1>8. Places'  BY <1>1, <1>2, <1>3, <1>4 DEF IInv, TypeOK, Places
  <1>9. Reasons'  BY <1>1, <1>2, <1>3, <1>4 DEF IInv, TypeOK, Reasons, GaveUp, Places
  <1>10. Told'  BY <1>1, <1>2, <1>3, <1>4 DEF IInv, TypeOK, Told
  <1>11. Ending'  BY <1>1, <1>2, <1>3, <1>4 DEF IInv, TypeOK, Ending, EndSeen, FailureQueued
  <1>12. Finishing'  BY <1>1, <1>2, <1>3, <1>4 DEF IInv, TypeOK, Finishing, Refuses
  <1>13. WriterTold'
    BY <1>1, <1>2, <1>3, <1>4 DEF IInv, TypeOK, WriterTold, ReaderStops, Ends, MayParkWriter, Full, Some
  <1>14. /\ RouteTypes' /\ WorkerTypes' /\ Plan' /\ Handle' /\ Counts' /\ ResponseQueue'
         /\ RequestQueue'
    BY <1>1, <1>2, <1>3, <1>4, Untouched DEF IInv, TypeOK
  <1> QED BY <1>5, <1>6, <1>7, <1>8, <1>9, <1>10, <1>11, <1>12, <1>13, <1>14 DEF IInv, TypeOK

\* finish, of the upload or of an upgrade that was refused.
LEMMA FinishInv == IInv /\ Finish => IInv'
  <1> SUFFICES ASSUME IInv, Finish  PROVE IInv'
    OBVIOUS
  <1>1. /\ UNCHANGED <<response, resetWanted, timedOut, trailers, closed, queued, event, owed,
                       worker, stream, envoy, phase, reported, accepted, uploaded,
                       counted, stop, cpu, reactor, resolving, mode, loop, got, written,
                       result>>
        /\ Todo' = Todo
        /\ closing = << >> /\ pc' = [reader |-> pc'.reader, upload |-> pc'.upload]
        /\ \/ /\ cpu = "upload" /\ pc.upload = "finish"
              /\ pc'.upload = "done" /\ pc'.reader = pc.reader
           \/ /\ cpu = "reader" /\ pc.reader = "finish"
              /\ pc'.upload = pc.upload /\ pc'.reader = "app"
        /\ closing' = When(~Refuses(request), <<"wakeWorker">>)
        /\ request' = Push(request, Item("end", written, written))
    BY Moves DEF IInv, TypeOK, Finish, FiberAt, Fibers, Todo, channelVars, routeVars, workerVars,
      rubyVars
  <1>2. closing' \in Seq(ClosingSteps) /\ Members(closing') \subseteq {"wakeWorker"}
    BY <1>1, ClosingLists DEF When
  <1>3. /\ request' \in StreamsOf({"upload"}) /\ request'.waiter = request.waiter
        /\ ~request'.paused /\ request'.cancelled = request.cancelled
        /\ request'.buffered_bytes = request.buffered_bytes
        /\ request.cancelled => request'.items = << >>
        /\ ~request.cancelled => Ordered(request'.items, uploaded, written)
        /\ \A i \in 1 .. Len(request'.items) :
             request'.items[i].kind # "chunk" => i = Len(request'.items) /\ request'.ended
        /\ Refuses(request) => request' = request
        /\ Refuses(request')
    BY <1>1, EndsRequest DEF IInv
  <1>4. ChannelTypes'  BY <1>1, <1>2, <1>3 DEF IInv, TypeOK, ChannelTypes
  <1>5. RubyTypes'  BY <1>1, <1>2, <1>3 DEF IInv, TypeOK, RubyTypes
  <1>6. Early'  BY <1>1, <1>2, <1>3 DEF IInv, TypeOK, Early, Some, Places
  <1>7. Places'  BY <1>1, <1>2, <1>3 DEF IInv, TypeOK, Places
  <1>8. Reasons'  BY <1>1, <1>2, <1>3 DEF IInv, TypeOK, Reasons, GaveUp
  <1>9. Told'  BY <1>1, <1>2, <1>3 DEF IInv, TypeOK, Told
  <1>10. Ending'  BY <1>1, <1>2, <1>3 DEF IInv, TypeOK, Ending, EndSeen, FailureQueued
  <1>11. RequestQueue'  BY <1>1, <1>2, <1>3 DEF IInv, TypeOK, RequestQueue, Finishing, Places
  <1>12. Finishing'  BY <1>1, <1>2, <1>3 DEF IInv, TypeOK, Finishing, Refuses
  <1>13. WriterTold'
    BY <1>1, <1>2, <1>3 DEF IInv, TypeOK, WriterTold, ReaderStops, Ends, MayParkWriter, Full, Some, Places
  <1>14. /\ RouteTypes' /\ WorkerTypes' /\ Plan' /\ Handle' /\ Counts' /\ ResponseQueue'
    BY <1>1, <1>2, <1>3, Untouched DEF IInv, TypeOK
  <1> QED BY <1>4, <1>5, <1>6, <1>7, <1>8, <1>9, <1>10, <1>11, <1>12, <1>13, <1>14 DEF IInv, TypeOK

\* One step of closing the channel.
LEMMA CloseStepInv == IInv /\ CloseStep => IInv'
  <1> SUFFICES ASSUME IInv, CloseStep  PROVE IInv'
    OBVIOUS
  <1>1. /\ UNCHANGED <<trailers, closed, queued, owed, worker, stream, envoy, phase, reported,
                       accepted, uploaded, counted, stop, cpu, reactor, resolving, pc,
                       mode, loop, got, written, result>>
        /\ Todo' = Todo
        /\ closing # << >> /\ closing' = Tail(closing)
        /\ response' = IF Head(closing) = "cancelResponse" THEN Cancel(response) ELSE response
        /\ request' = IF Head(closing) = "cancelRequest" THEN Cancel(request)
                       ELSE IF Head(closing) = "finish"
                            THEN Push(request, Item("end", written, written)) ELSE request
    BY Zenon DEF IInv, TypeOK, CloseStep, Todo, channelVars, routeVars, workerVars, rubyVars
  <1>2. /\ resetWanted' \in BOOLEAN /\ (resetWanted' <=> resetWanted \/ Head(closing) = "wantReset")
        /\ timedOut' \in BOOLEAN /\ (timedOut' <=> timedOut \/ Head(closing) = "timedOut")
        /\ event' \in BOOLEAN
    BY Zenon DEF CloseStep
  <1>3. /\ closing \in Seq(ClosingSteps) /\ closing' \in Seq(ClosingSteps)
        /\ Head(closing) \in Members(closing) /\ Members(closing') \subseteq Members(closing)
    <2>1. closing \in Seq(ClosingSteps)  BY DEF IInv, TypeOK, RubyTypes
    <2> QED BY <1>1, <2>1, Rests
  <1>4. /\ response' \in StreamsOf({"reader"}) /\ response'.waiter = response.waiter
        /\ response'.ended = response.ended /\ response'.paused = response.paused
        /\ Head(closing) = "cancelResponse" =>
             response'.cancelled /\ response'.items = << >> /\ response'.buffered_bytes = 0
        /\ Head(closing) # "cancelResponse" => response' = response
    BY <1>1, CancelFacts, Fields DEF IInv
  <1>5. /\ request' \in StreamsOf({"upload"}) /\ request'.waiter = request.waiter
        /\ ~request'.paused
        /\ Refuses(request) => Refuses(request')
        /\ request'.cancelled => request'.items = << >> /\ request'.buffered_bytes = 0
        /\ ~request'.cancelled =>
             /\ Ordered(request'.items, uploaded, written)
             /\ request'.buffered_bytes = written - uploaded /\ ~request.cancelled
        /\ \A i \in 1 .. Len(request'.items) :
             request'.items[i].kind # "chunk" => i = Len(request'.items) /\ request'.ended
        /\ mode = "body" => request'.ended = request.ended
    <2>1. CASE Head(closing) = "cancelRequest"
      <3>1. request' = Cancel(request)  BY <1>1, <2>1
      <3> QED BY <3>1, CancelFacts, Fields DEF IInv, RequestQueue, Refuses
    <2>2. CASE Head(closing) = "finish"
      <3>1. request' = Push(request, Item("end", written, written)) /\ mode = "protocol"
        BY <1>1, <1>3, <2>2 DEF IInv, Places
      <3> QED BY <3>1, EndsRequest, Fields DEF IInv, RequestQueue
    <2>3. CASE Head(closing) \notin {"cancelRequest", "finish"}
      <3>1. request' = request  BY <1>1, <2>3
      <3> QED BY <3>1, Fields DEF IInv, RequestQueue
    <2> QED BY <2>1, <2>2, <2>3
  <1>6. ChannelTypes'  BY <1>1, <1>2, <1>3, <1>4, <1>5 DEF IInv, TypeOK, ChannelTypes
  <1>7. RouteTypes'  BY <1>1, <1>2, <1>3, <1>4, <1>5 DEF IInv, TypeOK, RouteTypes
  <1>8. RubyTypes'
    <2>1. UNCHANGED <<reactor, resolving, pc, mode, loop, got, written, result>>  BY <1>1
    <2>3. RubyTypes /\ cpu' \in {"reactor"} \cup Fibers  BY <1>1 DEF IInv, TypeOK, RubyTypes
    <2>2. closing' \in Seq(ClosingSteps)  BY <1>3
    <2> QED BY <2>1, <2>2, <2>3, Stays
  <1>9. Early'  BY <1>1, <1>2, <1>3, <1>4, <1>5 DEF IInv, TypeOK, Early, Some
  <1>10. Places'  BY <1>1, <1>2, <1>3, <1>4, <1>5 DEF IInv, TypeOK, Places
  <1>11. Reasons'  BY <1>1, <1>2, <1>3, <1>4, <1>5 DEF IInv, TypeOK, Reasons, GaveUp
  <1>12. ResponseQueue'
    BY <1>1, <1>2, <1>3, <1>4, <1>5 DEF IInv, TypeOK, ResponseQueue, NoHead, Some
  <1>13. Told'  BY <1>1, <1>2, <1>3, <1>4, <1>5 DEF IInv, TypeOK, Told
  <1>14. Ending'
    BY <1>1, <1>2, <1>3, <1>4, <1>5 DEF IInv, TypeOK, Ending, EndSeen, FailureQueued
  <1>15. RequestQueue'  BY <1>1, <1>2, <1>3, <1>4, <1>5 DEF IInv, TypeOK, RequestQueue
  <1>16. Finishing'  BY <1>1, <1>2, <1>3, <1>4, <1>5 DEF IInv, TypeOK, Finishing, Refuses
  <1>17. WriterTold'
    BY <1>1, <1>2, <1>3, <1>4, <1>5 DEF IInv, TypeOK, WriterTold, ReaderStops, Ends, MayParkWriter, Full, Some
  <1>18. /\ WorkerTypes' /\ Plan' /\ Handle' /\ Counts'
    BY <1>1, <1>2, <1>3, <1>4, <1>5, Untouched DEF IInv, TypeOK
  <1> QED BY <1>6, <1>7, <1>8, <1>9, <1>10, <1>11, <1>12, <1>13, <1>14, <1>15, <1>16, <1>17, <1>18
    DEF IInv, TypeOK

\* write pushes a piece.
LEMMA PushPieceInv == IInv /\ PushPiece => IInv'
  <1> SUFFICES ASSUME IInv, PushPiece  PROVE IInv'
    OBVIOUS
  <1>1. /\ UNCHANGED <<response, resetWanted, timedOut, trailers, closed, queued, event, owed,
                       worker, stream, envoy, phase, reported, accepted, uploaded,
                       counted, stop, cpu, reactor, resolving, closing, mode, loop, got,
                       result>>
        /\ Todo' = Todo
        /\ cpu = "upload" /\ pc.upload = "push" /\ pc'.reader = pc.reader
        /\ pc' = [reader |-> pc.reader, upload |-> pc'.upload]
        /\ pc'.upload \in {"finish", "wake", "write"}
        /\ Refuses(request) => pc'.upload = "finish"
        /\ ~Refuses(request) => pc'.upload # "finish"
    BY Moves DEF IInv, TypeOK, PushPiece, FiberAt, Todo, channelVars, routeVars, workerVars, rubyVars
  <1>2. /\ request' \in StreamsOf({"upload"}) /\ request'.waiter = request.waiter
        /\ ~request'.paused /\ request'.cancelled = request.cancelled
        /\ request'.ended = request.ended
        /\ request.cancelled => request'.items = << >> /\ request'.buffered_bytes = 0
        /\ ~request.cancelled =>
             /\ Ordered(request'.items, uploaded, written')
             /\ request'.buffered_bytes = written' - uploaded
        /\ written' \in Nat /\ written' =< RequestBytes
        /\ \A i \in 1 .. Len(request'.items) :
             request'.items[i].kind # "chunk" => i = Len(request'.items) /\ request'.ended
        /\ Refuses(request) => written' = written
    <2> DEFINE n == IF Refuses(request) THEN 0
                    ELSE TakenWithinBudget(request, RequestBytes - written)
               e == Item("chunk", written, written + n)
    <2>1. written' = written + n  BY DEF PushPiece
    <2>2. /\ n \in Nat /\ n =< RequestBytes - written /\ written \in Nat /\ uploaded \in Nat
          /\ written + n \in Nat
      <3>1. written \in Nat /\ uploaded \in Nat
        BY DEF IInv, TypeOK, RubyTypes, WorkerTypes
      <3>2. RequestBytes \in Nat /\ written =< RequestBytes  BY Fields DEF IInv, RequestQueue
      <3>3. request.buffered_bytes \in Nat /\ MaxBufferedBytes \in Nat  BY Fields DEF IInv
      <3>4. SpareCapacity(request) \in Nat  BY <3>3 DEF SpareCapacity
      <3>5. RequestBytes - written \in Nat  BY <3>1, <3>2
      <3> QED BY <3>1, <3>4, <3>5 DEF TakenWithinBudget
    <2>3. CASE Refuses(request) \/ n = 0
      <3>1. request' = request  BY <2>3 DEF PushPiece, PushChunkWithinBudget
      <3>2. Refuses(request) => n = 0  OBVIOUS
      <3> HIDE DEF n
      <3>3. written' = written  BY <2>1, <2>2, <2>3, <3>2
      <3> QED BY <2>2, <3>1, <3>3, Fields DEF IInv, RequestQueue
    <2>4. CASE ~Refuses(request) /\ n # 0
      <3>1. request' = Push(request, e)  BY <2>4 DEF PushPiece, PushChunkWithinBudget
      <3> HIDE DEF n
      <3>2. e \in Items /\ e.kind = "chunk" /\ e.from = written /\ e.upto = written + n
        BY <2>2, ItemFacts DEF Kinds
      <3> HIDE DEF e
      <3>3. e.from =< e.upto /\ e.kind \notin {"end", "failed"} /\ e.upto - e.from = n
        BY <2>2, <3>2
      <3>4. /\ request' \in StreamsOf({"upload"}) /\ request'.items = Append(request.items, e)
            /\ request'.buffered_bytes = request.buffered_bytes + (e.upto - e.from)
            /\ ~request'.ended /\ request'.cancelled = request.cancelled
            /\ request'.paused = request.paused /\ request'.waiter = request.waiter
        <4>1. request \in StreamsOf({"upload"})  BY Fields DEF IInv
        <4> QED BY <4>1, <2>4, <3>1, <3>2, <3>3, PushFacts
      <3>5. /\ ~request.cancelled /\ ~request.ended /\ Ordered(request.items, uploaded, written)
            /\ request.items \in Seq(Items) /\ request.buffered_bytes = written - uploaded
        BY <2>4, Fields DEF IInv, RequestQueue, Refuses
      <3>6. Ordered(request'.items, uploaded, written')
        BY <2>1, <2>2, <3>2, <3>3, <3>4, <3>5, OrderedAppend
      <3>7. \A i \in 1 .. Len(request'.items) : request'.items[i].kind = "chunk"
        <4>1. /\ Len(request'.items) = Len(request.items) + 1 /\ Len(request.items) \in Nat
              /\ \A i \in 1 .. Len(request.items) : request'.items[i] = request.items[i]
              /\ request'.items[Len(request.items) + 1] = e
          BY <3>2, <3>4, <3>5, AppendFacts
        <4>2. \A i \in 1 .. Len(request.items) : request.items[i].kind = "chunk"
          BY <3>5 DEF IInv, RequestQueue
        <4> QED BY <3>2, <4>1, <4>2, SMTT(30)
      <3>8. request'.buffered_bytes = written' - uploaded /\ written' \in Nat
            /\ written' =< RequestBytes
        BY <2>1, <2>2, <3>3, <3>4, <3>5, Fields DEF IInv
      <3>9. request'.ended = request.ended  BY <3>4, <3>5, Fields DEF IInv, StreamsOf
      <3> QED BY <2>4, <3>4, <3>5, <3>6, <3>7, <3>8, <3>9, Fields DEF IInv, RequestQueue
    <2> QED BY <2>3, <2>4
  <1>3. ChannelTypes'  BY <1>1, <1>2 DEF IInv, TypeOK, ChannelTypes
  <1>4. RubyTypes'  BY <1>1, <1>2 DEF IInv, TypeOK, RubyTypes
  <1>5. Early'  BY <1>1, <1>2 DEF IInv, TypeOK, Early, Some, Places
  <1>6. Places'  BY <1>1, <1>2 DEF IInv, TypeOK, Places
  <1>7. RequestQueue'  BY <1>1, <1>2 DEF IInv, TypeOK, RequestQueue, Refuses
  <1>8. Finishing'  BY <1>1, <1>2 DEF IInv, TypeOK, Finishing, Refuses
  <1>9. WriterTold'  BY <1>1, <1>2 DEF IInv, TypeOK, WriterTold, ReaderStops, Ends, MayParkWriter, Full, Some
  <1>10. /\ RouteTypes' /\ WorkerTypes' /\ Plan' /\ Handle' /\ Counts' /\ Reasons'
         /\ ResponseQueue' /\ Told' /\ Ending'
    BY <1>1, <1>2, Untouched DEF IInv, TypeOK
  <1> QED BY <1>3, <1>4, <1>5, <1>6, <1>7, <1>8, <1>9, <1>10 DEF IInv, TypeOK

\* The reader takes the head, or finds none.
LEMMA ReadHeadInv == IInv /\ ReadHead => IInv'
  <1> SUFFICES ASSUME IInv, ReadHead  PROVE IInv'
    OBVIOUS
  <1>1. /\ UNCHANGED <<request, resetWanted, timedOut, trailers, closed, queued, event, owed,
                       worker, stream, envoy, phase, reported, accepted, uploaded,
                       counted, stop, cpu, reactor, resolving, closing, mode, got,
                       written>>
        /\ Todo' = Todo
        /\ cpu = "reader" /\ pc.reader = "head" /\ closing = << >>
        /\ pc' = [reader |-> pc'.reader, upload |-> pc'.upload]
        /\ response' = TakeNext(response)
        /\ \/ /\ CanTake(response) /\ Head(response.items).kind = "head"
              /\ pc'.reader = IF mode = "protocol" /\ ~stream.upgraded THEN "finish" ELSE "app"
              /\ pc'.upload = IF mode = "protocol" /\ stream.upgraded THEN "write" ELSE pc.upload
              /\ loop' = "pull" /\ result' = result
           \/ /\ CanTake(response) /\ Head(response.items).kind # "head"
              /\ pc'.reader = "close" /\ pc'.upload = pc.upload
              /\ loop' = loop /\ result' = "failed"
           \/ /\ ~CanTake(response) /\ response.cancelled
              /\ pc'.reader = "close" /\ pc'.upload = pc.upload
              /\ loop' = loop /\ result' = "closed"
           \/ /\ ~CanTake(response) /\ ~response.cancelled
              /\ pc'.reader = "park" /\ pc'.upload = pc.upload
              /\ loop' = loop /\ result' = result
    BY RubyFields, Moves DEF IInv, TypeOK, ReadHead, FiberAt, Todo, channelVars, routeVars,
      workerVars, rubyVars
  <1>2. /\ response' \in StreamsOf({"reader"}) /\ response'.waiter = response.waiter
        /\ ~response'.paused /\ response'.cancelled = response.cancelled
        /\ response'.ended = response.ended
        /\ loop = "head" /\ result = "none" /\ (mode # "body" => pc.upload = "none")
    BY <1>1, TakesResponse, Fields DEF IInv, ResponseQueue, Places, TakeNext
  <1>3. /\ ~CanTake(response) => response' = response /\ response.items = << >>
        /\ CanTake(response) =>
             /\ ~response.cancelled /\ Ordered(response'.items, got, accepted)
             /\ response'.buffered_bytes = accepted - got
             /\ \A i \in 1 .. Len(response'.items) : response'.items[i].kind \in {"end", "failed"} =>
                  i = Len(response'.items) /\ response'.ended
             /\ \A i, j \in 1 .. Len(response'.items) :
                  response'.items[i].kind = "head" /\ response'.items[j].kind = "head" => i = j
        /\ CanTake(response) /\ Head(response.items).kind = "head" =>
             /\ NoHead' /\ phase # "none" /\ "pushHead" \notin Todo
             /\ FailureQueued => FailureQueued'
        /\ CanTake(response) /\ Head(response.items).kind # "head" =>
             response'.items = << >> /\ response.ended /\ NoHead'
    <2>1. CASE ~CanTake(response)
      BY <1>1, <2>1, Fields DEF IInv, ResponseQueue, TakeNext, CanTake
    <2>2. CASE CanTake(response)
      <3> DEFINE e == response.items[1]
      <3>1. /\ ~response.cancelled /\ response.items # << >> /\ Head(response.items) = e
            /\ e \in Items /\ 1 \in 1 .. Len(response.items)
            /\ Ordered(response'.items, e.upto, accepted)
            /\ response'.buffered_bytes = accepted - e.upto
            /\ e.kind # "chunk" => e.upto = got
            /\ e.kind \in {"end", "failed"} => response.ended /\ response'.items = << >>
            /\ \A i \in 1 .. Len(response'.items) : response'.items[i].kind \in {"end", "failed"} =>
                 i = Len(response'.items) /\ response'.ended
            /\ \A i, j \in 1 .. Len(response'.items) :
                 response'.items[i].kind = "head" /\ response'.items[j].kind = "head" => i = j
            /\ e.kind = "head" => NoHead' /\ (FailureQueued => FailureQueued')
        BY <1>1, <2>2, TakesResponse DEF IInv
      <3>2. /\ e.kind # "chunk" /\ e.kind \in Kinds
            /\ e.kind = "head" => phase # "none" /\ "pushHead" \notin Todo
        BY <1>2, <3>1 DEF IInv, ResponseQueue, NoHead, Items
      <3>3. e.kind # "head" => e.kind \in {"end", "failed"}  BY <3>2 DEF Kinds
      <3>4. response'.items = << >> => NoHead'  BY DEF NoHead
      <3> HIDE DEF e
      <3> QED BY <2>2, <3>1, <3>2, <3>3, <3>4
    <2> QED BY <2>1, <2>2
  <1>4. ChannelTypes'  BY <1>1, <1>2, <1>3 DEF IInv, TypeOK, ChannelTypes
  <1>5. RubyTypes'  BY <1>1, <1>2, <1>3 DEF IInv, TypeOK, RubyTypes
  <1>6. Early'  BY <1>1, <1>2, <1>3 DEF IInv, TypeOK, Early, Some
  <1>7. Places'  BY <1>1, <1>2, <1>3 DEF IInv, TypeOK, Places
  <1>8. Reasons'  BY <1>1, <1>2, <1>3 DEF IInv, TypeOK, Reasons, GaveUp
  <1>9. ResponseQueue'
    <2>1. CASE CanTake(response) /\ Head(response.items).kind = "head"
      BY <1>1, <1>2, <1>3, <2>1 DEF IInv, ResponseQueue, Some
    <2>2. CASE CanTake(response) /\ Head(response.items).kind # "head"
      BY <1>1, <1>2, <1>3, <2>2 DEF IInv, ResponseQueue, Some
    <2>3. CASE ~CanTake(response)
      <3>1. response' = response /\ loop' = loop  BY <1>1, <1>3, <2>3
      <3> QED BY <1>1, <3>1, Untouched DEF IInv
    <2> QED BY <2>1, <2>2, <2>3
  <1>10. Told'  BY <1>1, <1>2, <1>3 DEF IInv, TypeOK, Told
  <1>11. Ending'  BY <1>1, <1>2, <1>3 DEF IInv, TypeOK, Ending, EndSeen, FailureQueued
  <1>12. Finishing'  BY <1>1, <1>2, <1>3 DEF IInv, TypeOK, Finishing, Refuses
  <1>13. WriterTold'
    BY <1>1, <1>2, <1>3 DEF IInv, TypeOK, WriterTold, ReaderStops, Ends, MayParkWriter, Full, Some
  <1>14. /\ RouteTypes' /\ WorkerTypes' /\ Plan' /\ Handle' /\ Counts' /\ RequestQueue'
    BY <1>1, <1>2, <1>3, Untouched DEF IInv, TypeOK
  <1> QED BY <1>4, <1>5, <1>6, <1>7, <1>8, <1>9, <1>10, <1>11, <1>12, <1>13, <1>14 DEF IInv, TypeOK

\* The reader takes the next item, or finds none.
LEMMA PullInv == IInv /\ Pull => IInv'
  <1> SUFFICES ASSUME IInv, Pull  PROVE IInv'
    OBVIOUS
  <1>1. /\ UNCHANGED <<request, resetWanted, timedOut, trailers, closed, queued, event, owed,
                       worker, stream, envoy, phase, reported, accepted, uploaded,
                       counted, stop, cpu, reactor, resolving, closing, mode, loop,
                       written>>
        /\ Todo' = Todo
        /\ cpu = "reader" /\ pc.reader = "pull" /\ pc'.upload = pc.upload
        /\ pc' = [reader |-> pc'.reader, upload |-> pc.upload]
        /\ closing = << >> /\ response' = TakeNext(response)
        /\ \/ /\ CanTake(response) /\ Head(response.items).kind = "chunk"
              /\ pc'.reader = "app" /\ got' = Head(response.items).upto /\ result' = result
           \/ /\ CanTake(response) /\ Head(response.items).kind = "failed"
              /\ pc'.reader = "close" /\ got' = got /\ result' = "failed"
           \/ /\ CanTake(response) /\ Head(response.items).kind \notin {"chunk", "failed"}
              /\ pc'.reader = "check" /\ got' = got /\ result' = result
           \/ /\ ~CanTake(response)
              /\ pc'.reader = "check" /\ got' = got /\ result' = result
    BY RubyFields, Moves DEF IInv, TypeOK, Pull, FiberAt, Todo, channelVars, routeVars, workerVars,
      rubyVars
  <1>2. /\ response' \in StreamsOf({"reader"}) /\ response'.waiter = response.waiter
        /\ ~response'.paused /\ response'.cancelled = response.cancelled
        /\ response'.ended = response.ended
        /\ loop = "pull" /\ result = "none" /\ NoHead
    BY <1>1, TakesResponse, Fields DEF IInv, ResponseQueue, Places, TakeNext
  <1>3. /\ ~CanTake(response) => response' = response /\ response.items = << >>
        /\ CanTake(response) =>
             /\ ~response.cancelled /\ Ordered(response'.items, got', accepted)
             /\ response'.buffered_bytes = accepted - got' /\ got' \in Nat /\ NoHead'
             /\ \A i \in 1 .. Len(response'.items) : response'.items[i].kind \in {"end", "failed"} =>
                  i = Len(response'.items) /\ response'.ended
             /\ \A i, j \in 1 .. Len(response'.items) :
                  response'.items[i].kind = "head" /\ response'.items[j].kind = "head" => i = j
             /\ Head(response.items).kind # "failed" /\ FailureQueued => FailureQueued'
             /\ Head(response.items).kind # "chunk" => response'.items = << >>
    <2>1. CASE ~CanTake(response)
      BY <1>1, <2>1, Fields DEF IInv, ResponseQueue, TakeNext, CanTake
    <2>2. CASE CanTake(response)
      <3> DEFINE e == response.items[1]
      <3>1. /\ ~response.cancelled /\ response.items # << >> /\ Head(response.items) = e
            /\ e \in Items /\ 1 \in 1 .. Len(response.items)
            /\ Ordered(response'.items, e.upto, accepted)
            /\ response'.buffered_bytes = accepted - e.upto
            /\ e.kind # "chunk" => e.upto = got
            /\ e.kind \in {"end", "failed"} => response.ended /\ response'.items = << >>
            /\ \A i \in 1 .. Len(response'.items) : response'.items[i].kind \in {"end", "failed"} =>
                 i = Len(response'.items) /\ response'.ended
            /\ \A i, j \in 1 .. Len(response'.items) :
                 response'.items[i].kind = "head" /\ response'.items[j].kind = "head" => i = j
            /\ NoHead' /\ (e.kind # "failed" /\ FailureQueued => FailureQueued')
        BY <1>1, <1>2, <2>2, TakesResponse DEF IInv
      <3>2. e.kind # "head" /\ e.kind \in Kinds /\ e.upto \in Nat
        BY <1>2, <3>1 DEF NoHead, Items
      <3>3. e.kind # "chunk" => e.kind \in {"end", "failed"}  BY <3>2 DEF Kinds
      <3> HIDE DEF e
      <3>4. got' = e.upto  BY <1>1, <2>2, <3>1, <3>3
      <3> QED BY <2>2, <3>1, <3>2, <3>3, <3>4
    <2> QED BY <2>1, <2>2
  <1>4. ChannelTypes'  BY <1>1, <1>2, <1>3 DEF IInv, TypeOK, ChannelTypes
  <1>5. RubyTypes'  BY <1>1, <1>2, <1>3 DEF IInv, TypeOK, RubyTypes
  <1>6. Early'  BY <1>1, <1>2, <1>3 DEF IInv, TypeOK, Early, Some, Places
  <1>7. Places'  BY <1>1, <1>2, <1>3 DEF IInv, TypeOK, Places
  <1>8. Reasons'  BY <1>1, <1>2, <1>3 DEF IInv, TypeOK, Reasons, GaveUp, Places
  <1>9. ResponseQueue'
    <2>1. CASE CanTake(response)
      BY <1>1, <1>2, <1>3, <2>1 DEF IInv, ResponseQueue, Some
    <2>2. CASE ~CanTake(response)
      <3>1. response' = response /\ got' = got  BY <1>1, <1>3, <2>2
      <3> QED BY <1>1, <3>1, Untouched DEF IInv
    <2> QED BY <2>1, <2>2
  <1>10. Told'  BY <1>1, <1>2, <1>3 DEF IInv, TypeOK, Told
  <1>11. Ending'  BY <1>1, <1>2, <1>3 DEF IInv, TypeOK, Ending, EndSeen, FailureQueued
  <1>12. WriterTold'
    BY <1>1, <1>2, <1>3 DEF IInv, TypeOK, WriterTold, ReaderStops, Ends, MayParkWriter, Full, Some
  <1>13. /\ RouteTypes' /\ WorkerTypes' /\ Plan' /\ Handle' /\ Counts' /\ RequestQueue'
         /\ Finishing'
    BY <1>1, <1>2, <1>3, Untouched DEF IInv, TypeOK
  <1> QED BY <1>4, <1>5, <1>6, <1>7, <1>8, <1>9, <1>10, <1>11, <1>12, <1>13 DEF IInv, TypeOK

-----------------------------------------------------------------------------
(* The worker's steps. *)

\* A step taken leaves the plan, and whatever did not wait for it, as it was.
LEMMA Drops ==
  ASSUME IInv, NEW x, At(x), worker' = Rest
  PROVE  /\ worker' \in Seq(Steps) /\ Plan' /\ pc.reader # "call"
         /\ UNCHANGED <<stream, envoy, closed, phase, queued>> => Handle'
         /\ x \notin {"start", "first"} /\ stream'.state = stream.state
              /\ UNCHANGED <<queued, result, pc>> => Early'
         /\ x \notin {"count", "stopped"} /\ UNCHANGED <<stream, counted>> => Counts'
         /\ UNCHANGED <<stream, timedOut, result, closing, resetWanted, mode, closed>>
              /\ response'.cancelled = response.cancelled => Reasons'
         /\ x # "pushHead" /\ UNCHANGED <<response, got, accepted, phase, loop>>
              /\ stream'.state = stream.state /\ stream'.response_ended = stream.response_ended
              => ResponseQueue'
         /\ x # "oweReader" /\ UNCHANGED <<pc, resolving>> /\ owed \subseteq owed'
              /\ response'.items = response.items => Told'
         /\ x # "setTrailers"
              /\ UNCHANGED <<phase, stream, envoy, trailers, result, response, pc>> => Ending'
         /\ x \notin {"oweWriter", "owePump", "pump", "send"}
              /\ UNCHANGED <<pc, resolving, closing, result, mode>>
              /\ owed \subseteq owed' /\ stream'.state = stream.state
              /\ (MayParkWriter(request) => MayParkWriter(request')) => WriterTold'
  <1>1. /\ x \in Steps /\ x \in Todo /\ Todo \subseteq Steps
        /\ worker' \in Seq(Steps) /\ Planned(worker)'
        /\ Todo = {x} \cup Todo' /\ \A y \in Todo' : Precedes(x, y)
        /\ x \notin Twice => Todo' = Todo \ {x}
    BY Popped DEF IInv
  <1>2. /\ x = "pump" => Todo' = {}
        /\ x = "oweReader" => Todo' \cap {"pushHead", "pushEnd", "pushFailure"} = {}
        /\ x = "oweWriter" => Todo' \cap {"cancelRequest", "oweReader"} = {}
    BY <1>1 DEF Precedes, Rank, Steps, Twice
  <1>3. Plan'
    <2>1. x = "pump" => ~Some({"inside", "start", "first"})'  BY <1>2 DEF Some
    <2> QED BY <1>1, <1>2, <2>1 DEF IInv, Plan, Some, Twice
  <1>4. pc.reader # "call"  BY <1>1, Known DEF IInv, Early
  <1>5. UNCHANGED <<stream, envoy, closed, phase, queued>> => Handle'
    BY <1>1 DEF IInv, Handle, Some
  <1>6. x \notin {"start", "first"} /\ stream'.state = stream.state
              /\ UNCHANGED <<queued, result, pc>> => Early'
    BY <1>1, <1>4 DEF IInv, Early, Some, Twice
  <1>7. x \notin {"count", "stopped"} /\ UNCHANGED <<stream, counted>> => Counts'
    BY <1>1 DEF IInv, Counts, Twice
  <1>8. UNCHANGED <<stream, timedOut, result, closing, resetWanted, mode, closed>>
              /\ response'.cancelled = response.cancelled => Reasons'
    BY <1>1 DEF IInv, Reasons, GaveUp
  <1>9. x # "pushHead" /\ UNCHANGED <<response, got, accepted, phase, loop>>
              /\ stream'.state = stream.state /\ stream'.response_ended = stream.response_ended
              => ResponseQueue'
    BY <1>1 DEF IInv, ResponseQueue, NoHead, Some
  <1>10. x # "oweReader" /\ UNCHANGED <<pc, resolving>> /\ owed \subseteq owed'
              /\ response'.items = response.items => Told'
    BY <1>1 DEF IInv, Told
  <1>11. x # "setTrailers"
              /\ UNCHANGED <<phase, stream, envoy, trailers, result, response, pc>> => Ending'
    BY <1>1 DEF IInv, Ending, EndSeen, FailureQueued
  <1>12. x \notin {"oweWriter", "owePump", "pump", "send"}
              /\ UNCHANGED <<pc, resolving, closing, result, mode>>
              /\ owed \subseteq owed' /\ stream'.state = stream.state
              /\ (MayParkWriter(request) => MayParkWriter(request')) => WriterTold'
    BY <1>1 DEF IInv, WriterTold, ReaderStops, Some
  <1> QED BY <1>1, <1>3, <1>4, <1>5, <1>6, <1>7, <1>8, <1>9, <1>10, <1>11, <1>12

\* The reader is owed a wakeup.
LEMMA TellReaderInv == IInv /\ Tell /\ At("oweReader") => IInv'
  <1> SUFFICES ASSUME IInv, Tell, At("oweReader")  PROVE IInv'
    OBVIOUS
  <1>1. /\ UNCHANGED <<response, request, resetWanted, timedOut, trailers, closed, queued,
                       event, stream, envoy, phase, reported, accepted, uploaded,
                       counted, stop, cpu, reactor, resolving, pc, closing, mode, loop,
                       got, written, result>>
        /\ At("oweReader") /\ worker' = Rest
        /\ owed' = owed \cup {"response"}
    BY DEF IInv, TypeOK, Tell, At, channelVars, routeVars, workerVars, rubyVars
  <1>2. worker' \in Seq(Steps)
    BY <1>1, Drops
  <1>3. RouteTypes'  BY <1>1, <1>2 DEF IInv, TypeOK, RouteTypes
  <1>4. WorkerTypes'  BY <1>1, <1>2 DEF IInv, TypeOK, WorkerTypes
  <1>5. Told'  BY <1>1, <1>2 DEF IInv, TypeOK, Told
  <1>6. /\ Plan' /\ Handle' /\ Early' /\ Counts' /\ Reasons' /\ ResponseQueue' /\ Ending'
        /\ WriterTold'
    BY <1>1, <1>2, Drops DEF IInv
  <1>7. /\ ChannelTypes' /\ RubyTypes' /\ Places' /\ RequestQueue' /\ Finishing'
    BY <1>1, <1>2, Untouched DEF IInv, TypeOK
  <1> QED BY <1>3, <1>4, <1>5, <1>6, <1>7 DEF IInv, TypeOK

\* The writer is owed a wakeup if it waits for room.
LEMMA TellWriterInv == IInv /\ Tell /\ At("oweWriter") => IInv'
  <1> SUFFICES ASSUME IInv, Tell, At("oweWriter")  PROVE IInv'
    OBVIOUS
  <1>1. /\ UNCHANGED <<response, request, resetWanted, timedOut, trailers, closed, queued,
                       event, stream, envoy, phase, reported, accepted, uploaded,
                       counted, stop, cpu, reactor, resolving, pc, closing, mode, loop,
                       got, written, result>>
        /\ At("oweWriter") /\ worker' = Rest
        /\ owed' = IF WriterOwedWakeup(request) THEN owed \cup {"request"} ELSE owed
    BY DEF IInv, TypeOK, Tell, At, channelVars, routeVars, workerVars, rubyVars
  <1>2. /\ worker' \in Seq(Steps) /\ owed \subseteq owed' /\ owed' \subseteq owed \cup {"request"}
    BY <1>1, Drops
  <1>3. RouteTypes'  BY <1>1, <1>2 DEF IInv, TypeOK, RouteTypes
  <1>4. WorkerTypes'  BY <1>1, <1>2 DEF IInv, TypeOK, WorkerTypes
  <1>5. WriterTold'
    <2>1. Todo' \subseteq Todo  BY <1>1, Popped DEF IInv
    <2>2. request.waiter # NoFiber /\ ~MayParkWriter(request) => "request" \in owed'
      BY <1>1 DEF WriterOwedWakeup, MayParkWriter
    <2> QED BY <1>1, <2>1, <2>2 DEF IInv, WriterTold, ReaderStops, Places, MayParkWriter, Full
  <1>6. /\ Plan' /\ Handle' /\ Early' /\ Counts' /\ Reasons' /\ ResponseQueue' /\ Told'
        /\ Ending'
    BY <1>1, <1>2, Drops DEF IInv
  <1>7. /\ ChannelTypes' /\ RubyTypes' /\ Places' /\ RequestQueue' /\ Finishing'
    BY <1>1, <1>2, Untouched DEF IInv, TypeOK
  <1> QED BY <1>3, <1>4, <1>5, <1>6, <1>7 DEF IInv, TypeOK

\* The worker schedules an event for itself.
LEMMA TellSelfInv == IInv /\ Tell /\ At("wakeSelf") => IInv'
  <1> SUFFICES ASSUME IInv, Tell, At("wakeSelf")  PROVE IInv'
    OBVIOUS
  <1>1. /\ UNCHANGED <<response, request, resetWanted, timedOut, trailers, closed, queued, owed,
                       stream, envoy, phase, reported, accepted, uploaded, counted,
                       stop, cpu, reactor, resolving, pc, closing, mode, loop, got,
                       written, result>>
        /\ At("wakeSelf") /\ worker' = Rest
        /\ event' /\ event' \in BOOLEAN
    BY DEF IInv, TypeOK, Tell, At, channelVars, routeVars, workerVars, rubyVars
  <1>2. worker' \in Seq(Steps)
    BY <1>1, Drops
  <1>3. RouteTypes'  BY <1>1, <1>2 DEF IInv, TypeOK, RouteTypes
  <1>4. WorkerTypes'  BY <1>1, <1>2 DEF IInv, TypeOK, WorkerTypes
  <1>5. /\ Plan' /\ Handle' /\ Early' /\ Counts' /\ Reasons' /\ ResponseQueue' /\ Told'
        /\ Ending' /\ WriterTold'
    BY <1>1, <1>2, Drops DEF IInv
  <1>6. /\ ChannelTypes' /\ RubyTypes' /\ Places' /\ RequestQueue' /\ Finishing'
    BY <1>1, <1>2, Untouched DEF IInv, TypeOK
  <1> QED BY <1>3, <1>4, <1>5, <1>6 DEF IInv, TypeOK

\* A call into Envoy returns.
LEMMA ReturnInv == IInv /\ Return => IInv'
  <1> SUFFICES ASSUME IInv, Return  PROVE IInv'
    OBVIOUS
  <1>1. /\ UNCHANGED <<response, request, resetWanted, timedOut, trailers, closed, queued,
                       event, owed, stream, envoy, phase, reported, accepted, uploaded,
                       counted, stop, cpu, reactor, resolving, pc, closing, mode, loop,
                       got, written, result>>
        /\ At("inside") /\ worker' = Rest
    BY DEF IInv, TypeOK, Return, At, channelVars, routeVars, workerVars, rubyVars
  <1>2. worker' \in Seq(Steps)
    BY <1>1, Drops
  <1>3. WorkerTypes'  BY <1>1, <1>2 DEF IInv, TypeOK, WorkerTypes
  <1>4. /\ Plan' /\ Handle' /\ Early' /\ Counts' /\ Reasons' /\ ResponseQueue' /\ Told'
        /\ Ending' /\ WriterTold'
    BY <1>1, <1>2, Drops DEF IInv
  <1>5. /\ ChannelTypes' /\ RouteTypes' /\ RubyTypes' /\ Places' /\ RequestQueue' /\ Finishing'
    BY <1>1, <1>2, Untouched DEF IInv, TypeOK
  <1> QED BY <1>3, <1>4, <1>5 DEF IInv, TypeOK

\* The pump tells the writer it made room for.
LEMMA OwePumpInv == IInv /\ OwePump => IInv'
  <1> SUFFICES ASSUME IInv, OwePump  PROVE IInv'
    OBVIOUS
  <1>1. /\ UNCHANGED <<response, request, resetWanted, timedOut, trailers, closed, queued,
                       event, stream, envoy, phase, reported, accepted, uploaded,
                       counted, stop, cpu, reactor, resolving, pc, closing, mode, loop,
                       got, written, result>>
        /\ At("owePump") /\ worker' = Rest
        /\ owed' = IF WriterOwedWakeup(request) THEN owed \cup {"request"} ELSE owed
    BY DEF IInv, TypeOK, OwePump, At, channelVars, routeVars, workerVars, rubyVars
  <1>2. /\ worker' \in Seq(Steps) /\ owed \subseteq owed' /\ owed' \subseteq owed \cup {"request"}
    BY <1>1, Drops
  <1>3. RouteTypes'  BY <1>1, <1>2 DEF IInv, TypeOK, RouteTypes
  <1>4. WorkerTypes'  BY <1>1, <1>2 DEF IInv, TypeOK, WorkerTypes
  <1>5. WriterTold'
    <2>1. Todo' \subseteq Todo  BY <1>1, Popped DEF IInv
    <2>2. request.waiter # NoFiber /\ ~MayParkWriter(request) => "request" \in owed'
      BY <1>1 DEF WriterOwedWakeup, MayParkWriter
    <2> QED BY <1>1, <2>1, <2>2 DEF IInv, WriterTold, ReaderStops, Places, MayParkWriter, Full
  <1>6. /\ Plan' /\ Handle' /\ Early' /\ Counts' /\ Reasons' /\ ResponseQueue' /\ Told'
        /\ Ending'
    BY <1>1, <1>2, Drops DEF IInv
  <1>7. /\ ChannelTypes' /\ RubyTypes' /\ Places' /\ RequestQueue' /\ Finishing'
    BY <1>1, <1>2, Untouched DEF IInv, TypeOK
  <1> QED BY <1>3, <1>4, <1>5, <1>6, <1>7 DEF IInv, TypeOK

\* The fiber closed the stream while data came in.
LEMMA StoppedInv == IInv /\ Stopped => IInv'
  <1> SUFFICES ASSUME IInv, Stopped  PROVE IInv'
    OBVIOUS
  <1>1. /\ UNCHANGED <<response, request, resetWanted, timedOut, trailers, closed, queued,
                       event, owed, envoy, phase, reported, accepted, uploaded, counted,
                       stop, cpu, reactor, resolving, pc, closing, mode, loop, got,
                       written, result>>
        /\ At("stopped") /\ worker' = Rest
        /\ stream' = Settled(stream, StoppedByFiber)
    BY DEF IInv, TypeOK, Stopped, At, channelVars, routeVars, workerVars, rubyVars
  <1>2. /\ worker' \in Seq(Steps) /\ Todo = {"stopped"} \cup Todo' /\ "stopped" \notin Todo'
    BY <1>1, Drops, Popped DEF IInv, Twice
  <1>3. /\ stream \in OpenStreams /\ stream.state = "open" /\ stream.response_ended
        /\ stream.reset_sent \in BOOLEAN /\ stream.upgraded \in BOOLEAN
        /\ StoppedByFiber \in Outcomes /\ response.cancelled
        /\ StoppedByFiber = "timed_out" <=> timedOut
        /\ StoppedByFiber # "overflow" /\ StoppedByFiber # "none"
    BY <1>1, <1>2, StreamFields DEF IInv, Counts, Reasons, StoppedByFiber, Outcomes
  <1>4. /\ stream' \in OpenStreams /\ stream'.outcome # "none"
        /\ stream'.outcome = IF stream.outcome = "none" THEN StoppedByFiber ELSE stream.outcome
        /\ stream'.state = stream.state /\ stream'.request_ended = stream.request_ended
        /\ stream'.response_ended = stream.response_ended
        /\ stream'.reset_sent = stream.reset_sent /\ stream'.upgraded = stream.upgraded
    BY <1>1, <1>3, SettledFacts
  <1>5. WorkerTypes'  BY <1>1, <1>2, <1>3, <1>4 DEF IInv, TypeOK, WorkerTypes
  <1>6. Handle'  BY <1>1, <1>2, <1>3, <1>4 DEF IInv, TypeOK, Handle, Some
  <1>7. Early'  BY <1>1, <1>2, <1>3, <1>4, Drops DEF IInv, TypeOK, Early, Some
  <1>8. Counts'  BY <1>1, <1>2, <1>3, <1>4 DEF IInv, TypeOK, Counts
  <1>9. Reasons'  BY <1>1, <1>2, <1>3, <1>4 DEF IInv, TypeOK, Reasons, GaveUp
  <1>10. Ending'  BY <1>1, <1>2, <1>3, <1>4 DEF IInv, TypeOK, Ending, EndSeen, FailureQueued
  <1>11. /\ Plan' /\ ResponseQueue' /\ Told' /\ WriterTold'
    BY <1>1, <1>2, <1>3, <1>4, Drops DEF IInv
  <1>12. /\ ChannelTypes' /\ RouteTypes' /\ RubyTypes' /\ Places' /\ RequestQueue' /\ Finishing'
    BY <1>1, <1>2, <1>3, <1>4, Untouched DEF IInv, TypeOK
  <1> QED BY <1>5, <1>6, <1>7, <1>8, <1>9, <1>10, <1>11, <1>12 DEF IInv, TypeOK

\* count_call.
LEMMA CountInv == IInv /\ Count => IInv'
  <1> SUFFICES ASSUME IInv, Count  PROVE IInv'
    OBVIOUS
  <1>1. /\ UNCHANGED <<response, request, resetWanted, timedOut, trailers, closed, queued,
                       event, owed, stream, envoy, phase, reported, accepted, uploaded,
                       stop, cpu, reactor, resolving, pc, closing, mode, loop, got,
                       written, result>>
        /\ At("count") /\ worker' = Rest
        /\ counted' = Append(counted, IF stream.outcome = "none" THEN "abandoned" ELSE stream.outcome)
    BY DEF IInv, TypeOK, Count, At, channelVars, routeVars, workerVars, rubyVars
  <1>2. /\ worker' \in Seq(Steps) /\ Todo = {"count"} \cup Todo' /\ "count" \notin Todo'
    BY <1>1, Drops, Popped DEF IInv, Twice
  <1>3. /\ stream.state = "gone" /\ stream.outcome # "none" /\ counted = << >>
        /\ stream.outcome \in Outcomes
    BY <1>2, StreamFields DEF IInv, Counts
  <1>4. counted' = <<stream.outcome>> /\ counted' \in Seq(Outcomes)
    BY <1>1, <1>3
  <1>5. WorkerTypes'  BY <1>1, <1>2, <1>3, <1>4 DEF IInv, TypeOK, WorkerTypes
  <1>6. Counts'  BY <1>1, <1>2, <1>3, <1>4 DEF IInv, TypeOK, Counts
  <1>7. /\ Plan' /\ Handle' /\ Early' /\ Reasons' /\ ResponseQueue' /\ Told' /\ Ending'
        /\ WriterTold'
    BY <1>1, <1>2, <1>3, <1>4, Drops DEF IInv
  <1>8. /\ ChannelTypes' /\ RouteTypes' /\ RubyTypes' /\ Places' /\ RequestQueue' /\ Finishing'
    BY <1>1, <1>2, <1>3, <1>4, Untouched DEF IInv, TypeOK
  <1> QED BY <1>5, <1>6, <1>7, <1>8 DEF IInv, TypeOK

\* The head is pushed.
LEMMA PushHeadInv == IInv /\ TouchChannel /\ At("pushHead") => IInv'
  <1> SUFFICES ASSUME IInv, TouchChannel, At("pushHead")  PROVE IInv'
    OBVIOUS
  <1>1. /\ UNCHANGED <<request, resetWanted, timedOut, trailers, closed, queued, event, owed,
                       stream, envoy, phase, reported, accepted, uploaded, counted,
                       stop, cpu, reactor, resolving, pc, closing, mode, loop, got,
                       written, result>>
        /\ At("pushHead") /\ worker' = Rest
        /\ response' = Push(response, Item("head", accepted, accepted))
    BY DEF IInv, TypeOK, TouchChannel, At, channelVars, routeVars, workerVars, rubyVars
  <1>2. /\ worker' \in Seq(Steps) /\ Todo \subseteq Steps
        /\ Todo = {"pushHead"} \cup Todo' /\ \A y \in Todo' : Precedes("pushHead", y)
    BY <1>1, Drops, Popped DEF IInv
  <1>3. /\ ~response.ended /\ loop = "head" /\ NoHead /\ phase # "none"
        /\ "pushHead" \notin Todo' /\ "oweReader" \in Todo' /\ pc.reader # "call"
        /\ response.items # << >> => response.cancelled
    <2>1. /\ ~response.ended /\ loop = "head" /\ NoHead /\ phase # "none" /\ "oweReader" \in Todo
          /\ response.items # << >> => response.items[1].kind # "chunk" /\ 1 \in 1 .. Len(response.items)
      BY <1>2, Fields DEF IInv, ResponseQueue, Plan, Some
    <2>2. "pushHead" \notin Todo'  BY <1>2 DEF Precedes, Rank, Twice
    <2>3. response.items # << >> => response.items[1].kind \in {"head", "end", "failed"}
      <3>1. \A i \in 1 .. Len(response.items) : response.items[i].kind \in Kinds
        <4>1. response.items \in Seq(Items)  BY Fields DEF IInv
        <4>2. \A i \in 1 .. Len(response.items) : response.items[i] \in Items  BY <4>1
        <4> QED BY <4>2 DEF Items
      <3> QED BY <2>1, <3>1 DEF Kinds
    <2>4. response.items = << >>
      BY <2>1, <2>3 DEF IInv, ResponseQueue, NoHead
    <2> QED BY <1>1, <1>2, <2>1, <2>2, <2>4, Drops
  <1>4. /\ response' \in StreamsOf({"reader"}) /\ response'.waiter = response.waiter
        /\ ~response'.paused /\ response'.cancelled = response.cancelled
        /\ response.cancelled => response' = response
        /\ ~response.cancelled =>
             /\ Ordered(response'.items, got, accepted)
             /\ response'.buffered_bytes = accepted - got
             /\ response'.ended <=> "head" \in {"end", "failed"}
             /\ Len(response'.items) = Len(response.items) + 1 /\ Len(response.items) \in Nat
             /\ \A i \in 1 .. Len(response.items) :
                  /\ response'.items[i] = response.items[i]
                  /\ response.items[i].kind \notin {"end", "failed"}
             /\ response'.items[Len(response.items) + 1].kind = "head"
             /\ response.items = << >> => response'.items[1].kind = "head"
    <2>1. "head" \in {"head", "end", "failed"}  OBVIOUS
    <2> QED BY <1>1, <1>3, <2>1, PushesResponse DEF IInv
  <1>5. ChannelTypes'  BY <1>1, <1>2, <1>3, <1>4 DEF IInv, TypeOK, ChannelTypes
  <1>6. WorkerTypes'  BY <1>1, <1>2, <1>3, <1>4 DEF IInv, TypeOK, WorkerTypes
  <1>7. ResponseQueue'
    <2>1. CASE response.cancelled
      BY <1>1, <1>2, <1>3, <1>4, <2>1 DEF IInv, ResponseQueue, NoHead, Some
    <2>2. CASE ~response.cancelled
      <3>0. response.items = << >> /\ Len(<< >>) = 0  BY <1>3, <2>2
      <3>1. response.items = << >> /\ Len(response'.items) = 1 /\ response'.items[1].kind = "head"
        BY <1>4, <2>2, <3>0
      <3>2. response'.items # << >> /\ 1 .. 1 = {1}  BY <3>1
      <3> QED BY <1>1, <1>2, <1>3, <1>4, <2>2, <3>1, <3>2 DEF IInv, ResponseQueue, NoHead, Some
    <2> QED BY <2>1, <2>2
  <1>8. Told'  BY <1>1, <1>2, <1>3, <1>4 DEF IInv, TypeOK, Told
  <1>9. Ending'
    <2>1. response'.ended => response.ended  BY <1>3, <1>4
    <2> QED BY <1>1, <1>2, <1>3, <2>1 DEF IInv, Ending, EndSeen, Handle
  <1>10. /\ Plan' /\ Handle' /\ Early' /\ Counts' /\ Reasons' /\ WriterTold'
    BY <1>1, <1>2, <1>3, <1>4, Drops DEF IInv
  <1>11. /\ RouteTypes' /\ RubyTypes' /\ Places' /\ RequestQueue' /\ Finishing'
    BY <1>1, <1>2, <1>3, <1>4, Untouched DEF IInv, TypeOK
  <1> QED BY <1>5, <1>6, <1>7, <1>8, <1>9, <1>10, <1>11 DEF IInv, TypeOK

\* The end is pushed.
LEMMA PushEndInv == IInv /\ TouchChannel /\ At("pushEnd") => IInv'
  <1> SUFFICES ASSUME IInv, TouchChannel, At("pushEnd")  PROVE IInv'
    OBVIOUS
  <1>1. /\ UNCHANGED <<request, resetWanted, timedOut, trailers, closed, queued, event, owed,
                       stream, envoy, phase, reported, accepted, uploaded, counted,
                       stop, cpu, reactor, resolving, pc, closing, mode, loop, got,
                       written, result>>
        /\ At("pushEnd") /\ worker' = Rest
        /\ response' = Push(response, Item("end", accepted, accepted))
    BY DEF IInv, TypeOK, TouchChannel, At, channelVars, routeVars, workerVars, rubyVars
  <1>2. /\ worker' \in Seq(Steps) /\ Todo \subseteq Steps
        /\ Todo = {"pushEnd"} \cup Todo' /\ \A y \in Todo' : Precedes("pushEnd", y)
    BY <1>1, Drops, Popped DEF IInv
  <1>3. /\ ~response.ended /\ "oweReader" \in Todo' /\ pc.reader # "call"
        /\ Todo' \cap {"pushHead", "setTrailers", "pushEnd", "pushFailure"} = {}
        /\ stream.response_ended \/ stream.state = "gone"
    <2>1. /\ ~response.ended /\ "oweReader" \in Todo /\ "pushFailure" \notin Todo
          /\ stream.response_ended \/ stream.state = "gone"
      BY <1>2 DEF IInv, ResponseQueue, Plan, Some
    <2>2. Todo' \cap {"pushHead", "setTrailers", "pushEnd"} = {}  BY <1>2 DEF Precedes, Rank, Twice
    <2> QED BY <1>1, <1>2, <2>1, <2>2, Drops
  <1>4. /\ response' \in StreamsOf({"reader"}) /\ response'.waiter = response.waiter
        /\ ~response'.paused /\ response'.cancelled = response.cancelled
        /\ response.cancelled => response' = response
        /\ ~response.cancelled =>
             /\ Ordered(response'.items, got, accepted)
             /\ response'.buffered_bytes = accepted - got
             /\ response'.ended <=> "end" \in {"end", "failed"}
             /\ Len(response'.items) = Len(response.items) + 1 /\ Len(response.items) \in Nat
             /\ \A i \in 1 .. Len(response.items) :
                  /\ response'.items[i] = response.items[i]
                  /\ response.items[i].kind \notin {"end", "failed"}
             /\ response'.items[Len(response.items) + 1].kind = "end"
             /\ response.items = << >> => response'.items[1].kind = "end"
    <2>1. "end" \in {"head", "end", "failed"}  OBVIOUS
    <2> QED BY <1>1, <1>3, <2>1, PushesResponse DEF IInv
  <1>5. ChannelTypes'  BY <1>1, <1>2, <1>3, <1>4 DEF IInv, TypeOK, ChannelTypes
  <1>6. WorkerTypes'  BY <1>1, <1>2, <1>3, <1>4 DEF IInv, TypeOK, WorkerTypes
  <1>7. ResponseQueue'
    <2>1. CASE response.cancelled
      BY <1>1, <1>2, <1>3, <1>4, <2>1 DEF IInv, ResponseQueue, NoHead, Some
    <2>2. CASE ~response.cancelled
      <3>1. response'.items # << >> /\ response'.ended
            /\ response.items # << >> => response'.items[1] = response.items[1]
        BY <1>4, <2>2, Fields DEF IInv
      <3>2. /\ \A i \in 1 .. Len(response'.items) :
                  i \in 1 .. Len(response.items) \/ i = Len(response.items) + 1
        BY <1>4, <2>2
      <3>3. NoHead => NoHead'  BY <1>4, <2>2, <3>2 DEF NoHead
      <3>4. /\ \A i \in 1 .. Len(response'.items) : response'.items[i].kind \in {"end", "failed"} =>
                 i = Len(response'.items) /\ response'.ended
            /\ \A i \in 1 .. Len(response'.items) :
                 response'.items[i].kind = "head" =>
                   i \in 1 .. Len(response.items) /\ response.items[i].kind = "head"
        BY <1>4, <2>2, <3>1, <3>2
      <3> QED BY <1>1, <1>2, <1>3, <1>4, <2>2, <3>1, <3>3, <3>4 DEF IInv, ResponseQueue, Some
    <2> QED BY <2>1, <2>2
  <1>8. Told'  BY <1>1, <1>2, <1>3, <1>4 DEF IInv, TypeOK, Told
  <1>9. Ending'
    <2>1. EndSeen /\ (phase = "trailers" => trailers)
      BY <1>2, <1>3 DEF IInv, Ending
    <2> QED BY <1>1, <1>2, <1>3, <1>4, <2>1 DEF IInv, Ending, EndSeen
  <1>10. /\ Plan' /\ Handle' /\ Early' /\ Counts' /\ Reasons' /\ WriterTold'
    BY <1>1, <1>2, <1>3, <1>4, Drops DEF IInv
  <1>11. /\ RouteTypes' /\ RubyTypes' /\ Places' /\ RequestQueue' /\ Finishing'
    BY <1>1, <1>2, <1>3, <1>4, Untouched DEF IInv, TypeOK
  <1> QED BY <1>5, <1>6, <1>7, <1>8, <1>9, <1>10, <1>11 DEF IInv, TypeOK

\* The failure is pushed.
LEMMA PushFailureInv == IInv /\ TouchChannel /\ At("pushFailure") => IInv'
  <1> SUFFICES ASSUME IInv, TouchChannel, At("pushFailure")  PROVE IInv'
    OBVIOUS
  <1>1. /\ UNCHANGED <<request, resetWanted, timedOut, trailers, closed, queued, event, owed,
                       stream, envoy, phase, reported, accepted, uploaded, counted,
                       stop, cpu, reactor, resolving, pc, closing, mode, loop, got,
                       written, result>>
        /\ At("pushFailure") /\ worker' = Rest
        /\ response' = Push(response, Item("failed", accepted, accepted))
    BY DEF IInv, TypeOK, TouchChannel, At, channelVars, routeVars, workerVars, rubyVars
  <1>2. /\ worker' \in Seq(Steps) /\ Todo \subseteq Steps
        /\ Todo = {"pushFailure"} \cup Todo' /\ \A y \in Todo' : Precedes("pushFailure", y)
    BY <1>1, Drops, Popped DEF IInv
  <1>3. /\ ~response.ended /\ "oweReader" \in Todo' /\ pc.reader # "call"
        /\ Todo' \cap {"pushHead", "setTrailers", "pushEnd", "pushFailure"} = {}
        /\ stream.response_ended \/ stream.state = "gone"
    <2>1. /\ ~response.ended /\ "oweReader" \in Todo /\ "pushEnd" \notin Todo
          /\ stream.response_ended \/ stream.state = "gone"
      BY <1>2 DEF IInv, ResponseQueue, Plan, Some
    <2>2. Todo' \cap {"pushHead", "setTrailers", "pushFailure"} = {}  BY <1>2 DEF Precedes, Rank, Twice
    <2> QED BY <1>1, <1>2, <2>1, <2>2, Drops
  <1>4. /\ response' \in StreamsOf({"reader"}) /\ response'.waiter = response.waiter
        /\ ~response'.paused /\ response'.cancelled = response.cancelled
        /\ response.cancelled => response' = response
        /\ ~response.cancelled =>
             /\ Ordered(response'.items, got, accepted)
             /\ response'.buffered_bytes = accepted - got
             /\ response'.ended <=> "failed" \in {"end", "failed"}
             /\ Len(response'.items) = Len(response.items) + 1 /\ Len(response.items) \in Nat
             /\ \A i \in 1 .. Len(response.items) :
                  /\ response'.items[i] = response.items[i]
                  /\ response.items[i].kind \notin {"end", "failed"}
             /\ response'.items[Len(response.items) + 1].kind = "failed"
             /\ response.items = << >> => response'.items[1].kind = "failed"
    <2>1. "failed" \in {"head", "end", "failed"}  OBVIOUS
    <2> QED BY <1>1, <1>3, <2>1, PushesResponse DEF IInv
  <1>5. ChannelTypes'  BY <1>1, <1>2, <1>3, <1>4 DEF IInv, TypeOK, ChannelTypes
  <1>6. WorkerTypes'  BY <1>1, <1>2, <1>3, <1>4 DEF IInv, TypeOK, WorkerTypes
  <1>7. ResponseQueue'
    <2>1. CASE response.cancelled
      BY <1>1, <1>2, <1>3, <1>4, <2>1 DEF IInv, ResponseQueue, NoHead, Some
    <2>2. CASE ~response.cancelled
      <3>1. response'.items # << >> /\ response'.ended
            /\ response.items # << >> => response'.items[1] = response.items[1]
        BY <1>4, <2>2, Fields DEF IInv
      <3>2. /\ \A i \in 1 .. Len(response'.items) :
                  i \in 1 .. Len(response.items) \/ i = Len(response.items) + 1
        BY <1>4, <2>2
      <3>3. NoHead => NoHead'  BY <1>4, <2>2, <3>2 DEF NoHead
      <3>4. /\ \A i \in 1 .. Len(response'.items) : response'.items[i].kind \in {"end", "failed"} =>
                 i = Len(response'.items) /\ response'.ended
            /\ \A i \in 1 .. Len(response'.items) :
                 response'.items[i].kind = "head" =>
                   i \in 1 .. Len(response.items) /\ response.items[i].kind = "head"
        BY <1>4, <2>2, <3>1, <3>2
      <3> QED BY <1>1, <1>2, <1>3, <1>4, <2>2, <3>1, <3>3, <3>4 DEF IInv, ResponseQueue, Some
    <2> QED BY <2>1, <2>2
  <1>8. Told'  BY <1>1, <1>2, <1>3, <1>4 DEF IInv, TypeOK, Told
  <1>9. Ending'
    <2>1. CASE response.cancelled
      BY <1>1, <1>2, <1>3, <1>4, <2>1 DEF IInv, Ending, EndSeen
    <2>2. CASE ~response.cancelled
      <3>1. FailureQueued'
        <4>1. Len(response.items) + 1 \in 1 .. Len(response'.items)  BY <1>4, <2>2
        <4> QED BY <1>4, <2>2, <4>1 DEF FailureQueued
      <3> QED BY <1>1, <1>2, <1>3, <3>1 DEF IInv, Ending, EndSeen
    <2> QED BY <2>1, <2>2
  <1>10. /\ Plan' /\ Handle' /\ Early' /\ Counts' /\ Reasons' /\ WriterTold'
    BY <1>1, <1>2, <1>3, <1>4, Drops DEF IInv
  <1>11. /\ RouteTypes' /\ RubyTypes' /\ Places' /\ RequestQueue' /\ Finishing'
    BY <1>1, <1>2, <1>3, <1>4, Untouched DEF IInv, TypeOK
  <1> QED BY <1>5, <1>6, <1>7, <1>8, <1>9, <1>10, <1>11 DEF IInv, TypeOK

\* The request queue is cancelled.
LEMMA CancelRequestInv == IInv /\ TouchChannel /\ At("cancelRequest") => IInv'
  <1> SUFFICES ASSUME IInv, TouchChannel, At("cancelRequest")  PROVE IInv'
    OBVIOUS
  <1>1. /\ UNCHANGED <<response, resetWanted, timedOut, trailers, closed, queued, event, owed,
                       stream, envoy, phase, reported, accepted, uploaded, counted,
                       stop, cpu, reactor, resolving, pc, closing, mode, loop, got,
                       written, result>>
        /\ At("cancelRequest") /\ worker' = Rest
        /\ request' = Cancel(request)
    BY DEF IInv, TypeOK, TouchChannel, At, channelVars, routeVars, workerVars, rubyVars
  <1>2. /\ worker' \in Seq(Steps) /\ Todo \subseteq Steps /\ pc.reader # "call"
        /\ Todo = {"cancelRequest"} \cup Todo' /\ \A y \in Todo' : Precedes("cancelRequest", y)
    BY <1>1, Drops, Popped DEF IInv
  <1>3. /\ request' \in StreamsOf({"upload"}) /\ request'.cancelled /\ request'.items = << >>
        /\ request'.buffered_bytes = 0 /\ request'.ended = request.ended
        /\ request'.paused = request.paused /\ request'.waiter = request.waiter
    BY <1>1, CancelFacts, Fields DEF IInv
  <1>4. "oweWriter" \in Todo'
    BY <1>2 DEF IInv, Plan, Some
  <1>5. ChannelTypes'  BY <1>1, <1>2, <1>3, <1>4 DEF IInv, TypeOK, ChannelTypes
  <1>6. WorkerTypes'  BY <1>1, <1>2, <1>3, <1>4 DEF IInv, TypeOK, WorkerTypes
  <1>7. RequestQueue'  BY <1>1, <1>2, <1>3, <1>4 DEF IInv, TypeOK, RequestQueue
  <1>8. Finishing'  BY <1>1, <1>2, <1>3, <1>4 DEF IInv, TypeOK, Finishing, Refuses
  <1>9. WriterTold'
    BY <1>1, <1>2, <1>3, <1>4 DEF IInv, TypeOK, WriterTold, ReaderStops, Ends, MayParkWriter, Full, Some
  <1>10. /\ Plan' /\ Handle' /\ Early' /\ Counts' /\ Reasons' /\ ResponseQueue' /\ Told'
         /\ Ending'
    BY <1>1, <1>2, <1>3, <1>4, Drops DEF IInv
  <1>11. /\ RouteTypes' /\ RubyTypes' /\ Places'
    BY <1>1, <1>2, <1>3, <1>4, Untouched DEF IInv, TypeOK
  <1> QED BY <1>5, <1>6, <1>7, <1>8, <1>9, <1>10, <1>11 DEF IInv, TypeOK

\* The reset is asked for.
LEMMA WantResetInv == IInv /\ TouchChannel /\ At("wantReset") => IInv'
  <1> SUFFICES ASSUME IInv, TouchChannel, At("wantReset")  PROVE IInv'
    OBVIOUS
  <1>1. /\ UNCHANGED <<response, request, timedOut, trailers, closed, queued, event, owed,
                       stream, envoy, phase, reported, accepted, uploaded, counted,
                       stop, cpu, reactor, resolving, pc, closing, mode, loop, got,
                       written, result>>
        /\ At("wantReset") /\ worker' = Rest
    BY DEF IInv, TypeOK, TouchChannel, At, channelVars, routeVars, workerVars, rubyVars
  <1>2. /\ worker' \in Seq(Steps) /\ Todo \subseteq Steps /\ pc.reader # "call"
        /\ Todo = {"wantReset"} \cup Todo' /\ \A y \in Todo' : Precedes("wantReset", y)
    BY <1>1, Drops, Popped DEF IInv
  <1>3. resetWanted' /\ resetWanted' \in BOOLEAN
    BY DEF TouchChannel, At
  <1>4. ChannelTypes'  BY <1>1, <1>2, <1>3 DEF IInv, TypeOK, ChannelTypes
  <1>5. WorkerTypes'  BY <1>1, <1>2, <1>3 DEF IInv, TypeOK, WorkerTypes
  <1>6. Reasons'  BY <1>1, <1>2, <1>3 DEF IInv, TypeOK, Reasons, GaveUp
  <1>7. /\ Plan' /\ Handle' /\ Early' /\ Counts' /\ ResponseQueue' /\ Told' /\ Ending'
        /\ WriterTold'
    BY <1>1, Drops DEF IInv
  <1>8. /\ RouteTypes' /\ RubyTypes' /\ Places' /\ RequestQueue' /\ Finishing'
    BY <1>1, Untouched DEF IInv, TypeOK
  <1> QED BY <1>4, <1>5, <1>6, <1>7, <1>8 DEF IInv, TypeOK

\* The trailers are set.
LEMMA SetTrailersInv == IInv /\ TouchChannel /\ At("setTrailers") => IInv'
  <1> SUFFICES ASSUME IInv, TouchChannel, At("setTrailers")  PROVE IInv'
    OBVIOUS
  <1>1. /\ UNCHANGED <<response, request, resetWanted, timedOut, closed, queued, event, owed,
                       stream, envoy, phase, reported, accepted, uploaded, counted,
                       stop, cpu, reactor, resolving, pc, closing, mode, loop, got,
                       written, result>>
        /\ At("setTrailers") /\ worker' = Rest
    BY DEF IInv, TypeOK, TouchChannel, At, channelVars, routeVars, workerVars, rubyVars
  <1>2. /\ worker' \in Seq(Steps) /\ Todo \subseteq Steps /\ pc.reader # "call"
        /\ Todo = {"setTrailers"} \cup Todo' /\ \A y \in Todo' : Precedes("setTrailers", y)
    BY <1>1, Drops, Popped DEF IInv
  <1>3. trailers' /\ trailers' \in BOOLEAN
    BY DEF TouchChannel, At
  <1>4. ChannelTypes'  BY <1>1, <1>2, <1>3 DEF IInv, TypeOK, ChannelTypes
  <1>5. WorkerTypes'  BY <1>1, <1>2, <1>3 DEF IInv, TypeOK, WorkerTypes
  <1>6. Ending'  BY <1>1, <1>2, <1>3 DEF IInv, TypeOK, Ending, EndSeen, FailureQueued
  <1>7. /\ Plan' /\ Handle' /\ Early' /\ Counts' /\ Reasons' /\ ResponseQueue' /\ Told'
        /\ WriterTold'
    BY <1>1, Drops DEF IInv
  <1>8. /\ RouteTypes' /\ RubyTypes' /\ Places' /\ RequestQueue' /\ Finishing'
    BY <1>1, Untouched DEF IInv, TypeOK
  <1> QED BY <1>4, <1>5, <1>6, <1>7, <1>8 DEF IInv, TypeOK

\* A call into Envoy, then the pump.
LEMMA InsideSteps == Lists(<<"inside", "pump">>, {"inside", "pump"})
  <1>1. <<"inside", "pump">> = <<"inside">> \o <<"pump">>  OBVIOUS
  <1>2. \A x \in {"inside"}, y \in {"pump"} : Precedes(x, y)  BY DEF Precedes, Rank
  <1>3. Lists(<<"inside">>, {"inside"}) /\ Lists(<<"pump">>, {"pump"})  BY Single DEF Steps
  <1>4. Lists(<<"inside">> \o <<"pump">>, {"inside"} \cup {"pump"})  BY <1>2, <1>3, JoinLists
  <1>5. {"inside"} \cup {"pump"} = {"inside", "pump"}  OBVIOUS
  <1> QED BY <1>1, <1>4, <1>5

\* A queued call, then the pump.
LEMMA StartSteps == Lists(<<"start", "pump">>, {"start", "pump"})
  <1>1. <<"start", "pump">> = <<"start">> \o <<"pump">>  OBVIOUS
  <1>2. \A x \in {"start"}, y \in {"pump"} : Precedes(x, y)  BY DEF Precedes, Rank
  <1>3. Lists(<<"start">>, {"start"}) /\ Lists(<<"pump">>, {"pump"})  BY Single DEF Steps
  <1>4. Lists(<<"start">> \o <<"pump">>, {"start"} \cup {"pump"})  BY <1>2, <1>3, JoinLists
  <1>5. {"start"} \cup {"pump"} = {"start", "pump"}  OBVIOUS
  <1> QED BY <1>1, <1>4, <1>5

\* start_stream begins a queued call, or finds it given up.
LEMMA StartInv == IInv /\ Start => IInv'
  <1> SUFFICES ASSUME IInv, Start  PROVE IInv'
    OBVIOUS
  <1>1. /\ UNCHANGED <<response, request, resetWanted, timedOut, trailers, closed, queued,
                       event, owed, envoy, phase, reported, accepted, uploaded, counted,
                       stop, cpu, reactor, resolving, pc, closing, mode, loop, got,
                       written, result>>
        /\ At("start")
        /\ worker' = (IF resetWanted THEN <<"count">> ELSE <<"first">>) \o Rest
        /\ stream' = IF resetWanted THEN [Settled(stream, "abandoned") EXCEPT !.state = "gone"]
                    ELSE stream
    BY DEF IInv, TypeOK, Start, At, channelVars, routeVars, workerVars, rubyVars
  <1>2. /\ Todo = {"start", "pump"} /\ Members(Rest) = {"pump"} /\ Lists(Rest, {"pump"})
        /\ stream = NoStream /\ stream.state = "none" /\ ~closed /\ ~queued
        /\ pc.reader # "call"
    <2>1. /\ "start" \in Todo /\ Todo = {"start"} \cup Members(Rest) /\ Members(Rest) = Todo \ {"start"}
          /\ Lists(Rest, Members(Rest)) /\ \A y \in Members(Rest) : Precedes("start", y)
      BY <1>1, Begun DEF IInv, Twice
    <2>2. /\ stream.state = "none" /\ ~closed /\ Todo \subseteq {"start", "first", "pump"}
          /\ stream = NoStream /\ "pump" \in Todo /\ ~queued
      BY <2>1 DEF IInv, Handle, Plan, Some
    <2>3. "first" \notin Members(Rest)  BY <2>1 DEF Precedes, Rank, Twice
    <2>4. pc.reader # "call"  BY <2>1, Known DEF IInv, Early
    <2>5. Members(Rest) = {"pump"} /\ Todo = {"start", "pump"}  BY <2>1, <2>2, <2>3
    <2> QED BY <2>1, <2>2, <2>4, <2>5
  <1>3. /\ worker' \in Seq(Steps) /\ Planned(worker)'
        /\ Todo' = IF resetWanted THEN {"count", "pump"} ELSE {"first", "pump"}
    <2>1. CASE resetWanted
      <3>1. Lists(<<"count">>, {"count"}) /\ Precedes("count", "pump")
        BY Single DEF Steps, Precedes, Rank
      <3>2. Lists(<<"count">> \o Rest, {"count"} \cup {"pump"})  BY <1>2, <3>1, JoinLists
      <3> QED BY <1>1, <2>1, <3>2 DEF Lists, Todo
    <2>2. CASE ~resetWanted
      <3>1. Lists(<<"first">>, {"first"}) /\ Precedes("first", "pump")
        BY Single DEF Steps, Precedes, Rank
      <3>2. Lists(<<"first">> \o Rest, {"first"} \cup {"pump"})  BY <1>2, <3>1, JoinLists
      <3> QED BY <1>1, <2>2, <3>2 DEF Lists, Todo
    <2> QED BY <2>1, <2>2
  <1>4. /\ stream' \in OpenStreams /\ stream.outcome = "none" /\ ~stream.reset_sent
        /\ stream'.request_ended = stream.request_ended
        /\ stream'.response_ended = stream.response_ended
        /\ stream'.reset_sent = stream.reset_sent /\ stream'.upgraded = stream.upgraded
        /\ resetWanted => stream'.state = "gone" /\ stream'.outcome = "abandoned"
        /\ ~resetWanted => stream' = stream
    <2>1. /\ stream \in OpenStreams /\ stream.outcome = "none" /\ ~stream.reset_sent
          /\ "abandoned" \in Outcomes
      BY <1>2, StreamFields DEF IInv, NoStream, Outcomes
    <2>2. CASE resetWanted
      <3> DEFINE s == Settled(stream, "abandoned")
      <3>1. /\ s \in OpenStreams /\ s.outcome = "abandoned" /\ s.request_ended = stream.request_ended
            /\ s.response_ended = stream.response_ended /\ s.reset_sent = stream.reset_sent
            /\ s.upgraded = stream.upgraded
        BY <2>1, SettledFacts
      <3>2. stream' = [s EXCEPT !.state = "gone"]  BY <1>1, <2>2
      <3> HIDE DEF s
      <3> QED BY <2>1, <2>2, <3>1, <3>2, GoneFacts
    <2>3. CASE ~resetWanted  BY <1>1, <2>1, <2>3
    <2> QED BY <2>2, <2>3
  <1>5. WorkerTypes'  BY <1>1, <1>2, <1>3, <1>4 DEF IInv, TypeOK, WorkerTypes
  <1>6. Plan'  BY <1>1, <1>2, <1>3, <1>4 DEF IInv, TypeOK, Plan, Some
  <1>7. Handle'  BY <1>1, <1>2, <1>3, <1>4 DEF IInv, TypeOK, Handle, Some
  <1>8. Early'  BY <1>1, <1>2, <1>3, <1>4 DEF IInv, TypeOK, Early, Some
  <1>9. Counts'  BY <1>1, <1>2, <1>3, <1>4 DEF IInv, TypeOK, Counts
  <1>10. Reasons'  BY <1>1, <1>2, <1>3, <1>4 DEF IInv, TypeOK, Reasons, GaveUp
  <1>11. ResponseQueue'  BY <1>1, <1>2, <1>3, <1>4 DEF IInv, TypeOK, ResponseQueue, NoHead, Some
  <1>12. Told'  BY <1>1, <1>2, <1>3, <1>4 DEF IInv, TypeOK, Told
  <1>13. Ending'  BY <1>1, <1>2, <1>3, <1>4 DEF IInv, TypeOK, Ending, EndSeen, FailureQueued
  <1>14. WriterTold'
    BY <1>1, <1>2, <1>3, <1>4 DEF IInv, TypeOK, WriterTold, ReaderStops, Ends, MayParkWriter, Full, Some
  <1>15. /\ ChannelTypes' /\ RouteTypes' /\ RubyTypes' /\ Places' /\ RequestQueue' /\ Finishing'
    BY <1>1, <1>2, <1>3, <1>4, Untouched DEF IInv, TypeOK
  <1> QED BY <1>5, <1>6, <1>7, <1>8, <1>9, <1>10, <1>11, <1>12, <1>13, <1>14, <1>15 DEF IInv, TypeOK

\* Envoy takes the stream.
LEMMA FirstOpenInv ==
  ASSUME IInv, First, envoy' = "open", worker' = Rest,
         stream' = [stream EXCEPT !.state = "open", !.request_ended = TakesEnd]
  PROVE  IInv'
  <1>1. /\ UNCHANGED <<response, resetWanted, timedOut, trailers, closed, queued, event, owed,
                       phase, reported, accepted, counted, stop, cpu, reactor,
                       resolving, pc, closing, mode, loop, got, written, result>>
        /\ At("first") /\ request' = TakeNext(request) /\ uploaded' = uploaded + Taken
    BY DEF IInv, TypeOK, First, At, channelVars, routeVars, workerVars, rubyVars
  <1>2. /\ Todo = {"first", "pump"} /\ Members(Rest) = {"pump"} /\ Lists(Rest, {"pump"})
        /\ stream = NoStream /\ stream.state = "none" /\ ~closed /\ ~queued
        /\ pc.reader # "call" /\ phase = "none" /\ envoy # "open"
    <2>1. /\ "first" \in Todo /\ Todo = {"first"} \cup Members(Rest) /\ Members(Rest) = Todo \ {"first"}
          /\ Lists(Rest, Members(Rest)) /\ \A y \in Members(Rest) : Precedes("first", y)
      BY <1>1, Begun DEF IInv, Twice
    <2>2. /\ stream.state = "none" /\ ~closed /\ Todo \subseteq {"start", "first", "pump"}
          /\ stream = NoStream /\ "pump" \in Todo /\ ~queued /\ phase = "none" /\ envoy # "open"
      BY <2>1 DEF IInv, Handle, Plan, Some
    <2>3. "start" \notin Members(Rest)  BY <2>1 DEF Precedes, Rank, Twice
    <2>4. pc.reader # "call"  BY <2>1, Known DEF IInv, Early
    <2>5. Members(Rest) = {"pump"} /\ Todo = {"first", "pump"}  BY <2>1, <2>2, <2>3
    <2> QED BY <2>1, <2>2, <2>4, <2>5
  <1>3. /\ request' \in StreamsOf({"upload"}) /\ request'.waiter = request.waiter
        /\ ~request'.paused /\ request'.cancelled = request.cancelled
        /\ request'.ended = request.ended /\ uploaded' \in Nat
        /\ request.cancelled => request'.items = << >> /\ request'.buffered_bytes = 0
        /\ ~request.cancelled =>
             /\ Ordered(request'.items, uploaded', written)
             /\ request'.buffered_bytes = written - uploaded'
        /\ \A i \in 1 .. Len(request'.items) :
             request'.items[i].kind # "chunk" => i = Len(request'.items) /\ request'.ended
        /\ TakesEnd \in BOOLEAN
        /\ TakesEnd /\ mode = "body" => uploaded' = RequestBytes
        /\ ~CanTake(request) => request' = request /\ uploaded' = uploaded
    BY <1>1, TakesRequest DEF IInv
  <1>4. /\ worker' \in Seq(Steps) /\ Planned(worker)' /\ Todo' = {"pump"}
        /\ "pump" \in Todo' /\ Todo' \cap {"start", "first", "send", "inside", "count", "stopped"} = {}
    BY <1>2 DEF Lists, Todo
  <1>5. /\ stream' \in OpenStreams /\ stream'.state = "open" /\ stream'.outcome = stream.outcome
        /\ stream'.request_ended = TakesEnd /\ stream'.response_ended = stream.response_ended
        /\ stream'.reset_sent = stream.reset_sent /\ stream'.upgraded = stream.upgraded
    BY <1>3, StreamFields DEF IInv, OpenStreams
  <1>6. /\ stream.outcome = "none" /\ ~stream.response_ended /\ ~stream.reset_sent
        /\ ~stream.upgraded
    BY <1>2 DEF NoStream
  <1>7. ChannelTypes'  BY <1>1, <1>2, <1>3, <1>4, <1>5, <1>6 DEF IInv, TypeOK, ChannelTypes
  <1>8. WorkerTypes'  BY <1>1, <1>2, <1>3, <1>4, <1>5, <1>6 DEF IInv, TypeOK, WorkerTypes
  <1>9. Plan'  BY <1>1, <1>2, <1>3, <1>4, <1>5, <1>6 DEF IInv, TypeOK, Plan, Some
  <1>10. Handle'  BY <1>1, <1>2, <1>3, <1>4, <1>5, <1>6 DEF IInv, TypeOK, Handle, Some
  <1>11. Early'  BY <1>1, <1>2, <1>3, <1>4, <1>5, <1>6 DEF IInv, TypeOK, Early, Some
  <1>12. Counts'  BY <1>1, <1>2, <1>3, <1>4, <1>5, <1>6 DEF IInv, TypeOK, Counts
  <1>13. Reasons'  BY <1>1, <1>2, <1>3, <1>4, <1>5, <1>6 DEF IInv, TypeOK, Reasons, GaveUp
  <1>14. ResponseQueue'
    BY <1>1, <1>2, <1>3, <1>4, <1>5, <1>6 DEF IInv, TypeOK, ResponseQueue, NoHead, Some
  <1>15. Told'  BY <1>1, <1>2, <1>3, <1>4, <1>5, <1>6 DEF IInv, TypeOK, Told
  <1>16. Ending'
    BY <1>1, <1>2, <1>3, <1>4, <1>5, <1>6 DEF IInv, TypeOK, Ending, EndSeen, FailureQueued
  <1>17. RequestQueue'  BY <1>1, <1>2, <1>3, <1>4, <1>5, <1>6 DEF IInv, TypeOK, RequestQueue
  <1>18. Finishing'  BY <1>1, <1>2, <1>3, <1>4, <1>5, <1>6 DEF IInv, TypeOK, Finishing, Refuses
  <1>19. WriterTold'
    BY <1>1, <1>2, <1>3, <1>4, <1>5, <1>6
    DEF IInv, TypeOK, WriterTold, ReaderStops, Ends, MayParkWriter, Full, Some
  <1>20. /\ RouteTypes' /\ RubyTypes' /\ Places'
    BY <1>1, <1>2, <1>3, <1>4, <1>5, <1>6, Untouched DEF IInv, TypeOK
  <1> QED BY <1>7, <1>8, <1>9, <1>10, <1>11, <1>12, <1>13, <1>14, <1>15, <1>16, <1>17, <1>18, <1>19,
        <1>20 DEF IInv, TypeOK

\* Envoy refuses the stream.
LEMMA FirstRefusedInv ==
  ASSUME IInv, First, UNCHANGED envoy, worker' = Fail \o WakeStream \o <<"count">> \o Rest,
         stream' = [Settled(stream, "refused") EXCEPT !.state = "gone"]
  PROVE  IInv'
  <1>1. /\ UNCHANGED <<response, resetWanted, timedOut, trailers, closed, queued, event, owed,
                       phase, reported, accepted, counted, stop, cpu, reactor,
                       resolving, pc, closing, mode, loop, got, written, result>>
        /\ At("first") /\ request' = TakeNext(request) /\ uploaded' = uploaded + Taken
    BY DEF IInv, TypeOK, First, At, channelVars, routeVars, workerVars, rubyVars
  <1>2. /\ Todo = {"first", "pump"} /\ Members(Rest) = {"pump"} /\ Lists(Rest, {"pump"})
        /\ stream = NoStream /\ stream.state = "none" /\ ~closed /\ ~queued
        /\ pc.reader # "call" /\ phase = "none" /\ envoy # "open"
    <2>1. /\ "first" \in Todo /\ Todo = {"first"} \cup Members(Rest) /\ Members(Rest) = Todo \ {"first"}
          /\ Lists(Rest, Members(Rest)) /\ \A y \in Members(Rest) : Precedes("first", y)
      BY <1>1, Begun DEF IInv, Twice
    <2>2. /\ stream.state = "none" /\ ~closed /\ Todo \subseteq {"start", "first", "pump"}
          /\ stream = NoStream /\ "pump" \in Todo /\ ~queued /\ phase = "none" /\ envoy # "open"
      BY <2>1 DEF IInv, Handle, Plan, Some
    <2>3. "start" \notin Members(Rest)  BY <2>1 DEF Precedes, Rank, Twice
    <2>4. pc.reader # "call"  BY <2>1, Known DEF IInv, Early
    <2>5. Members(Rest) = {"pump"} /\ Todo = {"first", "pump"}  BY <2>1, <2>2, <2>3
    <2> QED BY <2>1, <2>2, <2>4, <2>5
  <1>3. /\ request' \in StreamsOf({"upload"}) /\ request'.waiter = request.waiter
        /\ ~request'.paused /\ request'.cancelled = request.cancelled
        /\ request'.ended = request.ended /\ uploaded' \in Nat
        /\ request.cancelled => request'.items = << >> /\ request'.buffered_bytes = 0
        /\ ~request.cancelled =>
             /\ Ordered(request'.items, uploaded', written)
             /\ request'.buffered_bytes = written - uploaded'
        /\ \A i \in 1 .. Len(request'.items) :
             request'.items[i].kind # "chunk" => i = Len(request'.items) /\ request'.ended
        /\ TakesEnd \in BOOLEAN
        /\ TakesEnd /\ mode = "body" => uploaded' = RequestBytes
        /\ ~CanTake(request) => request' = request /\ uploaded' = uploaded
    BY <1>1, TakesRequest DEF IInv
  <1>4. /\ worker' \in Seq(Steps) /\ Planned(worker)'
        /\ Todo' = {"pushFailure", "cancelRequest", "wantReset", "oweReader", "oweWriter", "count",
                    "pump"}
    <2> DEFINE u == Fail \o WakeStream \o <<"count">>
               S == {"pushFailure", "cancelRequest", "wantReset", "oweReader", "oweWriter", "count"}
    <2>1. Lists(u, S) /\ worker' = u \o Rest  BY UnsentSteps
    <2>2. \A x \in S, y \in {"pump"} : Precedes(x, y)  BY DEF Precedes, Rank
    <2> HIDE DEF u
    <2>3. Lists(u \o Rest, S \cup {"pump"})  BY <1>2, <2>1, <2>2, JoinLists
    <2> QED BY <2>1, <2>3 DEF Lists, Todo
  <1>5. /\ stream' \in OpenStreams /\ stream'.state = "gone" /\ stream'.outcome = "refused"
        /\ stream'.request_ended = stream.request_ended
        /\ stream'.response_ended = stream.response_ended
        /\ stream'.reset_sent = stream.reset_sent /\ stream'.upgraded = stream.upgraded
    <2> DEFINE s == Settled(stream, "refused")
    <2>1. stream \in OpenStreams /\ stream.outcome = "none" /\ "refused" \in Outcomes
      BY <1>2, StreamFields DEF IInv, NoStream, Outcomes
    <2>2. /\ s \in OpenStreams /\ s.outcome = "refused" /\ s.request_ended = stream.request_ended
          /\ s.response_ended = stream.response_ended /\ s.reset_sent = stream.reset_sent
          /\ s.upgraded = stream.upgraded
      BY <2>1, SettledFacts
    <2>3. stream' = [s EXCEPT !.state = "gone"]  OBVIOUS
    <2> HIDE DEF s
    <2> QED BY <2>2, <2>3, GoneFacts, ZenonT(40)
  <1>6. /\ stream.outcome = "none" /\ ~stream.response_ended /\ ~stream.reset_sent
        /\ ~stream.upgraded /\ ~stream.request_ended
    BY <1>2 DEF NoStream
  <1>7. ChannelTypes'  BY <1>1, <1>2, <1>3, <1>4, <1>5, <1>6 DEF IInv, TypeOK, ChannelTypes
  <1>8. WorkerTypes'  BY <1>1, <1>2, <1>3, <1>4, <1>5, <1>6 DEF IInv, TypeOK, WorkerTypes
  <1>9. Plan'  BY <1>1, <1>2, <1>3, <1>4, <1>5, <1>6 DEF IInv, TypeOK, Plan, Some
  <1>10. Handle'  BY <1>1, <1>2, <1>3, <1>4, <1>5, <1>6 DEF IInv, TypeOK, Handle, Some
  <1>11. Early'  BY <1>1, <1>2, <1>3, <1>4, <1>5, <1>6 DEF IInv, TypeOK, Early, Some
  <1>12. Counts'  BY <1>1, <1>2, <1>3, <1>4, <1>5, <1>6 DEF IInv, TypeOK, Counts
  <1>13. Reasons'  BY <1>1, <1>2, <1>3, <1>4, <1>5, <1>6 DEF IInv, TypeOK, Reasons, GaveUp
  <1>14. ResponseQueue'
    BY <1>1, <1>2, <1>3, <1>4, <1>5, <1>6 DEF IInv, TypeOK, ResponseQueue, NoHead, Some
  <1>15. Told'  BY <1>1, <1>2, <1>3, <1>4, <1>5, <1>6 DEF IInv, TypeOK, Told
  <1>16. Ending'
    BY <1>1, <1>2, <1>3, <1>4, <1>5, <1>6 DEF IInv, TypeOK, Ending, EndSeen, FailureQueued
  <1>17. RequestQueue'  BY <1>1, <1>2, <1>3, <1>4, <1>5, <1>6 DEF IInv, TypeOK, RequestQueue
  <1>18. Finishing'  BY <1>1, <1>2, <1>3, <1>4, <1>5, <1>6 DEF IInv, TypeOK, Finishing, Refuses
  <1>19. WriterTold'
    BY <1>1, <1>2, <1>3, <1>4, <1>5, <1>6
    DEF IInv, TypeOK, WriterTold, ReaderStops, Ends, MayParkWriter, Full, Some
  <1>20. /\ RouteTypes' /\ RubyTypes' /\ Places'
    BY <1>1, <1>2, <1>3, <1>4, <1>5, <1>6, Untouched DEF IInv, TypeOK
  <1> QED BY <1>7, <1>8, <1>9, <1>10, <1>11, <1>12, <1>13, <1>14, <1>15, <1>16, <1>17, <1>18, <1>19,
        <1>20 DEF IInv, TypeOK

\* pump_streams chooses what to do for the stream.
LEMMA PumpInv == IInv /\ Pump => IInv'
  <1> SUFFICES ASSUME IInv, Pump  PROVE IInv'
    OBVIOUS
  <1>1. /\ UNCHANGED <<response, request, resetWanted, timedOut, trailers, closed, queued,
                       event, owed, envoy, phase, reported, accepted, uploaded, counted,
                       stop, cpu, reactor, resolving, pc, closing, mode, loop, got,
                       written, result>>
        /\ At("pump")
    BY DEF IInv, TypeOK, Pump, At, channelVars, routeVars, workerVars, rubyVars
  <1>2. /\ "pump" \in Todo /\ Rest = << >> /\ Todo = {"pump"} /\ pc.reader # "call"
    <2>1. /\ "pump" \in Todo /\ Todo = {"pump"} \cup Members(Rest) /\ Members(Rest) \subseteq Steps
          /\ Lists(Rest, Members(Rest)) /\ \A y \in Members(Rest) : Precedes("pump", y)
      BY <1>1, Begun DEF IInv
    <2>2. Members(Rest) = {}  BY <2>1 DEF Precedes, Rank, Steps, Twice
    <2>3. Rest = << >>  BY <2>1, <2>2, NoneLeft DEF Lists
    <2>4. pc.reader # "call"  BY <2>1, Known DEF IInv, Early
    <2> QED BY <2>1, <2>2, <2>3, <2>4
  <1>3. /\ worker' \in Seq(Steps) /\ Planned(worker)'
        /\ stream' \in OpenStreams /\ stream'.state = stream.state
        /\ stream'.outcome = stream.outcome /\ stream'.request_ended = stream.request_ended
        /\ stream'.response_ended = stream.response_ended /\ stream'.upgraded = stream.upgraded
        /\ stream.state # "open" => Todo' = {} /\ stream' = stream
        /\ stream.state = "open" =>
             \/ Todo' = {"inside", "pump"} /\ resetWanted
             \/ Todo' = {"owePump"} /\ stream'.reset_sent = stream.reset_sent
             \/ /\ Todo' = {"send"} /\ stream'.reset_sent = stream.reset_sent
                /\ ~stream.request_ended
    <2> DEFINE resets == resetWanted /\ ~stream.reset_sent
               r == stream.reset_sent \/ (stream.state = "open" /\ resets)
    <2>1. /\ stream' = [stream EXCEPT !.reset_sent = r]
          /\ worker' = (IF stream.state # "open" THEN << >>
                        ELSE IF resets THEN <<"inside", "pump">>
                        ELSE IF resetWanted \/ stream.request_ended THEN <<"owePump">>
                        ELSE <<"send">>) \o << >>
      BY <1>2 DEF Pump
    <2>2. /\ r \in BOOLEAN
          /\ stream.state # "open" \/ ~resets => r = stream.reset_sent
      BY StreamFields, Zenon DEF IInv
    <2> HIDE DEF r
    <2>3. /\ stream' \in OpenStreams /\ stream'.state = stream.state
          /\ stream'.outcome = stream.outcome /\ stream'.request_ended = stream.request_ended
          /\ stream'.response_ended = stream.response_ended /\ stream'.upgraded = stream.upgraded
          /\ stream'.reset_sent = r /\ (r = stream.reset_sent => stream' = stream)
      BY <2>1, <2>2, StreamFields DEF IInv, OpenStreams
    <2>4. /\ << >> \o << >> = << >> /\ <<"inside", "pump">> \o << >> = <<"inside", "pump">>
          /\ <<"owePump">> \o << >> = <<"owePump">> /\ <<"send">> \o << >> = <<"send">>
      OBVIOUS
    <2>5. /\ Lists(<< >>, {}) /\ Lists(<<"inside", "pump">>, {"inside", "pump"})
          /\ Lists(<<"owePump">>, {"owePump"}) /\ Lists(<<"send">>, {"send"})
      BY Empty, InsideSteps, Single DEF Steps
    <2>6. CASE stream.state # "open"
      <3>1. worker' = << >>  BY <2>1, <2>4, <2>6
      <3> QED BY <2>2, <2>3, <2>5, <2>6, <3>1 DEF Lists, Todo
    <2>7. CASE stream.state = "open" /\ resets
      <3>1. worker' = <<"inside", "pump">>  BY <2>1, <2>4, <2>7
      <3> QED BY <2>3, <2>5, <2>7, <3>1 DEF Lists, Todo
    <2>8. CASE stream.state = "open" /\ ~resets /\ (resetWanted \/ stream.request_ended)
      <3>1. worker' = <<"owePump">>  BY <2>1, <2>4, <2>8
      <3> QED BY <2>2, <2>3, <2>5, <2>8, <3>1 DEF Lists, Todo
    <2>9. CASE stream.state = "open" /\ ~resets /\ ~resetWanted /\ ~stream.request_ended
      <3>1. worker' = <<"send">>  BY <2>1, <2>4, <2>9
      <3> QED BY <2>2, <2>3, <2>5, <2>9, <3>1 DEF Lists, Todo
    <2> QED BY <2>6, <2>7, <2>8, <2>9
  <1>4. /\ resetWanted \/ ~stream'.reset_sent
        /\ stream'.reset_sent => stream.reset_sent \/ stream.state = "open"
    BY <1>3, StreamFields DEF IInv, Reasons
  <1>5. WorkerTypes'  BY <1>1, <1>2, <1>3, <1>4 DEF IInv, TypeOK, WorkerTypes
  <1>6. Plan'  BY <1>1, <1>2, <1>3, <1>4 DEF IInv, TypeOK, Plan, Some
  <1>7. Handle'  BY <1>1, <1>2, <1>3, <1>4 DEF IInv, TypeOK, Handle, Some
  <1>8. Early'  BY <1>1, <1>2, <1>3, <1>4 DEF IInv, TypeOK, Early, Some
  <1>9. Counts'  BY <1>1, <1>2, <1>3, <1>4 DEF IInv, TypeOK, Counts
  <1>10. Reasons'  BY <1>1, <1>2, <1>3, <1>4 DEF IInv, TypeOK, Reasons, GaveUp
  <1>11. ResponseQueue'  BY <1>1, <1>2, <1>3, <1>4 DEF IInv, TypeOK, ResponseQueue, NoHead, Some
  <1>12. Told'  BY <1>1, <1>2, <1>3, <1>4 DEF IInv, TypeOK, Told
  <1>13. Ending'  BY <1>1, <1>2, <1>3, <1>4 DEF IInv, TypeOK, Ending, EndSeen, FailureQueued
  <1>14. WriterTold'
    BY <1>1, <1>2, <1>3, <1>4 DEF IInv, TypeOK, WriterTold, ReaderStops, Ends, MayParkWriter, Full, Some
  <1>15. /\ ChannelTypes' /\ RouteTypes' /\ RubyTypes' /\ Places' /\ RequestQueue' /\ Finishing'
    BY <1>1, <1>2, <1>3, <1>4, Untouched DEF IInv, TypeOK
  <1> QED BY <1>5, <1>6, <1>7, <1>8, <1>9, <1>10, <1>11, <1>12, <1>13, <1>14, <1>15 DEF IInv, TypeOK

\* pump_streams sends what next_action took.
LEMMA SendInv == IInv /\ Send => IInv'
  <1> SUFFICES ASSUME IInv, Send  PROVE IInv'
    OBVIOUS
  <1>1. /\ UNCHANGED <<response, resetWanted, timedOut, trailers, closed, queued, event, owed,
                       envoy, phase, reported, accepted, counted, stop, cpu, reactor,
                       resolving, pc, closing, mode, loop, got, written, result>>
        /\ At("send") /\ request' = TakeNext(request) /\ uploaded' = uploaded + Taken
    BY DEF IInv, TypeOK, Send, At, channelVars, routeVars, workerVars, rubyVars
  <1>2. /\ "send" \in Todo /\ Rest = << >> /\ Todo = {"send"} /\ pc.reader # "call"
    <2>1. /\ "send" \in Todo /\ Todo = {"send"} \cup Members(Rest) /\ Members(Rest) \subseteq Steps
          /\ Lists(Rest, Members(Rest)) /\ \A y \in Members(Rest) : Precedes("send", y)
      BY <1>1, Begun DEF IInv
    <2>2. Members(Rest) = {}  BY <2>1 DEF Precedes, Rank, Steps, Twice
    <2>3. Rest = << >>  BY <2>1, <2>2, NoneLeft DEF Lists
    <2>4. pc.reader # "call"  BY <2>1, Known DEF IInv, Early
    <2> QED BY <2>1, <2>2, <2>3, <2>4
  <1>3. /\ request' \in StreamsOf({"upload"}) /\ request'.waiter = request.waiter
        /\ ~request'.paused /\ request'.cancelled = request.cancelled
        /\ request'.ended = request.ended /\ uploaded' \in Nat
        /\ request.cancelled => request'.items = << >> /\ request'.buffered_bytes = 0
        /\ ~request.cancelled =>
             /\ Ordered(request'.items, uploaded', written)
             /\ request'.buffered_bytes = written - uploaded'
        /\ \A i \in 1 .. Len(request'.items) :
             request'.items[i].kind # "chunk" => i = Len(request'.items) /\ request'.ended
        /\ TakesEnd \in BOOLEAN
        /\ TakesEnd /\ mode = "body" => uploaded' = RequestBytes
        /\ ~CanTake(request) => request' = request /\ uploaded' = uploaded
    BY <1>1, TakesRequest DEF IInv
  <1>4. /\ stream' \in OpenStreams /\ stream'.state = stream.state
        /\ stream'.outcome = stream.outcome /\ stream'.request_ended = TakesEnd
        /\ stream'.response_ended = stream.response_ended /\ stream'.upgraded = stream.upgraded
        /\ stream'.reset_sent = stream.reset_sent /\ stream.state = "open"
    <2>1. stream' = [stream EXCEPT !.request_ended = TakesEnd]  BY DEF Send
    <2>2. stream.state = "open"  BY <1>2 DEF IInv, Handle
    <2> QED BY <1>3, <2>1, <2>2, StreamFields DEF IInv, OpenStreams
  <1>5. /\ worker' \in Seq(Steps) /\ Planned(worker)'
        /\ CanTake(request) => Todo' = {"inside", "pump"}
        /\ ~CanTake(request) => Todo' = {"owePump"}
    <2>1. /\ Lists(<<"inside", "pump">>, {"inside", "pump"}) /\ Lists(<<"owePump">>, {"owePump"})
          /\ <<"inside", "pump">> \o << >> = <<"inside", "pump">>
          /\ <<"owePump">> \o << >> = <<"owePump">>
      BY InsideSteps, Single DEF Steps
    <2>2. worker' = (IF CanTake(request) THEN <<"inside", "pump">> ELSE <<"owePump">>) \o << >>
      BY <1>2 DEF Send
    <2>3. worker' = IF CanTake(request) THEN <<"inside", "pump">> ELSE <<"owePump">>
      BY <2>1, <2>2
    <2> QED BY <2>1, <2>3 DEF Lists, Todo
  <1>6. ChannelTypes'  BY <1>1, <1>2, <1>3, <1>4, <1>5 DEF IInv, TypeOK, ChannelTypes
  <1>7. WorkerTypes'  BY <1>1, <1>2, <1>3, <1>4, <1>5 DEF IInv, TypeOK, WorkerTypes
  <1>8. Plan'  BY <1>1, <1>2, <1>3, <1>4, <1>5 DEF IInv, TypeOK, Plan, Some
  <1>9. Handle'  BY <1>1, <1>2, <1>3, <1>4, <1>5 DEF IInv, TypeOK, Handle, Some
  <1>10. Early'  BY <1>1, <1>2, <1>3, <1>4, <1>5 DEF IInv, TypeOK, Early, Some
  <1>11. Counts'  BY <1>1, <1>2, <1>3, <1>4, <1>5 DEF IInv, TypeOK, Counts
  <1>12. Reasons'  BY <1>1, <1>2, <1>3, <1>4, <1>5 DEF IInv, TypeOK, Reasons, GaveUp
  <1>13. ResponseQueue'
    BY <1>1, <1>2, <1>3, <1>4, <1>5 DEF IInv, TypeOK, ResponseQueue, NoHead, Some
  <1>14. Told'  BY <1>1, <1>2, <1>3, <1>4, <1>5 DEF IInv, TypeOK, Told
  <1>15. Ending'
    BY <1>1, <1>2, <1>3, <1>4, <1>5 DEF IInv, TypeOK, Ending, EndSeen, FailureQueued
  <1>16. RequestQueue'  BY <1>1, <1>2, <1>3, <1>4, <1>5 DEF IInv, TypeOK, RequestQueue
  <1>17. Finishing'  BY <1>1, <1>2, <1>3, <1>4, <1>5 DEF IInv, TypeOK, Finishing, Refuses
  <1>18. WriterTold'
    BY <1>1, <1>2, <1>3, <1>4, <1>5 DEF IInv, TypeOK, WriterTold, ReaderStops, Ends, MayParkWriter, Full, Some
  <1>19. /\ RouteTypes' /\ RubyTypes' /\ Places'
    BY <1>1, <1>2, <1>3, <1>4, <1>5, Untouched DEF IInv, TypeOK
  <1> QED BY <1>6, <1>7, <1>8, <1>9, <1>10, <1>11, <1>12, <1>13, <1>14, <1>15, <1>16, <1>17, <1>18,
        <1>19 DEF IInv, TypeOK

-----------------------------------------------------------------------------
(* The callbacks. *)

\* A callback finds the stream open, and puts its steps before what is there.
LEMMA Calls ==
  ASSUME IInv, Reported
  PROVE  /\ envoy = "open" /\ stream.state = "open" /\ ~closed /\ ~queued /\ pc.reader # "call"
         /\ counted = << >> /\ (Todo = {} \/ Todo = {"inside", "pump"})
         /\ ~stream.response_ended => stream.outcome = "none" /\ ~response.ended
         /\ \A u, S : Lists(u, S) /\ (\A x \in S : Rank(x) \in 0 .. 8) /\ worker' = u \o worker =>
              worker' \in Seq(Steps) /\ Planned(worker)' /\ Todo' = S \cup Todo
  <1>1. envoy = "open"  BY DEF Reported
  <1>2. stream.state = "open" /\ ~closed /\ ~queued  BY <1>1 DEF IInv, Handle
  <1>3. pc.reader # "call" /\ counted = << >>  BY <1>2 DEF IInv, Early, Counts
  <1>4. Todo = {} \/ Todo = {"inside", "pump"}
    <2>1. CASE worker = << >>  BY <2>1, Known DEF IInv
    <2>2. CASE worker # << >>
      <3>1. At("inside")  BY <2>2 DEF Reported, At
      <3>2. /\ Todo = {"inside"} \cup Members(Rest) /\ Members(Rest) \subseteq Steps
            /\ Lists(Rest, Members(Rest)) /\ \A y \in Members(Rest) : Precedes("inside", y)
        BY <3>1, Begun DEF IInv
      <3>3. \A y \in Members(Rest) : y \in {"pump", "send", "owePump"}
        BY <3>2 DEF Precedes, Rank, Steps, Twice
      <3>4. "pump" \in Members(Rest)  BY <3>2 DEF IInv, Plan, Some
      <3>5. "send" \notin Members(Rest) /\ "owePump" \notin Members(Rest)
        <4>1. \A x, y \in Members(Rest) : x = y \/ Precedes(x, y) \/ Precedes(y, x)
          <5> SUFFICES ASSUME NEW i \in 1 .. Len(Rest), NEW j \in 1 .. Len(Rest)
                       PROVE  Rest[i] = Rest[j] \/ Precedes(Rest[i], Rest[j])
                                \/ Precedes(Rest[j], Rest[i])
            BY DEF Members
          <5>1. CASE i < j  BY <5>1, <3>2 DEF Lists, Planned
          <5>2. CASE j < i  BY <5>2, <3>2 DEF Lists, Planned
          <5>3. CASE i = j  BY <5>3
          <5> QED BY <5>1, <5>2, <5>3
        <4> QED BY <4>1, <3>4 DEF Precedes, Rank, Twice
      <3> QED BY <3>2, <3>3, <3>4, <3>5
    <2> QED BY <2>1, <2>2
  <1>5. ~stream.response_ended => stream.outcome = "none" /\ ~response.ended
    BY <1>2 DEF IInv, Counts, ResponseQueue
  <1>6. ASSUME NEW u, NEW S, Lists(u, S), \A x \in S : Rank(x) \in 0 .. 8, worker' = u \o worker
        PROVE  worker' \in Seq(Steps) /\ Planned(worker)' /\ Todo' = S \cup Todo
    <2>1. Lists(worker, Todo)  BY DEF Lists, IInv, TypeOK, WorkerTypes, Plan, Todo
    <2>2. \A x \in S, y \in Todo : Precedes(x, y)
      <3>1. Rank("inside") = 9 /\ Rank("pump") = 10  BY DEF Rank
      <3> QED BY <1>4, <1>6, <3>1 DEF Precedes
    <2>3. Lists(u \o worker, S \cup Todo)  BY <1>6, <2>1, <2>2, JoinLists
    <2> QED BY <1>6, <2>3 DEF Lists, Todo
  <1> QED BY <1>1, <1>2, <1>3, <1>4, <1>5, <1>6

\* on_headers.
LEMMA HeadersArrivedInv == IInv /\ HeadersArrived => IInv'
  <1> SUFFICES ASSUME IInv, HeadersArrived  PROVE IInv'
    OBVIOUS
  <1>1. /\ UNCHANGED <<response, request, resetWanted, timedOut, trailers, closed, queued,
                       event, owed, envoy, reported, accepted, uploaded, counted, stop,
                       cpu, reactor, resolving, pc, closing, mode, loop, got, written,
                       result>>
        /\ Reported /\ phase = "none"
    BY DEF IInv, TypeOK, HeadersArrived, channelVars, routeVars, workerVars, rubyVars
  <1>2. /\ envoy = "open" /\ stream.state = "open" /\ ~closed /\ ~queued /\ pc.reader # "call"
        /\ counted = << >> /\ (Todo = {} \/ Todo = {"inside", "pump"})
        /\ ~stream.response_ended => stream.outcome = "none" /\ ~response.ended
        /\ stream \in OpenStreams /\ stream.response_ended \in BOOLEAN
    BY <1>1, Calls, StreamFields DEF IInv
  <1>3. /\ worker' \in Seq(Steps) /\ Planned(worker)' /\ phase' \in {"body", "ended"}
        /\ stream' \in OpenStreams /\ stream'.state = "open"
        /\ stream'.request_ended = stream.request_ended /\ stream'.reset_sent = stream.reset_sent
        /\ \/ /\ stream.response_ended /\ stream' = stream
              /\ Todo' = {"oweReader", "oweWriter"} \cup Todo
           \/ /\ ~stream.response_ended /\ stream'.response_ended /\ stream'.outcome = "reset"
              /\ Todo' = {"pushFailure", "cancelRequest", "wantReset", "oweReader", "oweWriter"}
                         \cup Todo
           \/ /\ ~stream.response_ended /\ ~stream'.response_ended /\ phase' = "body"
              /\ stream'.outcome = stream.outcome
              /\ Todo' = {"pushHead", "oweReader", "oweWriter"} \cup Todo
           \/ /\ ~stream.response_ended /\ stream'.response_ended /\ phase' = "ended"
              /\ stream'.outcome = "completed"
              /\ Todo' = {"pushHead", "pushEnd", "oweReader", "oweWriter"} \cup Todo
    <2>1. PICK valid \in BOOLEAN, upgrade \in BOOLEAN, end \in BOOLEAN :
            /\ phase' = IF end THEN "ended" ELSE "body"
            /\ IF stream.response_ended
               THEN /\ worker' = WakeStream \o worker
                    /\ stream' = stream
               ELSE IF ~valid
               THEN /\ worker' = Fail \o WakeStream \o worker
                    /\ stream' = Over(stream, "reset")
               ELSE /\ worker' = <<"pushHead">> \o When(end, <<"pushEnd">>) \o WakeStream \o worker
                    /\ LET head == [stream EXCEPT !.upgraded = upgrade]
                       IN  stream' = IF end THEN Over(head, "completed") ELSE head
      BY DEF HeadersArrived
    <2> DEFINE head == [stream EXCEPT !.upgraded = upgrade]
    <2>2. /\ \A x \in {"pushHead", "pushEnd", "pushFailure", "cancelRequest", "wantReset",
                        "oweReader", "oweWriter"} : Rank(x) \in 0 .. 8
          /\ head \in OpenStreams /\ head.state = stream.state
          /\ head.request_ended = stream.request_ended
          /\ head.reset_sent = stream.reset_sent /\ head.outcome = stream.outcome
          /\ head.response_ended = stream.response_ended
      BY <1>2 DEF Rank, OpenStreams
    <2>3. CASE stream.response_ended
      <3>1. worker' = WakeStream \o worker /\ stream' = stream  BY <2>1, <2>3
      <3> QED BY <1>1, <1>2, <2>1, <2>2, <2>3, <3>1, WakeStreamList, Calls
    <2>4. CASE ~stream.response_ended /\ ~valid
      <3>1. worker' = Fail \o WakeStream \o worker /\ stream' = Over(stream, "reset")
        BY <2>1, <2>4
      <3>2. /\ worker' \in Seq(Steps) /\ Planned(worker)'
            /\ Todo' = {"pushFailure", "cancelRequest", "wantReset", "oweReader", "oweWriter"}
                       \cup Todo
        BY <1>1, <2>2, <3>1, FailSteps, Calls
      <3>3. "reset" \in Outcomes  BY DEF Outcomes
      <3> QED BY <1>2, <2>1, <2>2, <2>4, <3>1, <3>2, <3>3, OverFacts
    <2>5. CASE ~stream.response_ended /\ valid /\ end
      <3>1. /\ worker' = <<"pushHead">> \o <<"pushEnd">> \o WakeStream \o worker
            /\ stream' = Over(head, "completed") /\ phase' = "ended"
        BY <2>1, <2>5 DEF When
      <3>2. /\ worker' \in Seq(Steps) /\ Planned(worker)'
            /\ Todo' = {"pushHead", "pushEnd", "oweReader", "oweWriter"} \cup Todo
        BY <1>1, <2>2, <3>1, HeadEndSteps, Calls
      <3>3. "completed" \in Outcomes  BY DEF Outcomes
      <3> HIDE DEF head
      <3> QED BY <1>2, <2>2, <2>5, <3>1, <3>2, <3>3, OverFacts
    <2>6. CASE ~stream.response_ended /\ valid /\ ~end
      <3>1. /\ worker' = <<"pushHead">> \o << >> \o WakeStream \o worker
            /\ stream' = head /\ phase' = "body"
        BY <2>1, <2>6 DEF When
      <3>2. <<"pushHead">> \o << >> = <<"pushHead">>  OBVIOUS
      <3>3. /\ worker' \in Seq(Steps) /\ Planned(worker)'
            /\ Todo' = {"pushHead", "oweReader", "oweWriter"} \cup Todo
        BY <1>1, <2>2, <3>1, <3>2, HeadSteps, Calls
      <3> HIDE DEF head
      <3> QED BY <1>2, <2>2, <2>6, <3>1, <3>3
    <2> QED BY <2>3, <2>4, <2>5, <2>6
  <1>4. WorkerTypes'  BY <1>1, <1>2, <1>3 DEF IInv, TypeOK, WorkerTypes
  <1>5. Plan'  BY <1>1, <1>2, <1>3 DEF IInv, TypeOK, Plan, Some
  <1>6. Handle'  BY <1>1, <1>2, <1>3 DEF IInv, TypeOK, Handle, Some
  <1>7. Early'  BY <1>1, <1>2, <1>3 DEF IInv, TypeOK, Early, Some
  <1>8. Places'  BY <1>1, <1>2, <1>3 DEF IInv, TypeOK, Places
  <1>9. Counts'  BY <1>1, <1>2, <1>3 DEF IInv, TypeOK, Counts
  <1>10. Reasons'  BY <1>1, <1>2, <1>3 DEF IInv, TypeOK, Reasons, GaveUp
  <1>11. ResponseQueue'  BY <1>1, <1>2, <1>3 DEF IInv, TypeOK, ResponseQueue, NoHead, Some
  <1>12. Told'  BY <1>1, <1>2, <1>3 DEF IInv, TypeOK, Told
  <1>13. Ending'  BY <1>1, <1>2, <1>3 DEF IInv, TypeOK, Ending, EndSeen, FailureQueued
  <1>14. RequestQueue'  BY <1>1, <1>2, <1>3 DEF IInv, TypeOK, RequestQueue
  <1>15. WriterTold'
    BY <1>1, <1>2, <1>3 DEF IInv, TypeOK, WriterTold, ReaderStops, Ends, MayParkWriter, Full, Some
  <1>16. /\ ChannelTypes' /\ RouteTypes' /\ RubyTypes' /\ Finishing'
    BY <1>1, <1>2, <1>3, Untouched DEF IInv, TypeOK
  <1> QED BY <1>4, <1>5, <1>6, <1>7, <1>8, <1>9, <1>10, <1>11, <1>12, <1>13, <1>14, <1>15, <1>16
    DEF IInv, TypeOK

\* on_trailers.
LEMMA TrailersArrivedInv == IInv /\ TrailersArrived => IInv'
  <1> SUFFICES ASSUME IInv, TrailersArrived  PROVE IInv'
    OBVIOUS
  <1>1. /\ UNCHANGED <<response, request, resetWanted, timedOut, trailers, closed, queued,
                       event, owed, envoy, reported, accepted, uploaded, counted, stop,
                       cpu, reactor, resolving, pc, closing, mode, loop, got, written,
                       result>>
        /\ Reported /\ phase = "body" /\ phase' = "trailers"
    BY DEF IInv, TypeOK, TrailersArrived, channelVars, routeVars, workerVars, rubyVars
  <1>2. /\ envoy = "open" /\ stream.state = "open" /\ ~closed /\ ~queued /\ pc.reader # "call"
        /\ counted = << >> /\ (Todo = {} \/ Todo = {"inside", "pump"})
        /\ ~stream.response_ended => stream.outcome = "none" /\ ~response.ended
        /\ stream \in OpenStreams /\ stream.response_ended \in BOOLEAN
    BY <1>1, Calls, StreamFields DEF IInv
  <1>3. /\ worker' \in Seq(Steps) /\ Planned(worker)'
        /\ stream' \in OpenStreams /\ stream'.state = "open" /\ stream'.response_ended
        /\ stream'.request_ended = stream.request_ended /\ stream'.reset_sent = stream.reset_sent
        /\ stream'.upgraded = stream.upgraded
        /\ \/ /\ stream.response_ended /\ stream' = stream
              /\ Todo' = {"oweReader", "oweWriter"} \cup Todo
           \/ /\ ~stream.response_ended /\ stream'.outcome = "completed"
              /\ Todo' = {"setTrailers", "pushEnd", "oweReader", "oweWriter"} \cup Todo
    <2>1. /\ worker' = When(~stream.response_ended, TrailersSteps) \o WakeStream \o worker
          /\ stream' = IF stream.response_ended THEN stream ELSE Over(stream, "completed")
      BY DEF TrailersArrived
    <2>2. \A x \in {"setTrailers", "pushEnd", "oweReader", "oweWriter"} : Rank(x) \in 0 .. 8
      BY DEF Rank
    <2>3. CASE stream.response_ended
      <3>1. worker' = << >> \o WakeStream \o worker /\ stream' = stream  BY <2>1, <2>3 DEF When
      <3>2. << >> \o WakeStream = WakeStream  BY DEF WakeStream
      <3> QED BY <1>1, <1>2, <2>2, <2>3, <3>1, <3>2, WakeStreamList, Calls
    <2>4. CASE ~stream.response_ended
      <3>1. worker' = TrailersSteps \o WakeStream \o worker /\ stream' = Over(stream, "completed")
        BY <2>1, <2>4 DEF When
      <3>2. TrailersSteps = <<"setTrailers">> \o <<"pushEnd">>  BY DEF TrailersSteps
      <3>3. /\ worker' \in Seq(Steps) /\ Planned(worker)'
            /\ Todo' = {"setTrailers", "pushEnd", "oweReader", "oweWriter"} \cup Todo
        BY <1>1, <2>2, <3>1, <3>2, TrailersList, Calls
      <3>4. "completed" \in Outcomes  BY DEF Outcomes
      <3> QED BY <1>2, <2>4, <3>1, <3>3, <3>4, OverFacts
    <2> QED BY <2>3, <2>4
  <1>4. WorkerTypes'  BY <1>1, <1>2, <1>3 DEF IInv, TypeOK, WorkerTypes
  <1>5. Plan'  BY <1>1, <1>2, <1>3 DEF IInv, TypeOK, Plan, Some
  <1>6. Handle'  BY <1>1, <1>2, <1>3 DEF IInv, TypeOK, Handle, Some
  <1>7. Early'  BY <1>1, <1>2, <1>3 DEF IInv, TypeOK, Early, Some
  <1>8. Places'  BY <1>1, <1>2, <1>3 DEF IInv, TypeOK, Places
  <1>9. Counts'  BY <1>1, <1>2, <1>3 DEF IInv, TypeOK, Counts
  <1>10. Reasons'  BY <1>1, <1>2, <1>3 DEF IInv, TypeOK, Reasons, GaveUp
  <1>11. ResponseQueue'  BY <1>1, <1>2, <1>3 DEF IInv, TypeOK, ResponseQueue, NoHead, Some
  <1>12. Told'  BY <1>1, <1>2, <1>3 DEF IInv, TypeOK, Told
  <1>13. Ending'  BY <1>1, <1>2, <1>3 DEF IInv, TypeOK, Ending, EndSeen, FailureQueued
  <1>14. RequestQueue'  BY <1>1, <1>2, <1>3 DEF IInv, TypeOK, RequestQueue
  <1>15. WriterTold'
    BY <1>1, <1>2, <1>3 DEF IInv, TypeOK, WriterTold, ReaderStops, Ends, MayParkWriter, Full, Some
  <1>16. /\ ChannelTypes' /\ RouteTypes' /\ RubyTypes' /\ Finishing'
    BY <1>1, <1>2, <1>3, Untouched DEF IInv, TypeOK
  <1> QED BY <1>4, <1>5, <1>6, <1>7, <1>8, <1>9, <1>10, <1>11, <1>12, <1>13, <1>14, <1>15, <1>16
    DEF IInv, TypeOK

\* on_data.
LEMMA DataArrivedInv == IInv /\ DataArrived => IInv'
  <1> SUFFICES ASSUME IInv, DataArrived  PROVE IInv'
    OBVIOUS
  <1>1. /\ UNCHANGED <<request, resetWanted, timedOut, trailers, closed, queued, event, owed,
                       envoy, uploaded, counted, stop, cpu, reactor, resolving, pc,
                       closing, mode, loop, got, written, result>>
        /\ Reported /\ phase = "body"
    BY DEF IInv, TypeOK, DataArrived, channelVars, routeVars, workerVars, rubyVars
  <1>2. /\ envoy = "open" /\ stream.state = "open" /\ ~closed /\ ~queued /\ pc.reader # "call"
        /\ counted = << >> /\ (Todo = {} \/ Todo = {"inside", "pump"})
        /\ ~stream.response_ended => stream.outcome = "none" /\ ~response.ended
        /\ stream \in OpenStreams /\ stream.response_ended \in BOOLEAN
    BY <1>1, Calls, StreamFields DEF IInv
  <1>3. /\ worker' \in Seq(Steps) /\ Planned(worker)' /\ phase' \in {"body", "ended"}
        /\ stream' \in OpenStreams /\ stream'.state = "open" /\ reported' \in Nat
        /\ stream'.request_ended = stream.request_ended /\ stream'.reset_sent = stream.reset_sent
        /\ stream'.upgraded = stream.upgraded
        /\ (response' = response /\ accepted' = accepted)
           \/ (/\ ~Refuses(response) /\ accepted' \in Nat
               /\ \E n \in Nat : /\ accepted' = accepted + n
                                  /\ response' = Push(response, Item("chunk", accepted, accepted + n)))
        /\ \/ /\ stream.response_ended /\ stream' = stream /\ response' = response
              /\ accepted' = accepted
              /\ Todo' = {"oweReader", "oweWriter"} \cup Todo
           \/ /\ ~stream.response_ended /\ stream'.response_ended /\ stream'.outcome = "none"
              /\ response' = response /\ accepted' = accepted /\ response.cancelled
              /\ Todo' = {"stopped", "oweReader", "oweWriter"} \cup Todo
           \/ /\ ~stream.response_ended /\ stream'.response_ended /\ stream'.outcome = "overflow"
              /\ response' = response /\ accepted' = accepted
              /\ Todo' = {"pushFailure", "cancelRequest", "wantReset", "oweReader", "oweWriter",
                          "wakeSelf"} \cup Todo
           \/ /\ ~stream.response_ended /\ ~stream'.response_ended /\ phase' = "body"
              /\ stream'.outcome = stream.outcome
              /\ Todo' = {"oweReader", "oweWriter"} \cup Todo
           \/ /\ ~stream.response_ended /\ stream'.response_ended /\ phase' = "ended"
              /\ stream'.outcome = "completed"
              /\ Todo' = {"pushEnd", "oweReader", "oweWriter"} \cup Todo
    <2>1. PICK n \in 0 .. ResponseBytes - reported, end \in BOOLEAN :
            /\ n > 0 \/ end
            /\ phase' = IF end THEN "ended" ELSE "body"
            /\ reported' = reported + n
            /\ IF stream.response_ended
               THEN /\ worker' = WakeStream \o worker
                    /\ UNCHANGED <<stream, response, accepted>>
               ELSE IF n > 0 /\ Refuses(response)
               THEN /\ worker' = <<"stopped">> \o WakeStream \o worker
                    /\ stream' = [stream EXCEPT !.response_ended = TRUE]
                    /\ UNCHANGED <<response, accepted>>
               ELSE IF ~Fits(n)
               THEN /\ worker' = Fail \o WakeStream \o <<"wakeSelf">> \o worker
                    /\ stream' = Over(stream, "overflow")
                    /\ UNCHANGED <<response, accepted>>
               ELSE /\ worker' = When(end, <<"pushEnd">>) \o WakeStream \o worker
                    /\ stream' = IF end THEN Over(stream, "completed") ELSE stream
                    /\ response' = IF n > 0 THEN Push(response, Item("chunk", accepted, accepted + n))
                                            ELSE response
                    /\ accepted' = accepted + n
      BY DEF DataArrived
    <2>2. /\ \A x \in {"stopped", "pushEnd", "pushFailure", "cancelRequest", "wantReset",
                        "oweReader", "oweWriter", "wakeSelf"} : Rank(x) \in 0 .. 8
          /\ "overflow" \in Outcomes /\ "completed" \in Outcomes
      BY DEF Rank, Outcomes
    <2>3. n \in Nat /\ reported \in Nat /\ accepted \in Nat /\ reported' \in Nat
      BY <2>1, BytesAssumption DEF IInv, TypeOK, WorkerTypes
    <2>4. CASE stream.response_ended
      <3>1. worker' = WakeStream \o worker /\ UNCHANGED <<stream, response, accepted>>
        BY <2>1, <2>4
      <3> QED BY <1>1, <1>2, <2>1, <2>2, <2>3, <2>4, <3>1, WakeStreamList, Calls
    <2>5. CASE ~stream.response_ended /\ n > 0 /\ Refuses(response)
      <3> DEFINE yes == TRUE
      <3>1. /\ worker' = <<"stopped">> \o WakeStream \o worker
            /\ stream' = [stream EXCEPT !.response_ended = yes]
            /\ UNCHANGED <<response, accepted>> /\ yes \in BOOLEAN /\ yes
        BY <2>1, <2>5
      <3> HIDE DEF yes
      <3>2. /\ worker' \in Seq(Steps) /\ Planned(worker)'
            /\ Todo' = {"stopped", "oweReader", "oweWriter"} \cup Todo
        BY <1>1, <2>2, <3>1, StoppedSteps, Calls
      <3>3. /\ stream' \in OpenStreams /\ stream'.state = stream.state
            /\ stream'.request_ended = stream.request_ended
            /\ stream'.reset_sent = stream.reset_sent /\ stream'.outcome = stream.outcome
            /\ stream'.response_ended = yes /\ stream'.upgraded = stream.upgraded
        BY <1>2, <3>1 DEF OpenStreams
      <3>4. response.cancelled  BY <1>2, <2>5 DEF Refuses
      <3> QED BY <1>2, <2>1, <2>3, <2>5, <3>1, <3>2, <3>3, <3>4
    <2>6. CASE ~stream.response_ended /\ ~(n > 0 /\ Refuses(response)) /\ ~Fits(n)
      <3>1. /\ worker' = Fail \o WakeStream \o <<"wakeSelf">> \o worker
            /\ stream' = Over(stream, "overflow") /\ UNCHANGED <<response, accepted>>
        BY <2>1, <2>6
      <3>2. /\ worker' \in Seq(Steps) /\ Planned(worker)'
            /\ Todo' = {"pushFailure", "cancelRequest", "wantReset", "oweReader", "oweWriter",
                        "wakeSelf"} \cup Todo
        BY <1>1, <2>2, <3>1, OverflowSteps, Calls
      <3> QED BY <1>2, <2>1, <2>2, <2>3, <2>6, <3>1, <3>2, OverFacts
    <2>7. CASE ~stream.response_ended /\ ~(n > 0 /\ Refuses(response)) /\ Fits(n)
      <3>1. /\ worker' = When(end, <<"pushEnd">>) \o WakeStream \o worker
            /\ stream' = IF end THEN Over(stream, "completed") ELSE stream
            /\ response' = IF n > 0 THEN Push(response, Item("chunk", accepted, accepted + n))
                                    ELSE response
            /\ accepted' = accepted + n
        BY <2>1, <2>7
      <3>2. \/ response' = response /\ accepted' = accepted
            \/ /\ ~Refuses(response) /\ accepted' \in Nat /\ accepted' = accepted + n
               /\ response' = Push(response, Item("chunk", accepted, accepted + n))
        BY <2>3, <2>7, <3>1
      <3>3. CASE end
        <4>1. /\ worker' = <<"pushEnd">> \o WakeStream \o worker /\ phase' = "ended"
              /\ stream' = Over(stream, "completed")
          BY <2>1, <3>1, <3>3 DEF When
        <4>2. /\ worker' \in Seq(Steps) /\ Planned(worker)'
              /\ Todo' = {"pushEnd", "oweReader", "oweWriter"} \cup Todo
          BY <1>1, <2>2, <4>1, EndSteps, Calls
        <4>3. /\ stream' \in OpenStreams /\ stream'.state = "open" /\ stream'.response_ended
              /\ stream'.request_ended = stream.request_ended /\ stream'.outcome = "completed"
              /\ stream'.reset_sent = stream.reset_sent /\ stream'.upgraded = stream.upgraded
          BY <1>2, <2>2, <2>7, <4>1, OverFacts
        <4> QED BY <2>3, <2>7, <3>2, <4>1, <4>2, <4>3
      <3>4. CASE ~end
        <4>1. worker' = << >> \o WakeStream \o worker /\ phase' = "body" /\ stream' = stream
          BY <2>1, <3>1, <3>4 DEF When
        <4>2. << >> \o WakeStream = WakeStream  BY DEF WakeStream
        <4>3. /\ worker' \in Seq(Steps) /\ Planned(worker)'
              /\ Todo' = {"oweReader", "oweWriter"} \cup Todo
          BY <1>1, <2>2, <4>1, <4>2, WakeStreamList, Calls
        <4> QED BY <1>2, <2>3, <2>7, <3>2, <4>1, <4>3
      <3> QED BY <3>3, <3>4
    <2> QED BY <2>4, <2>5, <2>6, <2>7
  <1>4. /\ response' \in StreamsOf({"reader"}) /\ response'.waiter = response.waiter
        /\ ~response'.paused /\ response'.cancelled = response.cancelled
        /\ response'.ended = response.ended /\ accepted' \in Nat
        /\ \/ response' = response /\ accepted' = accepted
           \/ /\ ~response'.cancelled /\ ~response'.ended
              /\ Ordered(response'.items, got, accepted')
              /\ response'.buffered_bytes = accepted' - got
              /\ response'.items # << >>
              /\ response.items # << >> => response'.items[1] = response.items[1]
              /\ \A i \in 1 .. Len(response'.items) :
                   response'.items[i].kind \notin {"end", "failed"}
              /\ \A i \in 1 .. Len(response'.items) : response'.items[i].kind = "head" =>
                   i \in 1 .. Len(response.items) /\ response.items[i].kind = "head"
    <2>1. CASE response' = response /\ accepted' = accepted
      BY <2>1, Fields DEF IInv, TypeOK, WorkerTypes, ResponseQueue
    <2>2. CASE ~(response' = response /\ accepted' = accepted)
      <3>1. PICK n \in Nat : /\ accepted' = accepted + n
                             /\ response' = Push(response, Item("chunk", accepted, accepted + n))
        BY <1>3, <2>2
      <3>2. ~Refuses(response) /\ ~response.cancelled /\ ~response.ended
        BY <1>3, <2>2 DEF Refuses
      <3>3. /\ response' \in StreamsOf({"reader"}) /\ response'.waiter = response.waiter
            /\ ~response'.paused /\ ~response'.cancelled /\ ~response'.ended /\ accepted' \in Nat
            /\ Ordered(response'.items, got, accepted')
            /\ response'.buffered_bytes = accepted' - got
            /\ response'.items # << >>
            /\ response.items # << >> => response'.items[1] = response.items[1]
            /\ \A i \in 1 .. Len(response'.items) :
                 response'.items[i].kind \notin {"end", "failed"}
            /\ \A i \in 1 .. Len(response'.items) : response'.items[i].kind = "head" =>
                 i \in 1 .. Len(response.items) /\ response.items[i].kind = "head"
        BY <3>1, <3>2, PieceArrives DEF IInv
      <3>4. /\ response'.cancelled \in BOOLEAN /\ response.cancelled \in BOOLEAN
            /\ response'.ended \in BOOLEAN /\ response.ended \in BOOLEAN
        BY <3>3, Fields DEF IInv, StreamsOf
      <3> QED BY <3>2, <3>3, <3>4
    <2> QED BY <2>1, <2>2
  <1>5. ChannelTypes'  BY <1>1, <1>2, <1>3, <1>4 DEF IInv, TypeOK, ChannelTypes
  <1>6. WorkerTypes'  BY <1>1, <1>2, <1>3, <1>4 DEF IInv, TypeOK, WorkerTypes
  <1>7. Plan'  BY <1>1, <1>2, <1>3, <1>4 DEF IInv, TypeOK, Plan, Some
  <1>8. Handle'  BY <1>1, <1>2, <1>3, <1>4 DEF IInv, TypeOK, Handle, Some
  <1>9. Early'  BY <1>1, <1>2, <1>3, <1>4 DEF IInv, TypeOK, Early, Some
  <1>10. Places'  BY <1>1, <1>2, <1>3, <1>4 DEF IInv, TypeOK, Places
  <1>11. Counts'  BY <1>1, <1>2, <1>3, <1>4 DEF IInv, TypeOK, Counts
  <1>12. Reasons'  BY <1>1, <1>2, <1>3, <1>4 DEF IInv, TypeOK, Reasons, GaveUp
  <1>13. ResponseQueue'
    <2>1. CASE response' = response /\ accepted' = accepted
      BY <1>1, <1>2, <1>3, <2>1 DEF IInv, ResponseQueue, NoHead, Some
    <2>2. CASE ~(response' = response /\ accepted' = accepted)
      <3>1. ~stream.response_ended /\ ~Refuses(response) /\ ~response.cancelled
        BY <1>3, <2>2 DEF Refuses
      <3>2. loop = "pull" \/ response.items # << >>
        BY <1>1, <1>2, <3>1 DEF IInv, ResponseQueue
      <3>3. NoHead => NoHead'  BY <1>4, <2>2 DEF NoHead
      <3>4. "pushHead" \notin Todo' /\ "pushFailure" \notin Todo'  BY <1>2, <1>3, <2>2
      <3> QED BY <1>1, <1>2, <1>3, <1>4, <2>2, <3>1, <3>2, <3>3, <3>4 DEF IInv, ResponseQueue, Some
    <2> QED BY <2>1, <2>2
  <1>14. Told'  BY <1>1, <1>2, <1>3, <1>4 DEF IInv, TypeOK, Told
  <1>15. Ending'  BY <1>1, <1>2, <1>3, <1>4 DEF IInv, TypeOK, Ending, EndSeen, FailureQueued
  <1>16. RequestQueue'  BY <1>1, <1>2, <1>3, <1>4 DEF IInv, TypeOK, RequestQueue
  <1>17. WriterTold'
    BY <1>1, <1>2, <1>3, <1>4 DEF IInv, TypeOK, WriterTold, ReaderStops, Ends, MayParkWriter, Full, Some
  <1>18. /\ RouteTypes' /\ RubyTypes' /\ Finishing'
    BY <1>1, <1>2, <1>3, <1>4, Untouched DEF IInv, TypeOK
  <1> QED BY <1>5, <1>6, <1>7, <1>8, <1>9, <1>10, <1>11, <1>12, <1>13, <1>14, <1>15, <1>16, <1>17,
        <1>18 DEF IInv, TypeOK

\* on_complete, and the reset of an upgraded stream that counts as one.
LEMMA CompleteInv ==
  ASSUME IInv, Reported, Complete, envoy' = "over",
         UNCHANGED <<channelVars, routeVars, phase, reported, accepted, uploaded, counted, stop,
                     rubyVars>>
  PROVE  IInv'
  <1>1. /\ UNCHANGED <<response, request, resetWanted, timedOut, trailers, closed, queued,
                       event, owed, phase, reported, accepted, uploaded, counted, stop,
                       cpu, reactor, resolving, pc, closing, mode, loop, got, written,
                       result>>
        /\ Reported /\ envoy' = "over"
    BY DEF IInv, TypeOK, Complete, channelVars, routeVars, workerVars, rubyVars
  <1>2. /\ envoy = "open" /\ stream.state = "open" /\ ~closed /\ ~queued /\ pc.reader # "call"
        /\ counted = << >> /\ (Todo = {} \/ Todo = {"inside", "pump"})
        /\ ~stream.response_ended => stream.outcome = "none" /\ ~response.ended
        /\ stream \in OpenStreams /\ stream.response_ended \in BOOLEAN
    BY <1>1, Calls, StreamFields DEF IInv
  <1>3. stream.response_ended => stream.outcome # "none"
    BY <1>2 DEF IInv, Counts
  <1>4. /\ worker' \in Seq(Steps) /\ Planned(worker)'
        /\ stream' \in OpenStreams /\ stream'.state = "gone" /\ stream'.response_ended
        /\ stream'.request_ended = stream.request_ended /\ stream'.reset_sent = stream.reset_sent
        /\ stream'.upgraded = stream.upgraded
        /\ \/ /\ stream.response_ended /\ stream'.outcome = stream.outcome
              /\ Todo' = {"cancelRequest", "oweReader", "oweWriter", "count"} \cup Todo
           \/ /\ ~stream.response_ended /\ stream'.outcome = "completed"
              /\ Todo' = {"pushEnd", "cancelRequest", "oweReader", "oweWriter", "count"} \cup Todo
    <2>1. /\ stream' = [ (IF stream.response_ended THEN stream ELSE Over(stream, "completed"))
                         EXCEPT !.state = "gone" ]
          /\ worker' = When(~stream.response_ended, <<"pushEnd">>) \o Gone \o worker
      BY DEF Complete
    <2>2. /\ \A x \in {"pushEnd", "pushFailure", "cancelRequest", "wantReset", "oweReader",
                        "oweWriter", "count"} : Rank(x) \in 0 .. 8
          /\ << >> \o Gone = Gone
      <3>1. Gone \in Seq(Steps)  BY GoneList DEF Lists
      <3> QED BY <3>1 DEF Rank
    <2>3. CASE stream.response_ended
      <3>1. worker' = << >> \o Gone \o worker /\ stream' = [stream EXCEPT !.state = "gone"]
        BY <2>1, <2>3 DEF When
      <3>2. /\ worker' \in Seq(Steps) /\ Planned(worker)'
            /\ Todo' = {"cancelRequest", "oweReader", "oweWriter", "count"} \cup Todo
        BY <1>1, <2>2, <3>1, GoneList, Calls
      <3> QED BY <1>2, <2>3, <3>1, <3>2, GoneFacts
    <2>4. CASE ~stream.response_ended
      <3> DEFINE s == Over(stream, "completed")
      <3>1. worker' = <<"pushEnd">> \o Gone \o worker /\ stream' = [s EXCEPT !.state = "gone"]
        BY <2>1, <2>4 DEF When
      <3>2. /\ worker' \in Seq(Steps) /\ Planned(worker)'
            /\ Todo' = {"pushEnd", "cancelRequest", "oweReader", "oweWriter", "count"} \cup Todo
        BY <1>1, <2>2, <3>1, EndGone, Calls
      <3>3. "completed" \in Outcomes  BY DEF Outcomes
      <3>4. /\ s \in OpenStreams /\ s.response_ended /\ s.outcome = "completed"
            /\ s.request_ended = stream.request_ended /\ s.reset_sent = stream.reset_sent
            /\ s.upgraded = stream.upgraded
        BY <1>2, <2>4, <3>3, OverFacts
      <3> HIDE DEF s
      <3> QED BY <2>4, <3>1, <3>2, <3>4, GoneFacts
    <2> QED BY <2>3, <2>4
  <1>5. WorkerTypes'  BY <1>1, <1>2, <1>3, <1>4 DEF IInv, TypeOK, WorkerTypes
  <1>6. Plan'  BY <1>1, <1>2, <1>3, <1>4 DEF IInv, TypeOK, Plan, Some
  <1>7. Handle'  BY <1>1, <1>2, <1>3, <1>4 DEF IInv, TypeOK, Handle, Some
  <1>8. Early'  BY <1>1, <1>2, <1>3, <1>4 DEF IInv, TypeOK, Early, Some
  <1>9. Places'  BY <1>1, <1>2, <1>3, <1>4 DEF IInv, TypeOK, Places
  <1>10. Counts'  BY <1>1, <1>2, <1>3, <1>4 DEF IInv, TypeOK, Counts
  <1>11. Reasons'  BY <1>1, <1>2, <1>3, <1>4 DEF IInv, TypeOK, Reasons, GaveUp
  <1>12. ResponseQueue'  BY <1>1, <1>2, <1>3, <1>4 DEF IInv, TypeOK, ResponseQueue, NoHead, Some
  <1>13. Told'  BY <1>1, <1>2, <1>3, <1>4 DEF IInv, TypeOK, Told
  <1>14. Ending'  BY <1>1, <1>2, <1>3, <1>4 DEF IInv, TypeOK, Ending, EndSeen, FailureQueued
  <1>15. RequestQueue'  BY <1>1, <1>2, <1>3, <1>4 DEF IInv, TypeOK, RequestQueue
  <1>16. WriterTold'
    BY <1>1, <1>2, <1>3, <1>4 DEF IInv, TypeOK, WriterTold, ReaderStops, Ends, MayParkWriter, Full, Some
  <1>17. /\ ChannelTypes' /\ RouteTypes' /\ RubyTypes' /\ Finishing'
    BY <1>1, <1>2, <1>3, <1>4, Untouched DEF IInv, TypeOK
  <1> QED BY <1>5, <1>6, <1>7, <1>8, <1>9, <1>10, <1>11, <1>12, <1>13, <1>14, <1>15, <1>16, <1>17
    DEF IInv, TypeOK

\* on_reset of a stream that was not upgraded, or that the worker reset.
LEMMA ResetInv ==
  ASSUME IInv, OnReset, ~(stream.upgraded /\ ~stream.reset_sent)
  PROVE  IInv'
  <1>1. /\ UNCHANGED <<response, request, resetWanted, timedOut, trailers, closed, queued,
                       event, owed, phase, reported, accepted, uploaded, counted, stop,
                       cpu, reactor, resolving, pc, closing, mode, loop, got, written,
                       result>>
        /\ Reported /\ envoy' = "over"
        /\ worker' = When(~stream.response_ended, Fail) \o Gone \o worker
    BY DEF IInv, TypeOK, OnReset, channelVars, routeVars, workerVars, rubyVars
  <1>2. /\ envoy = "open" /\ stream.state = "open" /\ ~closed /\ ~queued /\ pc.reader # "call"
        /\ counted = << >> /\ (Todo = {} \/ Todo = {"inside", "pump"})
        /\ ~stream.response_ended => stream.outcome = "none" /\ ~response.ended
        /\ stream \in OpenStreams /\ stream.response_ended \in BOOLEAN
    BY <1>1, Calls, StreamFields DEF IInv
  <1>3. stream.response_ended => stream.outcome # "none"
    BY <1>2 DEF IInv, Counts
  <1>4. /\ worker' \in Seq(Steps) /\ Planned(worker)'
        /\ \/ /\ stream.response_ended
              /\ Todo' = {"cancelRequest", "oweReader", "oweWriter", "count"} \cup Todo
           \/ /\ ~stream.response_ended
              /\ Todo' = {"pushFailure", "cancelRequest", "wantReset", "oweReader", "oweWriter",
                          "count"} \cup Todo
    <2>1. /\ \A x \in {"pushEnd", "pushFailure", "cancelRequest", "wantReset", "oweReader",
                        "oweWriter", "count"} : Rank(x) \in 0 .. 8
          /\ << >> \o Gone = Gone
      <3>1. Gone \in Seq(Steps)  BY GoneList DEF Lists
      <3> QED BY <3>1 DEF Rank
    <2>2. CASE stream.response_ended
      <3>1. worker' = << >> \o Gone \o worker  BY <1>1, <2>2 DEF When
      <3> QED BY <1>1, <2>1, <2>2, <3>1, GoneList, Calls
    <2>3. CASE ~stream.response_ended
      <3>1. worker' = Fail \o Gone \o worker  BY <1>1, <2>3 DEF When
      <3> QED BY <1>1, <2>1, <2>3, <3>1, FailGone, Calls
    <2> QED BY <2>2, <2>3
  <1>5. /\ stream' \in OpenStreams /\ stream'.state = "gone" /\ stream'.response_ended
        /\ stream'.request_ended = stream.request_ended /\ stream'.reset_sent = stream.reset_sent
        /\ stream'.upgraded = stream.upgraded
        /\ stream.response_ended => stream'.outcome = stream.outcome
        /\ ~stream.response_ended =>
             \/ stream'.outcome = StoppedByFiber /\ stream.reset_sent
             \/ stream'.outcome \in {"refused", "reset"}
    <2>1. PICK overflow \in BOOLEAN :
            LET asked == IF stream.reset_sent THEN Settled(stream, StoppedByFiber) ELSE stream
                pool  == IF overflow THEN Settled(asked, "refused") ELSE asked
            IN  stream' = [ (IF stream.response_ended THEN pool ELSE Over(pool, "reset"))
                            EXCEPT !.state = "gone" ]
      BY DEF OnReset
    <2> DEFINE asked == IF stream.reset_sent THEN Settled(stream, StoppedByFiber) ELSE stream
               pool == IF overflow THEN Settled(asked, "refused") ELSE asked
               s == IF stream.response_ended THEN pool ELSE Over(pool, "reset")
    <2>2. stream' = [s EXCEPT !.state = "gone"]  BY <2>1
    <2>3. /\ StoppedByFiber \in Outcomes /\ "refused" \in Outcomes /\ "reset" \in Outcomes
          /\ StoppedByFiber # "none"
      BY DEF StoppedByFiber, Outcomes
    <2>4. /\ asked \in OpenStreams
          /\ asked.outcome = IF stream.reset_sent /\ stream.outcome = "none" THEN StoppedByFiber
                             ELSE stream.outcome
          /\ asked.request_ended = stream.request_ended
          /\ asked.response_ended = stream.response_ended
          /\ asked.reset_sent = stream.reset_sent /\ asked.upgraded = stream.upgraded
      BY <1>2, <2>3, SettledFacts
    <2> HIDE DEF asked
    <2>5. /\ pool \in OpenStreams
          /\ pool.outcome = IF overflow /\ asked.outcome = "none" THEN "refused" ELSE asked.outcome
          /\ pool.request_ended = stream.request_ended
          /\ pool.response_ended = stream.response_ended
          /\ pool.reset_sent = stream.reset_sent /\ pool.upgraded = stream.upgraded
      BY <2>3, <2>4, SettledFacts
    <2> HIDE DEF pool
    <2>6. /\ s \in OpenStreams /\ s.response_ended
          /\ stream.response_ended => s.outcome = pool.outcome
          /\ ~stream.response_ended =>
               s.outcome = IF pool.outcome = "none" THEN "reset" ELSE pool.outcome
          /\ s.request_ended = stream.request_ended
          /\ s.reset_sent = stream.reset_sent /\ s.upgraded = stream.upgraded
      <3>1. CASE stream.response_ended  BY <2>5, <3>1
      <3>2. CASE ~stream.response_ended  BY <2>3, <2>5, <3>2, OverFacts
      <3> QED BY <3>1, <3>2
    <2> HIDE DEF s
    <2>7. /\ stream.response_ended => s.outcome = stream.outcome
          /\ ~stream.response_ended =>
               \/ s.outcome = StoppedByFiber /\ stream.reset_sent
               \/ s.outcome \in {"refused", "reset"}
      BY <1>2, <1>3, <2>3, <2>4, <2>5, <2>6
    <2> QED BY <2>2, <2>6, <2>7, GoneFacts
  <1>6. /\ stream'.outcome # "none"
        /\ stream'.outcome = "timed_out" => timedOut
        /\ ~stream.response_ended /\ stream'.outcome = "abandoned" => stream.reset_sent /\ ~timedOut
    BY <1>3, <1>5 DEF StoppedByFiber, IInv, Reasons
  <1>7. WorkerTypes'  BY <1>1, <1>2, <1>3, <1>4, <1>5, <1>6 DEF IInv, TypeOK, WorkerTypes
  <1>8. Plan'  BY <1>1, <1>2, <1>3, <1>4, <1>5, <1>6 DEF IInv, TypeOK, Plan, Some
  <1>9. Handle'  BY <1>1, <1>2, <1>3, <1>4, <1>5, <1>6 DEF IInv, TypeOK, Handle, Some
  <1>10. Early'  BY <1>1, <1>2, <1>3, <1>4, <1>5, <1>6 DEF IInv, TypeOK, Early, Some
  <1>11. Places'  BY <1>1, <1>2, <1>3, <1>4, <1>5, <1>6 DEF IInv, TypeOK, Places
  <1>12. Counts'  BY <1>1, <1>2, <1>3, <1>4, <1>5, <1>6 DEF IInv, TypeOK, Counts
  <1>13. Reasons'  BY <1>1, <1>2, <1>3, <1>4, <1>5, <1>6 DEF IInv, TypeOK, Reasons, GaveUp
  <1>14. ResponseQueue'
    BY <1>1, <1>2, <1>3, <1>4, <1>5, <1>6, ZenonT(40) DEF IInv, TypeOK, ResponseQueue, NoHead, Some
  <1>15. Told'  BY <1>1, <1>2, <1>3, <1>4, <1>5, <1>6 DEF IInv, TypeOK, Told
  <1>16. Ending'
    BY <1>1, <1>2, <1>3, <1>4, <1>5, <1>6 DEF IInv, TypeOK, Ending, EndSeen, FailureQueued
  <1>17. RequestQueue'  BY <1>1, <1>2, <1>3, <1>4, <1>5, <1>6 DEF IInv, TypeOK, RequestQueue
  <1>18. WriterTold'
    BY <1>1, <1>2, <1>3, <1>4, <1>5, <1>6
    DEF IInv, TypeOK, WriterTold, ReaderStops, Ends, MayParkWriter, Full, Some
  <1>19. /\ ChannelTypes' /\ RouteTypes' /\ RubyTypes' /\ Finishing'
    BY <1>1, <1>2, <1>3, <1>4, <1>5, <1>6, Untouched DEF IInv, TypeOK
  <1> QED BY <1>7, <1>8, <1>9, <1>10, <1>11, <1>12, <1>13, <1>14, <1>15, <1>16, <1>17, <1>18, <1>19
    DEF IInv, TypeOK

\* The scheduled event: calls are started and streams pumped.
LEMMA OnScheduledInv == IInv /\ OnScheduled => IInv'
  <1> SUFFICES ASSUME IInv, OnScheduled  PROVE IInv'
    OBVIOUS
  <1>1. /\ UNCHANGED <<response, request, resetWanted, timedOut, trailers, closed, owed, stream,
                       envoy, phase, reported, accepted, uploaded, counted, stop, cpu,
                       reactor, resolving, pc, closing, mode, loop, got, written,
                       result>>
        /\ worker = << >> /\ event /\ ~queued' /\ queued' \in BOOLEAN /\ event' \in BOOLEAN
        /\ worker' = IF closed THEN << >> ELSE IF queued THEN <<"start", "pump">> ELSE <<"pump">>
    BY DEF IInv, TypeOK, OnScheduled, channelVars, routeVars, workerVars, rubyVars
  <1>2. Todo = {} /\ pc.reader # "call"
    BY <1>1, Known DEF IInv, Early
  <1>3. /\ worker' \in Seq(Steps) /\ Planned(worker)'
        /\ closed => Todo' = {} /\ ~queued
        /\ ~closed /\ queued => Todo' = {"start", "pump"} /\ stream.state = "none"
        /\ ~closed /\ ~queued => Todo' = {"pump"}
    <2>1. /\ Lists(<< >>, {}) /\ Lists(<<"start", "pump">>, {"start", "pump"})
          /\ Lists(<<"pump">>, {"pump"})
      BY Empty, StartSteps, Single DEF Steps
    <2>2. queued => stream.state = "none" /\ ~closed  BY DEF IInv, Handle
    <2>3. CASE closed  BY <1>1, <2>1, <2>2, <2>3 DEF Lists, Todo
    <2>4. CASE ~closed /\ queued  BY <1>1, <2>1, <2>2, <2>4 DEF Lists, Todo
    <2>5. CASE ~closed /\ ~queued  BY <1>1, <2>1, <2>2, <2>5 DEF Lists, Todo
    <2> QED BY <2>3, <2>4, <2>5
  <1>4. RouteTypes'  BY <1>1, <1>2, <1>3 DEF IInv, TypeOK, RouteTypes
  <1>5. WorkerTypes'  BY <1>1, <1>2, <1>3 DEF IInv, TypeOK, WorkerTypes
  <1>6. Plan'  BY <1>1, <1>2, <1>3 DEF IInv, TypeOK, Plan, Some
  <1>7. Handle'  BY <1>1, <1>2, <1>3 DEF IInv, TypeOK, Handle, Some
  <1>8. Early'  BY <1>1, <1>2, <1>3 DEF IInv, TypeOK, Early, Some
  <1>9. Counts'  BY <1>1, <1>2, <1>3 DEF IInv, TypeOK, Counts
  <1>10. Reasons'  BY <1>1, <1>2, <1>3 DEF IInv, TypeOK, Reasons, GaveUp
  <1>11. ResponseQueue'  BY <1>1, <1>2, <1>3 DEF IInv, TypeOK, ResponseQueue, NoHead, Some
  <1>12. Told'  BY <1>1, <1>2, <1>3 DEF IInv, TypeOK, Told
  <1>13. Ending'  BY <1>1, <1>2, <1>3 DEF IInv, TypeOK, Ending, EndSeen, FailureQueued
  <1>14. WriterTold'
    BY <1>1, <1>2, <1>3 DEF IInv, TypeOK, WriterTold, ReaderStops, Ends, MayParkWriter, Full, Some
  <1>15. /\ ChannelTypes' /\ RubyTypes' /\ Places' /\ RequestQueue' /\ Finishing'
    BY <1>1, <1>2, <1>3, Untouched DEF IInv, TypeOK
  <1> QED BY <1>4, <1>5, <1>6, <1>7, <1>8, <1>9, <1>10, <1>11, <1>12, <1>13, <1>14, <1>15
    DEF IInv, TypeOK

\* The request the calls belong to is over: its streams are abandoned.
LEMMA OnStreamCompleteInv == IInv /\ OnStreamComplete => IInv'
  <1> SUFFICES ASSUME IInv, OnStreamComplete  PROVE IInv'
    OBVIOUS
  <1>1. /\ UNCHANGED <<response, request, resetWanted, timedOut, trailers, event, owed, phase,
                       reported, accepted, uploaded, counted, cpu, reactor, resolving,
                       pc, closing, mode, loop, got, written, result>>
        /\ worker = << >> /\ ~closed /\ closed' /\ ~queued' /\ envoy' = "over" /\ Abandoned
        /\ closed' \in BOOLEAN /\ queued' \in BOOLEAN /\ stop' \in BOOLEAN
    BY DEF IInv, TypeOK, OnStreamComplete, channelVars, routeVars, workerVars, rubyVars
  <1>2. /\ Todo = {} /\ stream \in OpenStreams /\ stream.response_ended \in BOOLEAN
        /\ stream.response_ended => stream.outcome # "none"
        /\ queued => stream.state = "none" /\ stream = NoStream
        /\ queued \/ stream.state = "open" => pc.reader # "call" /\ counted = << >>
        /\ stream.state = "open" /\ ~stream.response_ended =>
             stream.outcome = "none" /\ ~response.ended
    BY <1>1, Known, StreamFields DEF IInv, Handle, Early, Counts, ResponseQueue
  <1>3. \/ /\ ~queued /\ stream.state # "open" /\ UNCHANGED <<stream, worker>> /\ Todo' = {}
        \/ /\ stream' \in OpenStreams /\ stream'.state = "gone" /\ stream'.outcome # "none"
           /\ stream'.request_ended = stream.request_ended
           /\ stream'.upgraded = stream.upgraded /\ stream'.reset_sent = stream.reset_sent
           /\ stream.response_ended => stream'.response_ended
           /\ stream.outcome # "none" => stream'.outcome = stream.outcome
           /\ stream.outcome = "none" => stream'.outcome \in {"completed", "abandoned"}
           /\ worker' \in Seq(Steps) /\ Planned(worker)' /\ (queued \/ stream.state = "open")
           /\ \/ /\ stream.response_ended
                 /\ Todo' = {"cancelRequest", "oweReader", "oweWriter", "count"}
              \/ /\ ~stream.response_ended
                 /\ Todo' = {"pushFailure", "cancelRequest", "wantReset", "oweReader", "oweWriter",
                             "count"}
    <2>1. "abandoned" \in Outcomes /\ "completed" \in Outcomes  BY DEF Outcomes
    <2>2. CASE queued
      <3> DEFINE s == Settled(stream, "abandoned")
      <3>1. /\ stream' = [s EXCEPT !.state = "gone"] /\ worker' = Fail \o WakeStream \o <<"count">>
        BY <1>1, <2>2 DEF Abandoned
      <3>2. stream.outcome = "none" /\ ~stream.response_ended  BY <1>2, <2>2 DEF NoStream
      <3>3. /\ s \in OpenStreams /\ s.outcome = "abandoned"
            /\ s.request_ended = stream.request_ended /\ s.reset_sent = stream.reset_sent
            /\ s.upgraded = stream.upgraded
        BY <1>2, <2>1, <3>2, SettledFacts
      <3> HIDE DEF s
      <3>4. /\ worker' \in Seq(Steps) /\ Planned(worker)'
            /\ Todo' = {"pushFailure", "cancelRequest", "wantReset", "oweReader", "oweWriter",
                        "count"}
        BY <3>1, UnsentSteps DEF Lists, Todo
      <3> QED BY <2>2, <3>1, <3>2, <3>3, <3>4, GoneFacts
    <2>3. CASE ~queued /\ stream.state = "open"
      <3> DEFINE o == IF stream.upgraded THEN "completed" ELSE "abandoned"
                 s == Over(stream, o)
      <3>1. /\ stream' = [s EXCEPT !.state = "gone"]
            /\ worker' = When(~stream.response_ended, Fail) \o Gone
        BY <1>1, <2>3 DEF Abandoned
      <3>2. o \in Outcomes /\ o \in {"completed", "abandoned"}  BY <2>1
      <3> HIDE DEF o
      <3>3. /\ s \in OpenStreams /\ s.outcome # "none" /\ s.response_ended
            /\ s.outcome = IF stream.outcome = "none" THEN o ELSE stream.outcome
            /\ s.request_ended = stream.request_ended /\ s.reset_sent = stream.reset_sent
            /\ s.upgraded = stream.upgraded
        BY <1>2, <3>2, OverFacts
      <3> HIDE DEF s
      <3>4. /\ worker' \in Seq(Steps) /\ Planned(worker)'
            /\ \/ /\ stream.response_ended
                  /\ Todo' = {"cancelRequest", "oweReader", "oweWriter", "count"}
               \/ /\ ~stream.response_ended
                  /\ Todo' = {"pushFailure", "cancelRequest", "wantReset", "oweReader",
                              "oweWriter", "count"}
        <4>1. << >> \o Gone = Gone
          <5>1. Gone \in Seq(Steps)  BY GoneList DEF Lists
          <5> QED BY <5>1
        <4>2. CASE stream.response_ended
          <5>1. worker' = Gone  BY <3>1, <4>1, <4>2 DEF When
          <5> QED BY <4>2, <5>1, GoneList DEF Lists, Todo
        <4>3. CASE ~stream.response_ended
          <5>1. worker' = Fail \o Gone  BY <3>1, <4>3 DEF When
          <5> QED BY <4>3, <5>1, FailGone DEF Lists, Todo
        <4> QED BY <4>2, <4>3
      <3> QED BY <2>3, <3>1, <3>2, <3>3, <3>4, GoneFacts
    <2>4. CASE ~queued /\ stream.state # "open"
      BY <1>1, <1>2, <2>4 DEF Abandoned, Todo
    <2> QED BY <2>2, <2>3, <2>4
  <1>4. RouteTypes'  BY <1>1, <1>2, <1>3 DEF IInv, TypeOK, RouteTypes
  <1>5. WorkerTypes'  BY <1>1, <1>2, <1>3 DEF IInv, TypeOK, WorkerTypes
  <1>6. Plan'  BY <1>1, <1>2, <1>3 DEF IInv, TypeOK, Plan, Some
  <1>7. Handle'  BY <1>1, <1>2, <1>3 DEF IInv, TypeOK, Handle, Some
  <1>8. Early'  BY <1>1, <1>2, <1>3 DEF IInv, TypeOK, Early, Some
  <1>9. Places'  BY <1>1, <1>2, <1>3 DEF IInv, TypeOK, Places
  <1>10. Counts'  BY <1>1, <1>2, <1>3 DEF IInv, TypeOK, Counts
  <1>11. Reasons'  BY <1>1, <1>2, <1>3 DEF IInv, TypeOK, Reasons, GaveUp
  <1>12. ResponseQueue'  BY <1>1, <1>2, <1>3 DEF IInv, TypeOK, ResponseQueue, NoHead, Some
  <1>13. Told'  BY <1>1, <1>2, <1>3 DEF IInv, TypeOK, Told
  <1>14. Ending'  BY <1>1, <1>2, <1>3 DEF IInv, TypeOK, Ending, EndSeen, FailureQueued
  <1>15. RequestQueue'  BY <1>1, <1>2, <1>3 DEF IInv, TypeOK, RequestQueue
  <1>16. WriterTold'
    BY <1>1, <1>2, <1>3 DEF IInv, TypeOK, WriterTold, ReaderStops, Ends, MayParkWriter, Full, Some
  <1>17. /\ ChannelTypes' /\ RubyTypes' /\ Finishing'
    BY <1>1, <1>2, <1>3, Untouched DEF IInv, TypeOK
  <1> QED BY <1>4, <1>5, <1>6, <1>7, <1>8, <1>9, <1>10, <1>11, <1>12, <1>13, <1>14, <1>15, <1>16,
        <1>17 DEF IInv, TypeOK

-----------------------------------------------------------------------------
(* The parts put together. *)

\* on_complete.
LEMMA OnCompleteInv == IInv /\ OnComplete => IInv'
  <1> SUFFICES ASSUME IInv, OnComplete  PROVE IInv'
    OBVIOUS
  <1>1. /\ Reported /\ Complete /\ envoy' = "over"
        /\ UNCHANGED <<channelVars, routeVars, phase, reported, accepted, uploaded, counted, stop,
                       rubyVars>>
    BY DEF OnComplete
  <1> QED BY <1>1, CompleteInv

\* on_reset, whichever way it is read.
LEMMA OnResetInv == IInv /\ OnReset => IInv'
  <1> SUFFICES ASSUME IInv, OnReset  PROVE IInv'
    OBVIOUS
  <1>1. CASE stream.upgraded /\ ~stream.reset_sent
    <2>1. /\ Reported /\ Complete /\ envoy' = "over"
          /\ UNCHANGED <<channelVars, routeVars, phase, reported, accepted, uploaded, counted,
                         stop, rubyVars>>
      BY <1>1, Zenon DEF OnReset
    <2> QED BY <2>1, CompleteInv
  <1>2. CASE ~(stream.upgraded /\ ~stream.reset_sent)  BY <1>2, ResetInv
  <1> QED BY <1>1, <1>2

\* The steps of a callback that change the channel.
LEMMA TouchChannelInv == IInv /\ TouchChannel => IInv'
  <1>1. TouchChannel => \/ At("pushHead") \/ At("pushEnd") \/ At("pushFailure")
                        \/ At("cancelRequest") \/ At("wantReset") \/ At("setTrailers")
    BY Zenon DEF TouchChannel
  <1> QED
    BY <1>1, PushHeadInv, PushEndInv, PushFailureInv, CancelRequestInv, WantResetInv,
       SetTrailersInv

\* The steps that owe somebody a wakeup.
LEMMA TellInv == IInv /\ Tell => IInv'
  <1>1. Tell => At("oweReader") \/ At("oweWriter") \/ At("wakeSelf")  BY Zenon DEF Tell
  <1> QED BY <1>1, TellReaderInv, TellWriterInv, TellSelfInv

\* The first send of a stream.
LEMMA FirstInv == IInv /\ First => IInv'
  <1> SUFFICES ASSUME IInv, First  PROVE IInv'
    OBVIOUS
  <1>1. \/ /\ stream' = [stream EXCEPT !.state = "open", !.request_ended = TakesEnd]
           /\ envoy' = "open" /\ worker' = Rest
        \/ /\ stream' = [Settled(stream, "refused") EXCEPT !.state = "gone"]
           /\ worker' = Fail \o WakeStream \o <<"count">> \o Rest /\ UNCHANGED envoy
    BY Zenon DEF First
  <1> QED BY <1>1, FirstOpenInv, FirstRefusedInv

\* The invariant holds before the call.
LEMMA Initially == Init => IInv
  <1> SUFFICES ASSUME Init  PROVE IInv
    OBVIOUS
  <1>1. /\ response = EmptyStream /\ request = EmptyStream
        /\ resetWanted = FALSE /\ timedOut = FALSE /\ trailers = FALSE
        /\ closed = FALSE /\ queued = FALSE /\ event = FALSE /\ owed = {}
        /\ worker = << >> /\ stream = NoStream /\ envoy = "none" /\ phase = "none"
        /\ reported = 0 /\ accepted = 0 /\ uploaded = 0 /\ counted = << >> /\ stop = FALSE
        /\ cpu = "reader" /\ reactor = "wait" /\ resolving = {}
        /\ pc = [reader |-> "call", upload |-> "none"]
        /\ closing = << >> /\ mode \in Modes /\ loop = "head"
        /\ got = 0 /\ written = 0 /\ result = "none"
    BY DEF Init
  <1>2. /\ EmptyStream \in StreamsOf({"reader"}) /\ EmptyStream \in StreamsOf({"upload"})
        /\ EmptyStream.items = << >> /\ EmptyStream.buffered_bytes = 0 /\ ~EmptyStream.paused
        /\ ~EmptyStream.cancelled /\ ~EmptyStream.ended /\ EmptyStream.waiter = NoFiber
    BY DEF EmptyStream, StreamsOf
  <1>3. /\ NoStream \in OpenStreams /\ NoStream.state = "none" /\ NoStream.outcome = "none"
        /\ ~NoStream.request_ended /\ ~NoStream.response_ended /\ ~NoStream.reset_sent
        /\ ~NoStream.upgraded
    BY DEF NoStream, OpenStreams, Outcomes
  <1>4. /\ worker \in Seq(Steps) /\ Planned(worker) /\ Todo = {}
        /\ closing \in Seq(ClosingSteps) /\ Members(closing) = {}
    BY <1>1, Nothing, ClosingLists DEF Todo
  <1>5. Ordered(<< >>, 0, 0) /\ Len(<< >>) = 0  BY DEF Ordered
  <1>6. ChannelTypes /\ RouteTypes /\ WorkerTypes
    <2>1. << >> \in Seq(Outcomes) /\ 0 \in Nat  OBVIOUS
    <2>2. ChannelTypes  BY <1>1, <1>2 DEF ChannelTypes
    <2>3. RouteTypes  BY <1>1 DEF RouteTypes
    <2>4. WorkerTypes  BY <1>1, <1>3, <1>4, <2>1 DEF WorkerTypes
    <2> QED BY <2>2, <2>3, <2>4
  <1>7. RubyTypes  BY <1>1, <1>4 DEF RubyTypes, Fibers
  <1>8. Plan /\ Handle /\ Early  BY <1>1, <1>2, <1>3, <1>4 DEF Plan, Handle, Early, Some
  <1>9. Places /\ Counts /\ Reasons
    BY <1>1, <1>2, <1>3, <1>4 DEF Places, Counts, Reasons, GaveUp
  <1>10. ResponseQueue  BY <1>1, <1>2, <1>3, <1>4, <1>5 DEF ResponseQueue, NoHead, Some
  <1>11. Told /\ Ending  BY <1>1, <1>2, <1>3, <1>4 DEF Told, Ending, EndSeen
  <1>12. RequestQueue  BY <1>1, <1>2, <1>3, <1>5, BytesAssumption DEF RequestQueue
  <1>13. Finishing /\ WriterTold  BY <1>1 DEF Finishing, WriterTold
  <1> QED BY <1>6, <1>7, <1>8, <1>9, <1>10, <1>11, <1>12, <1>13 DEF IInv, TypeOK

\* A step that changes nothing.
LEMMA Stutters == IInv /\ UNCHANGED vars => IInv'
  <1> SUFFICES ASSUME IInv, UNCHANGED vars  PROVE IInv'
    OBVIOUS
  <1>1. UNCHANGED <<response, request, resetWanted, timedOut, trailers, closed, queued, event, owed,
                    worker, stream, envoy, phase, reported, accepted, uploaded, counted, stop,
                    cpu, reactor, resolving, pc, closing, mode, loop, got, written, result>>
    BY DEF vars, channelVars, routeVars, workerVars, rubyVars
  <1> QED BY <1>1, Untouched DEF IInv, TypeOK

\* Every step of the worker, of Envoy and of the fibers keeps the invariant.
LEMMA Preserved == IInv /\ [Next]_vars => IInv'
  <1> SUFFICES ASSUME IInv, [Next]_vars  PROVE IInv'
    OBVIOUS
  <1>1. CASE EnvoyReports
    BY <1>1, HeadersArrivedInv, DataArrivedInv, TrailersArrivedInv, OnCompleteInv, OnResetInv
    DEF EnvoyReports
  <1>2. CASE OnStreamComplete  BY <1>2, OnStreamCompleteInv
  <1>3. CASE OnScheduled  BY <1>3, OnScheduledInv
  <1>4. CASE WorkerStep
    BY <1>4, TouchChannelInv, TellInv, StoppedInv, CountInv, StartInv, FirstInv, PumpInv, SendInv,
       ReturnInv, OwePumpInv
    DEF WorkerStep
  <1>5. CASE CloseStep  BY <1>5, CloseStepInv
  <1>6. CASE FiberStep
    BY <1>6, OpenStreamInv, WakeWorkerInv, ReadHeadInv, ReadOnInv, PullInv, CheckInv,
       ParkReaderInv, WaitEndsInv, CloseBodyInv, ReadRestInv, WriteInv, WriteEndsInv,
       PushPieceInv, PieceWakesInv, ParkUploadInv, UploadResumesInv, FinishInv, FiberLeavesInv
    DEF FiberStep
  <1>7. CASE \E f \in Fibers : FiberResume(f)  BY <1>7, FiberResumeInv
  <1>8. CASE TakeWakeups  BY <1>8, TakeWakeupsInv
  <1>9. CASE ReactorPass
    BY <1>9, ResolveReaderInv, ResolveUploadInv, StopCancelledInv DEF ReactorPass
  <1>10. CASE IdleTimeout  BY <1>10, IdleTimeoutInv
  <1>11. CASE UNCHANGED vars  BY <1>11, Stutters
  <1> QED
    BY <1>1, <1>2, <1>3, <1>4, <1>5, <1>6, <1>7, <1>8, <1>9, <1>10, <1>11 DEF Next

\* The model's way to ask what the worker still has to do.
LEMMA PendingIsSome == \A steps : Pending(steps) <=> Some(steps)
  BY DEF Pending, Some, Todo, Members

-----------------------------------------------------------------------------
(* The theorems. *)

\* The inductive invariant holds throughout: every callback of Envoy's and every
\* step of the worker, the two fibers and the reactor keeps it.
THEOREM Invariance == Spec => []IInv
  BY Initially, Preserved, PTL DEF Spec

\* Whatever the interleaving of the callbacks with the two fibers, every variable
\* keeps its type.
THEOREM TypeCorrect == Spec => []TypeOK
  <1>1. IInv => TypeOK  BY DEF IInv
  <1> QED BY <1>1, Invariance, PTL

\* Each direction of the exchange carries every byte once and in order, however
\* large the bodies and the queues are, and the worker passes the end of the
\* request body on only behind all of it.
THEOREM BothInOrder == Spec => []InOrder
  <1>1. IInv => InOrder  BY DEF IInv, ResponseQueue, RequestQueue, InOrder
  <1> QED BY <1>1, Invariance, PTL

\* Whatever headers_arrived, data_arrived, completed or fail pushed, a reader that
\* parked before it saw it is woken.
THEOREM ReaderIsTold == Spec => []NoStrandedReader
  <1>1. IInv => NoStrandedReader
    <2>1. "oweReader" \in Todo => Pending({"oweReader"})  BY PendingIsSome DEF Some
    <2> QED BY <2>1 DEF IInv, Told, NoStrandedReader
  <1> QED BY <1>1, Invariance, PTL

\* A writer of the request body that parked is woken by whoever made room or ended
\* its queue, or stopped with its reader.
THEOREM UploadIsTold == Spec => []NoStrandedUpload
  <1>1. IInv => NoStrandedUpload
    BY PendingIsSome DEF IInv, WriterTold, ReaderStops, NoStrandedUpload, AwaitsUpload, Relaying
  <1> QED BY <1>1, Invariance, PTL

\* A count that is none or one.
LEMMA AtMostOne ==
  ASSUME NEW n, n = 0 \/ n = 1
  PROVE  n =< 1
  <1>1. CASE n = 0  BY <1>1
  <1>2. CASE n = 1  BY <1>2
  <1> QED BY <1>1, <1>2

\* count_call runs once for a call that was queued, whichever callback ends it, and
\* says what the fiber saw as far as the code promises it.
THEOREM CallsAreCounted == Spec => []CountedOnce
  <1>1. IInv => CountedOnce
    <2> SUFFICES ASSUME IInv  PROVE CountedOnce
      OBVIOUS
    <2>1. /\ counted = << >> \/ (stream.state = "gone" /\ counted = <<stream.outcome>>)
          /\ stream.state \in {"none", "open", "gone"}
      BY StreamFields DEF IInv, Counts
    <2>2. /\ Len(<< >>) = 0 /\ Len(<<stream.outcome>>) = 1 /\ <<stream.outcome>>[1] = stream.outcome
          /\ <<"timed_out">>[1] = "timed_out" /\ <<"abandoned">>[1] = "abandoned"
          /\ Len(<<"timed_out">>) = 1 /\ Len(<<"abandoned">>) = 1
      OBVIOUS
    <2>3. Len(counted) =< 1
      <3>1. Len(counted) = 0 \/ Len(counted) = 1  BY <2>1, <2>2
      <3> QED BY <3>1, AtMostOne
    <2>4. counted = <<"timed_out">> => stream.outcome = "timed_out"  BY <2>1, <2>2
    <2>5. counted = <<"abandoned">> => stream.state = "gone" /\ stream.outcome = "abandoned"
      BY <2>1, <2>2
    <2>6. worker = << >> /\ stream.state = "gone" => Len(counted) = 1
      BY <2>2, Known DEF IInv, Counts
    <2>7. worker = << >> /\ closed /\ result # "refused" /\ pc.reader # "call" =>
            stream.state = "gone"
      BY <2>1, Known DEF IInv, Handle, Early, Some
    <2> QED BY <2>3, <2>4, <2>5, <2>6, <2>7 DEF IInv, Reasons, CountedOnce
  <1> QED BY <1>1, Invariance, PTL

\* A reader that read the response to its end finds it completed, with the trailers.
THEOREM EndIsSettled == Spec => []EndIsTrue
  <1>1. IInv => EndIsTrue  BY DEF IInv, Ending, EndSeen, EndIsTrue
  <1> QED BY <1>1, Invariance, PTL

\* pump_streams and next_action never use a handle Envoy has forgotten, although
\* the stream may end inside any call that uses it.
THEOREM HandlesLive == Spec => []HandleIsLive
  <1>1. IInv => HandleIsLive
    <2> SUFFICES ASSUME IInv  PROVE HandleIsLive
      OBVIOUS
    <2>1. At("send") => "send" \in Todo  BY Begun DEF IInv
    <2> QED BY <2>1 DEF IInv, Handle, HandleIsLive
  <1> QED BY <1>1, Invariance, PTL
=============================================================================
