------------------------ MODULE ProcessRuntimeProofs ------------------------
(***************************************************************************)
(* The runtime of a process (the bootstrap extension and the thread that   *)
(* owns the Ruby VM) for any rackup files, any number of bootstrap entries *)
(* and any filter configurations: the first runtime is final, and the      *)
(* process does not exit under a VM that runs.                             *)
(***************************************************************************)
EXTENDS ProcessRuntime, TLAPS

\* The runtime there is: made once, with the first settings, and accepted with
\* those only when its application loaded and its hooks ran.
Made ==
  /\ vms = IF ruby = "none" THEN 0 ELSE 1
  /\ cell \in {"none", "error"} => ruby = "none"
  /\ cell = "none" <=> active = {}
  /\ cell # "none" => hook = "registered"
  /\ accepted = IF cell = "ready" THEN active ELSE {}
  /\ filters # {} => cell = "ready"
  /\ cell = "ready" => ran = "ready"
  /\ ruby \in {"serving", "leaked"} => ran = "ready"
  /\ ruby \in {"app", "hooks"} => cell = "loading"
  /\ slot = "none" <=> cell \in {"none", "loading", "error"}

\* The main thread waits for a runtime to be ready only while it loads the entry
\* that made it, and serves only when it has accepted every entry there was.
Loading ==
  /\ cell = "loading" <=> main = "ready"
  /\ main = "ready" => envoy = "loading" /\ configs # << >> /\ active = {Head(configs)}
  /\ cell = "failed" => envoy \in {"exiting", "atexit", "exited"}
  /\ named /\ ((envoy = "loading" /\ configs = << >>) \/ envoy = "serving") => accepted # {}

\* The runtime is taken once and told once, by the stage that then waits for it.
Stopping ==
  /\ told = IF slot = "taken" THEN 1 ELSE 0
  /\ slot = "taken" <=> main \in {"ack", "join"} \/ result # "none"
  /\ main \in {"ack", "join"} => envoy \in {"stopping", "atexit"}
  /\ result = "stopped" => ruby = "gone" /\ cell = "ready"
  /\ result = "error" => ruby \in {"gone", "leaked"}
  /\ envoy \in {"atexit", "exited"} => slot # "present"
  /\ envoy = "exited" => main = "idle"

IInv == TypeOK /\ Made /\ Loading /\ Stopping

USE DEF envoyVars, cellVars, rubyVars

\* A part of the invariant carries over a step that leaves its variables alone.
LEMMA Untouched ==
  /\ Made /\ UNCHANGED <<vms, ruby, cell, active, hook, accepted, filters, ran, slot>> => Made'
  /\ Loading /\ UNCHANGED <<cell, main, envoy, configs, active, named, accepted>> => Loading'
  /\ Stopping /\ UNCHANGED <<told, slot, main, result, envoy, ruby, cell>> => Stopping'
  BY DEF Made, Loading, Stopping

-----------------------------------------------------------------------------
(* Loading the bootstrap. *)

\* An entry is refused with no runtime touched; a hook that failed leaves none to make.
LEMMA BootstrapRefusedStep ==
  ASSUME IInv, BootstrapRefused
  PROVE  IInv'
  <1>1. TypeOK'  BY DEF IInv, TypeOK, BootstrapRefused, Refused
  <1>2. Made'  BY DEF IInv, TypeOK, Made, BootstrapRefused, Refused
  <1>3. Loading'  BY DEF IInv, TypeOK, Loading, BootstrapRefused, Refused
  <1>4. Stopping'  BY DEF IInv, TypeOK, Stopping, BootstrapRefused, Refused
  <1> QED BY <1>1, <1>2, <1>3, <1>4 DEF IInv

\* The first settings make the runtime, with the exit hook registered.
LEMMA BootstrapStartsStep ==
  ASSUME IInv, BootstrapStarts
  PROVE  IInv'
  <1>1. TypeOK'  BY DEF IInv, TypeOK, BootstrapStarts, Empty, Registered, Refused
  <1>2. Made'  BY DEF IInv, TypeOK, Made, BootstrapStarts, Empty, Registered, Refused
  <1>3. Loading'  BY DEF IInv, TypeOK, Loading, BootstrapStarts, Empty, Registered, Refused
  <1>4. Stopping'
    BY DEF IInv, TypeOK, Stopping, Made, BootstrapStarts, Empty, Registered, Refused
  <1> QED BY <1>1, <1>2, <1>3, <1>4 DEF IInv

\* A later entry is accepted only when it is the same.
LEMMA BootstrapJoinsStep ==
  ASSUME IInv, BootstrapJoins
  PROVE  IInv'
  <1>1. TypeOK'  BY DEF IInv, TypeOK, BootstrapJoins, Empty, Registered, Conclude, Refused
  <1>2. Made'
    BY DEF IInv, TypeOK, Made, BootstrapJoins, Empty, Registered, Conclude, Refused
  <1>3. Loading'
    BY DEF IInv, TypeOK, Loading, BootstrapJoins, Empty, Registered, Conclude, Refused
  <1>4. Stopping'
    BY DEF IInv, TypeOK, Stopping, BootstrapJoins, Empty, Registered, Conclude, Refused
  <1> QED BY <1>1, <1>2, <1>3, <1>4 DEF IInv

\* The runtime is accepted when it is ready, and kept, to be stopped, when it is not.
LEMMA StartReturnsStep ==
  ASSUME IInv, StartReturns
  PROVE  IInv'
  <1>1. TypeOK'  BY DEF IInv, TypeOK, Loading, StartReturns, Conclude, Refused
  <1>2. Made'  BY DEF IInv, TypeOK, Made, Loading, StartReturns, Conclude, Refused
  <1>3. Loading'  BY DEF IInv, TypeOK, Loading, StartReturns, Conclude, Refused
  <1>4. Stopping'
    BY DEF IInv, TypeOK, Stopping, Made, Loading, StartReturns, Conclude, Refused
  <1> QED BY <1>1, <1>2, <1>3, <1>4 DEF IInv

\* Envoy serves when every entry was accepted.
LEMMA ServeStep ==
  ASSUME IInv, Serve
  PROVE  IInv'
  <1>1. TypeOK'  BY DEF IInv, TypeOK, Serve
  <1>2. Loading'  BY DEF IInv, TypeOK, Loading, Serve
  <1>3. Stopping'  BY DEF IInv, TypeOK, Stopping, Serve
  <1>4. Made'  BY Untouched DEF IInv, Serve
  <1> QED BY <1>1, <1>2, <1>3, <1>4 DEF IInv

\* A filter configuration joins a runtime that is ready.
LEMMA FilterJoinsStep ==
  ASSUME NEW f \in Filters, IInv, FilterJoins(f)
  PROVE  IInv'
  <1>1. TypeOK'  BY DEF IInv, TypeOK, FilterJoins, Ready
  <1>2. Made'  BY DEF IInv, TypeOK, Made, FilterJoins, Ready
  <1>3. Loading' /\ Stopping'  BY Untouched DEF IInv, FilterJoins, Ready
  <1> QED BY <1>1, <1>2, <1>3 DEF IInv

-----------------------------------------------------------------------------
(* Serving, and the end. *)

\* The main thread waits for an admin answer ...
LEMMA OnAdminRequestStep ==
  ASSUME IInv, OnAdminRequest
  PROVE  IInv'
  <1>1. TypeOK'  BY DEF IInv, TypeOK, OnAdminRequest
  <1>2. Loading'  BY DEF IInv, TypeOK, Loading, OnAdminRequest
  <1>3. Stopping'  BY DEF IInv, TypeOK, Stopping, OnAdminRequest
  <1>4. Made'  BY Untouched DEF IInv, OnAdminRequest
  <1> QED BY <1>1, <1>2, <1>3, <1>4 DEF IInv

\* ... which comes ...
LEMMA AdminAnsweredStep ==
  ASSUME IInv, AdminAnswered
  PROVE  IInv'
  <1>1. TypeOK'  BY DEF IInv, TypeOK, AdminAnswered
  <1>2. Loading'  BY DEF IInv, TypeOK, Loading, AdminAnswered
  <1>3. Stopping'  BY DEF IInv, TypeOK, Stopping, AdminAnswered
  <1>4. Made'  BY Untouched DEF IInv, AdminAnswered
  <1> QED BY <1>1, <1>2, <1>3, <1>4 DEF IInv

\* ... or not.
LEMMA AdminTimesOutStep ==
  ASSUME IInv, AdminTimesOut
  PROVE  IInv'
  <1>1. TypeOK'  BY DEF IInv, TypeOK, AdminTimesOut
  <1>2. Loading'  BY DEF IInv, TypeOK, Loading, AdminTimesOut
  <1>3. Stopping'  BY DEF IInv, TypeOK, Stopping, AdminTimesOut
  <1>4. Made'  BY Untouched DEF IInv, AdminTimesOut
  <1> QED BY <1>1, <1>2, <1>3, <1>4 DEF IInv

\* Draining stops nothing.
LEMMA OnDrainStartedStep ==
  ASSUME IInv, OnDrainStarted
  PROVE  IInv'
  <1>1. TypeOK'  BY DEF IInv, TypeOK, OnDrainStarted
  <1>2. Loading'  BY DEF IInv, TypeOK, Loading, OnDrainStarted
  <1>3. Stopping'  BY DEF IInv, TypeOK, Stopping, OnDrainStarted
  <1>4. Made'  BY Untouched DEF IInv, OnDrainStarted
  <1> QED BY <1>1, <1>2, <1>3, <1>4 DEF IInv

\* The shutdown stage takes the runtime.
LEMMA OnShutdownStep ==
  ASSUME IInv, OnShutdown
  PROVE  IInv'
  <1>1. TypeOK'
    <2>1. told' \in 0 .. 1
      BY DEF IInv, TypeOK, Stopping, OnShutdown, TakesRuntime, NoRuntime
    <2> QED BY <2>1 DEF IInv, TypeOK, OnShutdown, TakesRuntime, NoRuntime
  <1>2. Made'  BY DEF IInv, TypeOK, Made, OnShutdown, TakesRuntime, NoRuntime
  <1>3. Loading'  BY DEF IInv, TypeOK, Loading, OnShutdown, TakesRuntime, NoRuntime
  <1>4. Stopping'  BY DEF IInv, TypeOK, Stopping, OnShutdown, TakesRuntime, NoRuntime
  <1> QED BY <1>1, <1>2, <1>3, <1>4 DEF IInv

\* The thread is joined only when it replied.
LEMMA ShutdownAckedStep ==
  ASSUME IInv, ShutdownAcked
  PROVE  IInv'
  <1>1. TypeOK'  BY DEF IInv, TypeOK, ShutdownAcked
  <1>2. Loading'  BY DEF IInv, TypeOK, Loading, ShutdownAcked
  <1>3. Stopping'  BY DEF IInv, TypeOK, Stopping, ShutdownAcked
  <1>4. Made'  BY Untouched DEF IInv, ShutdownAcked
  <1> QED BY <1>1, <1>2, <1>3, <1>4 DEF IInv

\* A thread that did not reply in time is left to itself.
LEMMA ShutdownTimesOutStep ==
  ASSUME IInv, ShutdownTimesOut
  PROVE  IInv'
  <1>1. TypeOK'  BY DEF IInv, TypeOK, ShutdownTimesOut
  <1>2. Loading'  BY DEF IInv, TypeOK, Loading, ShutdownTimesOut
  <1>3. Stopping'  BY DEF IInv, TypeOK, Stopping, ShutdownTimesOut
  <1>4. Made'  BY Untouched DEF IInv, ShutdownTimesOut
  <1> QED BY <1>1, <1>2, <1>3, <1>4 DEF IInv

\* A thread that was joined is gone.
LEMMA JoinedStep ==
  ASSUME IInv, Joined
  PROVE  IInv'
  <1>1. TypeOK'  BY DEF IInv, TypeOK, Joined
  <1>2. Loading'  BY DEF IInv, TypeOK, Loading, Joined
  <1>3. Stopping'  BY DEF IInv, TypeOK, Made, Loading, Stopping, Joined
  <1>4. Made'  BY Untouched DEF IInv, Joined
  <1> QED BY <1>1, <1>2, <1>3, <1>4 DEF IInv

\* The process may leave without the shutdown stage ...
LEMMA LeaveStep ==
  ASSUME IInv, Leave
  PROVE  IInv'
  <1>1. TypeOK'  BY DEF IInv, TypeOK, Leave
  <1>2. Loading'  BY DEF IInv, TypeOK, Loading, Leave
  <1>3. Stopping'  BY DEF IInv, TypeOK, Stopping, Leave
  <1>4. Made'  BY Untouched DEF IInv, Leave
  <1> QED BY <1>1, <1>2, <1>3, <1>4 DEF IInv

\* ... and the exit handler then takes the runtime, if any, for it was registered.
LEMMA AtExitStep ==
  ASSUME IInv, AtExit
  PROVE  IInv'
  <1>1. TypeOK'
    <2>1. told' \in 0 .. 1
      BY DEF IInv, TypeOK, Stopping, AtExit, TakesRuntime, NoRuntime
    <2> QED BY <2>1 DEF IInv, TypeOK, AtExit, TakesRuntime, NoRuntime
  <1>2. Made'  BY DEF IInv, TypeOK, Made, AtExit, TakesRuntime, NoRuntime
  <1>3. Loading'  BY DEF IInv, TypeOK, Loading, AtExit, TakesRuntime, NoRuntime
  <1>4. Stopping'  BY DEF IInv, TypeOK, Stopping, Made, AtExit, TakesRuntime, NoRuntime
  <1> QED BY <1>1, <1>2, <1>3, <1>4 DEF IInv

\* The process ends when the exit handler has returned.
LEMMA ExitedStep ==
  ASSUME IInv, Exited
  PROVE  IInv'
  <1>1. TypeOK'  BY DEF IInv, TypeOK, Exited
  <1>2. Loading'  BY DEF IInv, TypeOK, Loading, Exited
  <1>3. Stopping'  BY DEF IInv, TypeOK, Stopping, Exited
  <1>4. Made'  BY Untouched DEF IInv, Exited
  <1> QED BY <1>1, <1>2, <1>3, <1>4 DEF IInv

-----------------------------------------------------------------------------
(* The Ruby thread. *)

\* The application is loaded while the main thread waits.
LEMMA LoadAppStep ==
  ASSUME IInv, LoadApp
  PROVE  IInv'
  <1>1. TypeOK'  BY DEF IInv, TypeOK, LoadApp
  <1>2. Made'  BY DEF IInv, TypeOK, Made, LoadApp
  <1>3. Stopping'  BY DEF IInv, TypeOK, Stopping, LoadApp
  <1>4. Loading'  BY Untouched DEF IInv, LoadApp
  <1> QED BY <1>1, <1>2, <1>3, <1>4 DEF IInv

\* So do the hooks run.
LEMMA RunBeforeReadyStep ==
  ASSUME IInv, RunBeforeReady
  PROVE  IInv'
  <1>1. TypeOK'  BY DEF IInv, TypeOK, RunBeforeReady
  <1>2. Made'  BY DEF IInv, TypeOK, Made, RunBeforeReady
  <1>3. Stopping'  BY DEF IInv, TypeOK, Stopping, RunBeforeReady
  <1>4. Loading'  BY Untouched DEF IInv, RunBeforeReady
  <1> QED BY <1>1, <1>2, <1>3, <1>4 DEF IInv

\* A reactor that failed was ready before.
LEMMA ReactorFailsStep ==
  ASSUME IInv, ReactorFails
  PROVE  IInv'
  <1>1. TypeOK'
    <2>1. ack' = FALSE \/ ack' = (told > 0)  BY DEF ReactorFails
    <2>2. (told > 0) \in BOOLEAN  OBVIOUS
    <2>3. ack' \in BOOLEAN
      <3>1. CASE ack' = FALSE  BY <3>1
      <3>2. CASE ack' = (told > 0)  BY ONLY <3>2, <2>2
      <3> QED BY <2>1, <3>1, <3>2
    <2> QED BY <2>3 DEF IInv, TypeOK, ReactorFails
  <1>2. Made'  BY DEF IInv, TypeOK, Made, ReactorFails
  <1>3. Stopping'  BY DEF IInv, TypeOK, Stopping, ReactorFails
  <1>4. Loading'  BY Untouched DEF IInv, ReactorFails
  <1> QED BY <1>1, <1>2, <1>3, <1>4 DEF IInv

\* Only a runtime that was told replies.
LEMMA AckShutdownStep ==
  ASSUME IInv, AckShutdown
  PROVE  IInv'
  <1>1. TypeOK'  BY DEF IInv, TypeOK, AckShutdown
  <1>2. Made'  BY DEF IInv, TypeOK, Made, AckShutdown
  <1>3. Stopping'  BY DEF IInv, TypeOK, Stopping, AckShutdown
  <1>4. Loading'  BY Untouched DEF IInv, AckShutdown
  <1> QED BY <1>1, <1>2, <1>3, <1>4 DEF IInv

\* The VM is torn down once.
LEMMA CleanupStep ==
  ASSUME IInv, Cleanup
  PROVE  IInv'
  <1>1. TypeOK'  BY DEF IInv, TypeOK, Cleanup
  <1>2. Made'  BY DEF IInv, TypeOK, Made, Cleanup
  <1>3. Stopping'  BY DEF IInv, TypeOK, Stopping, Cleanup
  <1>4. Loading'  BY Untouched DEF IInv, Cleanup
  <1> QED BY <1>1, <1>2, <1>3, <1>4 DEF IInv

-----------------------------------------------------------------------------
(* The theorems. *)

\* The initial states satisfy it, for any bootstrap entries.
LEMMA InitIInv == Init => IInv
  <1> SUFFICES ASSUME Init PROVE IInv
    OBVIOUS
  <1>1. TypeOK
    <2>1. configs \in Seq(Settings)  BY ConfigsAssumption DEF Init
    <2>2. named \in BOOLEAN /\ ack \in BOOLEAN  BY DEF Init
    <2> QED BY <2>1, <2>2 DEF Init, TypeOK
  <1>2. Made /\ Loading /\ Stopping  BY DEF Init, Made, Loading, Stopping
  <1> QED BY <1>1, <1>2 DEF IInv

\* Every step preserves it.
LEMMA NextIInv == IInv /\ [Next]_vars => IInv'
  <1> SUFFICES ASSUME IInv, [Next]_vars PROVE IInv'
    OBVIOUS
  <1>1. CASE BootstrapRefused \/ BootstrapStarts \/ BootstrapJoins \/ StartReturns \/ Serve
    BY <1>1, BootstrapRefusedStep, BootstrapStartsStep, BootstrapJoinsStep, StartReturnsStep,
       ServeStep
  <1>2. CASE \E f \in Filters : FilterJoins(f)
    BY <1>2, FilterJoinsStep
  <1>3. CASE OnAdminRequest \/ OnDrainStarted \/ OnShutdown \/ Leave \/ MainStep
    BY <1>3, OnAdminRequestStep, OnDrainStartedStep, OnShutdownStep, LeaveStep,
       AdminAnsweredStep, AdminTimesOutStep, ShutdownAckedStep, ShutdownTimesOutStep,
       JoinedStep, AtExitStep, ExitedStep
    DEF MainStep
  <1>4. CASE LoadApp \/ RunBeforeReady \/ ReactorFails \/ AckShutdown \/ Cleanup
    BY <1>4, LoadAppStep, RunBeforeReadyStep, ReactorFailsStep, AckShutdownStep, CleanupStep
  <1>5. CASE UNCHANGED vars
    <2>1. TypeOK'  BY <1>5 DEF IInv, TypeOK, vars
    <2> QED BY <1>5, <2>1, Untouched DEF IInv, vars
  <1> QED BY <1>1, <1>2, <1>3, <1>4, <1>5 DEF Next

\* Every reachable state of the process satisfies the inductive invariant.
THEOREM Invariance == Spec => []IInv
  BY InitIInv, NextIInv, PTL DEF Spec

\* The variables keep the types the code gives them; in particular a runtime is
\* sent at most one Shutdown.
THEOREM TypeCorrect == Spec => []TypeOK
  <1>1. IInv => TypeOK  BY DEF IInv
  <1> QED BY <1>1, Invariance, PTL

\* There is one VM, and whatever is accepted, served or joined is the first
\* runtime, loaded and with its hooks run.
THEOREM TheFirstIsFinal == Spec => []FirstIsFinal
  <1>1. ASSUME IInv PROVE FirstIsFinal
    <2>1. vms =< 1 /\ (ruby # "none" <=> vms = 1)  BY <1>1 DEF IInv, Made
    <2>2. accepted # {} => cell = "ready" /\ accepted = active  BY <1>1 DEF IInv, Made
    <2>3. cell = "failed" => accepted = {} /\ filters = {} /\ envoy # "serving"
      BY <1>1 DEF IInv, Made, Loading
    <2>4. (envoy = "serving" /\ named) \/ filters # {} => ran = "ready" /\ accepted = active
      BY <1>1 DEF IInv, Made, Loading
    <2> QED BY <2>1, <2>2, <2>3, <2>4 DEF FirstIsFinal
  <1> QED BY <1>1, Invariance, PTL

\* The process exits with its VM gone, unless that did not stop in its time.
THEOREM NoVMIsLeftBehind == Spec => []NoVMLeftBehind
  <1>1. IInv => NoVMLeftBehind
    BY DEF IInv, TypeOK, Made, Loading, Stopping, NoVMLeftBehind
  <1> QED BY <1>1, Invariance, PTL
=============================================================================
