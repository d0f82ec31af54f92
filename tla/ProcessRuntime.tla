--------------------------- MODULE ProcessRuntime ---------------------------
(***************************************************************************)
(* The runtime of a process: how Envoy's main thread starts it for the     *)
(* bootstrap extension, hands it to filter configurations, and stops it in *)
(* the shutdown stage or, failing that, at exit; and the thread that owns  *)
(* the Ruby VM, from the loading of the application to its clean-up.       *)
(*                                                                         *)
(* What the runtime does while it serves is in Reactor.                    *)
(***************************************************************************)
EXTENDS Naturals, Sequences, FiniteSets

CONSTANTS
  Rackups,                    \* the rackup files there are
  MaxConfigs,                 \* bound: ruvoy entries in Envoy's bootstrap
  Filters                     \* filter configurations that may come in

ASSUME RackupsAssumption == "" \notin Rackups /\ "missing" \notin Rackups

ASSUME ConfigsAssumption == MaxConfigs \in Nat

VARIABLES
  envoy,                      \* the stage the process is in
  configs,                    \* the bootstrap entries Envoy has not loaded yet
  named,                      \* the bootstrap names the extension
  main,                       \* what the main thread waits for in a call of ours
  hook,                       \* PROCESS_SHUTDOWN_HOOK
  cell, active,               \* PROCESS_RUNTIME, and the settings it was made with
  slot,                       \* ProcessRuntime.runtime
  ruby,                       \* the Ruby thread
  vms,                        \* how often the VM was initialised
  ran,                        \* how far loading got: "none", "app", "ready"
  told, ack,                  \* Shutdown commands sent, and the reply to one
  result,                     \* of the last shutdown
  accepted, filters           \* the configurations that were accepted

envoyVars == <<envoy, configs, named, accepted, filters>>
cellVars == <<hook, cell, active, slot, told, result>>
rubyVars == <<ruby, vms, ran, ack>>
vars == <<envoyVars, cellVars, rubyVars, main>>

Settings ==
  [ rackup : Rackups \cup {"", "missing"}, max_inflight_requests : 0 .. 1,
    shutdown_timeout_ms : 0 .. 1, diagnostics : {FALSE} ]

Init ==
  /\ configs \in UNION {[1 .. n -> Settings] : n \in 0 .. MaxConfigs}
  /\ named = (configs # << >>)
  /\ envoy = "loading" /\ main = "idle"
  /\ hook = "none" /\ cell = "none" /\ active = {} /\ slot = "none"
  /\ ruby = "none" /\ vms = 0 /\ ran = "none"
  /\ told = 0 /\ ack = FALSE /\ result = "none"
  /\ accepted = {} /\ filters = {}

-----------------------------------------------------------------------------
(* The bootstrap extension. *)

\* RuntimeSettings::parse
Parses(s) ==
  s.rackup # "" /\ s.max_inflight_requests > 0 /\ s.shutdown_timeout_ms > 0

\* canonical_rackup
Resolves(s) == s.rackup \in Rackups

Refused == envoy' = "exiting" /\ UNCHANGED <<accepted, configs>>

\* Mutant of Conclude: whichever runtime there is, is joined.
ConcludeAny(s, c, a) ==
  IF c = "ready"
  THEN accepted' = accepted \cup {s} /\ configs' = Tail(configs) /\ UNCHANGED envoy
  ELSE Refused

\* ensure_compatible, and then ready: the end of `start`, and of the callback.
Conclude(s, c, a) ==
  IF c = "ready" /\ a = {s}
  THEN accepted' = accepted \cup {s} /\ configs' = Tail(configs) /\ UNCHANGED envoy
  ELSE Refused

\* new_bootstrap_extension_config_fn of settings that are no good, or whose
\* hook could not be registered, now or before.
BootstrapRefused ==
  /\ envoy = "loading" /\ main = "idle" /\ configs # << >>
  /\ \/ ~(Parses(Head(configs)) /\ Resolves(Head(configs))) /\ UNCHANGED hook
     \/ /\ Parses(Head(configs)) /\ Resolves(Head(configs)) /\ hook \in {"none", "failed"}
        /\ hook' = "failed"
  /\ Refused
  /\ UNCHANGED <<named, filters, cell, active, slot, told, result, rubyVars, main>>

\* Mutant of Registered: the hook is left for later.
RegisteredLater == hook \in {"none", "registered"} /\ UNCHANGED hook

\* register_process_shutdown_hook succeeds, now or before.
Registered == hook \in {"none", "registered"} /\ hook' = "registered"

\* get_or_init finds no runtime.
Empty == cell = "none"

\* `start`: the first settings make the runtime, and the main thread waits for
\* its readiness; or no thread could be had.
BootstrapStarts ==
  /\ envoy = "loading" /\ main = "idle" /\ configs # << >>
  /\ Parses(Head(configs)) /\ Resolves(Head(configs))
  /\ Empty /\ Registered
  /\ active' = {Head(configs)}
  /\ \/ /\ cell' = "loading" /\ main' = "ready" /\ ruby' = "app" /\ vms' = vms + 1
        /\ UNCHANGED <<envoy, accepted, configs>>
     \/ /\ cell' = "error"
        /\ Refused
        /\ UNCHANGED <<main, ruby, vms>>
  /\ UNCHANGED <<named, filters, slot, told, result, ran, ack>>

\* `start`, of a process that has a runtime.
BootstrapJoins ==
  /\ envoy = "loading" /\ main = "idle" /\ configs # << >>
  /\ Parses(Head(configs)) /\ Resolves(Head(configs))
  /\ ~Empty /\ Registered
  /\ Conclude(Head(configs), cell, active)
  /\ UNCHANGED <<named, filters, cell, active, slot, told, result, rubyVars, main>>

\* ProcessRuntime::start returns: a runtime that failed to load is kept.
StartReturns ==
  /\ main = "ready" /\ ruby \in {"serving", "retained", "leaked"}
  /\ main' = "idle"
  /\ slot' = "present"
  /\ cell' = IF ruby = "retained" THEN "failed" ELSE "ready"
  /\ Conclude(Head(configs), cell', active)
  /\ UNCHANGED <<named, filters, hook, active, told, result, rubyVars>>

\* Every entry was accepted: Envoy goes on to serve.
Serve ==
  /\ envoy = "loading" /\ main = "idle" /\ configs = << >>
  /\ envoy' = "serving"
  /\ UNCHANGED <<configs, named, accepted, filters, cellVars, rubyVars, main>>

-----------------------------------------------------------------------------
(* Filter configurations. *)

FilterConfigs ==
  [ rackup : BOOLEAN, clusters : 0 .. 1, timeout_ms : 0 .. 1, max_response_bytes : 0 .. 1,
    stream_buffer_bytes : 0 .. 1 ]

\* FilterConfig::parse
FilterParses(c) == ~c.rackup

\* UpstreamConfig::into_settings
IntoSettings(c) ==
  c.clusters > 0 /\ c.timeout_ms > 0 /\ c.max_response_bytes > 0 /\ c.stream_buffer_bytes > 0

\* ready
Ready == cell = "ready"

\* FiberRackConfig::start: a filter joins a runtime and never starts one.
FilterJoins(f) ==
  /\ envoy \in {"loading", "serving", "draining", "stopping"} /\ main = "idle" /\ f \notin filters
  /\ \E c \in FilterConfigs : FilterParses(c) /\ IntoSettings(c)
  /\ Ready
  /\ filters' = filters \cup {f}
  /\ UNCHANGED <<envoy, configs, named, accepted, cellVars, rubyVars, main>>

-----------------------------------------------------------------------------
(* The main thread while Envoy serves, and at the end. *)

\* on_admin_request: the main thread waits for Ruby, which answers ...
OnAdminRequest ==
  /\ envoy \in {"serving", "draining"} /\ main = "idle" /\ accepted # {}
  /\ main' = "admin"
  /\ UNCHANGED <<envoyVars, cellVars, rubyVars>>

AdminAnswered ==
  /\ main = "admin" /\ ruby = "serving"
  /\ main' = "idle"
  /\ UNCHANGED <<envoyVars, cellVars, rubyVars>>

\* ... or does not, within ADMIN_TIMEOUT.
AdminTimesOut ==
  /\ main = "admin"
  /\ main' = "idle"
  /\ UNCHANGED <<envoyVars, cellVars, rubyVars>>

\* on_drain_started
OnDrainStarted ==
  /\ envoy = "serving" /\ main = "idle"
  /\ envoy' = "draining"
  /\ UNCHANGED <<configs, named, accepted, filters, cellVars, rubyVars, main>>

\* ProcessRuntime::shutdown takes the runtime, once, and sends it a Shutdown.
TakesRuntime ==
  /\ slot = "present" /\ slot' = "taken"
  /\ told' = told + 1 /\ main' = "ack"
  /\ UNCHANGED result

NoRuntime == slot # "present" /\ UNCHANGED <<slot, told, main, result>>

\* on_shutdown
OnShutdown ==
  /\ envoy \in {"serving", "draining"} /\ main = "idle" /\ accepted # {}
  /\ envoy' = "stopping"
  /\ TakesRuntime \/ NoRuntime
  /\ UNCHANGED <<configs, named, accepted, filters, hook, cell, active, rubyVars>>

\* The reply in time: then the thread is joined, for as long as it takes.
ShutdownAcked ==
  /\ main = "ack" /\ ack
  /\ main' = "join"
  /\ UNCHANGED <<envoyVars, cellVars, rubyVars>>

\* Mutant of ShutdownTimesOut: the wait ends with the thread only.
ShutdownWaits ==
  /\ main = "ack" /\ ~ack /\ ruby \in {"gone", "leaked"}
  /\ main' = "idle" /\ result' = "timeout"
  /\ UNCHANGED <<envoyVars, hook, cell, active, slot, told, rubyVars>>

\* No reply within shutdown_timeout: the thread is left to itself.
ShutdownTimesOut ==
  /\ main = "ack" /\ ~ack
  /\ main' = "idle" /\ result' = "timeout"
  /\ UNCHANGED <<envoyVars, hook, cell, active, slot, told, rubyVars>>

\* What the thread returned is what shutdown answers: the error of an application
\* that failed to load, or of a reactor that failed.
Joined ==
  /\ main = "join" /\ ruby \in {"gone", "leaked"}
  /\ main' = "idle"
  /\ result' = IF ruby = "leaked" \/ cell = "failed" THEN "error" ELSE "stopped"
  /\ UNCHANGED <<envoyVars, hook, cell, active, slot, told, rubyVars>>

\* The process leaves, with or without the shutdown stage.
Leave ==
  /\ envoy \in {"serving", "draining", "stopping"} /\ main = "idle"
  /\ envoy' = "exiting"
  /\ UNCHANGED <<configs, named, accepted, filters, cellVars, rubyVars, main>>

\* atexit: shutdown_process_runtime, if it was registered.
AtExit ==
  /\ envoy = "exiting" /\ main = "idle"
  /\ envoy' = "atexit"
  /\ IF hook = "registered" THEN TakesRuntime \/ NoRuntime
                            ELSE UNCHANGED <<slot, told, main, result>>
  /\ UNCHANGED <<configs, named, accepted, filters, hook, cell, active, rubyVars>>

Exited ==
  /\ envoy = "atexit" /\ main = "idle"
  /\ envoy' = "exited"
  /\ UNCHANGED <<configs, named, accepted, filters, cellVars, rubyVars, main>>

-----------------------------------------------------------------------------
(* The Ruby thread. *)

Alive == envoy # "exited"

\* prepare_fiber_runtime: the libraries and the application, then the hooks.
LoadApp ==
  /\ Alive /\ ruby = "app"
  /\ \/ ruby' = "hooks" /\ ran' = "app"
     \/ ruby' = "retained" /\ UNCHANGED ran
  /\ UNCHANGED <<envoyVars, cellVars, vms, ack, main>>

\* run_before_ready, then readiness is reported and the reactor runs.
RunBeforeReady ==
  /\ Alive /\ ruby = "hooks"
  /\ \/ ruby' = "serving" /\ ran' = "ready"
     \/ ruby' = "retained" /\ UNCHANGED ran
  /\ UNCHANGED <<envoyVars, cellVars, vms, ack, main>>

\* The reactor ends with an error, and the VM is leaked; a Shutdown it had
\* received is replied to on the way out.
ReactorFails ==
  /\ Alive /\ ruby = "serving"
  /\ ruby' = "leaked" /\ ack' \in {FALSE, told > 0}
  /\ UNCHANGED <<envoyVars, cellVars, vms, ran, main>>

\* A Shutdown is received and replied to: by the reactor when its fibers have
\* ended, by a retained runtime at once.
AckShutdown ==
  /\ Alive /\ ruby \in {"serving", "retained"} /\ told > 0
  /\ ack' = TRUE /\ ruby' = "cleanup"
  /\ UNCHANGED <<envoyVars, cellVars, vms, ran, main>>

\* fiber_runtime_main returns: the VM is torn down, with the application's own
\* exit handlers.
Cleanup ==
  /\ Alive /\ ruby = "cleanup"
  /\ ruby' = "gone"
  /\ UNCHANGED <<envoyVars, cellVars, vms, ran, ack, main>>

-----------------------------------------------------------------------------

MainStep ==
  \/ AdminAnswered \/ AdminTimesOut \/ ShutdownAcked \/ ShutdownTimesOut \/ Joined
  \/ AtExit \/ Exited

Next ==
  \/ BootstrapRefused \/ BootstrapStarts \/ BootstrapJoins \/ StartReturns \/ Serve
  \/ (\E f \in Filters : FilterJoins(f))
  \/ OnAdminRequest \/ OnDrainStarted \/ OnShutdown \/ Leave \/ MainStep
  \/ LoadApp \/ RunBeforeReady \/ ReactorFails \/ AckShutdown \/ Cleanup

Spec == Init /\ [][Next]_vars

\* The main thread goes on and its timeouts strike.  Nothing is counted on of
\* the application: it may never answer ...
BoundedSpec == Spec /\ WF_vars(MainStep)

\* ... except that, once the reactor has replied, the VM comes to its end.
FairSpec == BoundedSpec /\ WF_vars(Cleanup)

-----------------------------------------------------------------------------
(* Properties. *)

\* Every variable has the type the code gives it.
TypeOK ==
  /\ envoy \in {"loading", "serving", "draining", "stopping", "exiting", "atexit", "exited"}
  /\ configs \in Seq(Settings) /\ named \in BOOLEAN
  /\ main \in {"idle", "ready", "admin", "ack", "join"}
  /\ hook \in {"none", "registered", "failed"}
  /\ cell \in {"none", "loading", "error", "failed", "ready"} /\ active \subseteq Settings
  /\ slot \in {"none", "present", "taken"}
  /\ ruby \in {"none", "app", "hooks", "retained", "serving", "leaked", "cleanup", "gone"}
  /\ vms \in Nat /\ ran \in {"none", "app", "ready"} /\ told \in 0 .. 1 /\ ack \in BOOLEAN
  /\ result \in {"none", "stopped", "error", "timeout"}
  /\ accepted \subseteq Settings /\ filters \subseteq Filters

\* The first runtime is final: no configuration is accepted but its own, and
\* none at all once it failed to load; the VM is created once, whatever is
\* configured again; and Envoy serves, or a filter has a client, only after the
\* application was loaded and its before_ready hooks have run.
FirstIsFinal ==
  /\ vms =< 1 /\ (ruby # "none" <=> vms = 1)
  /\ accepted # {} => cell = "ready" /\ accepted = active
  /\ cell = "failed" => accepted = {} /\ filters = {} /\ envoy # "serving"
  /\ (envoy = "serving" /\ named) \/ filters # {} => ran = "ready" /\ accepted = active

\* The process does not exit under a VM that runs, though it failed to load,
\* or the shutdown stage was left out: unless it did not stop in its time.  One of
\* the shutdown stage and the exit handler stops it; it is gone when that says so, and
\* out of the way when that answers with the error the thread ended with.
NoVMLeftBehind ==
  /\ main \in {"ack", "join"} \/ result # "none" => told = 1 /\ slot = "taken"
  /\ result = "stopped" => ruby = "gone" /\ cell = "ready"
  /\ result = "error" => ruby \in {"gone", "leaked"}
  /\ envoy = "exited" => ruby \in {"none", "gone", "leaked"} \/ result = "timeout"

\* However stuck the application is, Envoy's main thread comes back from an
\* admin request (FiberRuntimeClient::admin waits admin_timeout_ms at most), and
\* a process that is to exit comes to its end, acknowledged or not, once the
\* clean-up of the VM ends (shutdown_inner joins only after an acknowledgement).
MainReturns ==
  /\ main = "admin" ~> main = "idle"
  /\ envoy = "exiting" ~> envoy = "exited"

\* Claimed by "with a bounded wait".
ShutdownIsBounded == main = "ack" ~> main = "idle"
=============================================================================
