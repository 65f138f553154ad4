---------------------------- MODULE RunLifecycle ----------------------------
(***************************************************************************)
(* One run of `labops run` or `labops baseline capture` without --soak,    *)
(* from its lock to its exit code: ExecuteScenarioRunInternal of           *)
(* src/src/labops/cli/router.cpp, the reconnect policy                     *)
(* (backends/real_sdk/reconnect_policy.cpp) and the real backend's session *)
(* (real_backend.cpp, sdk_context.cpp, stream_session.cpp).  Runs follow   *)
(* each other, in one process or in several.                               *)
(*                                                                         *)
(* A process may be killed at any step; a write or a camera call may fail; *)
(* the device may be lost at any poll.  Time is counted in polls of the    *)
(* real backend's loop.                                                    *)
(***************************************************************************)
EXTENDS Integers

CONSTANTS
  Kinds,          \* backends a scenario may name: "sim", "webcam", "real"
  Duration,       \* polls the scenario asks for
  RetryLimit,     \* kReconnectRetryLimit
  SharedBundle,   \* runs write into one directory (baseline capture), else each
                  \* into its own
  CallsFail,      \* a call of the webcam or of the vendor's SDK may fail
  DeviceReturns,  \* a lost device can be connected again (else: the fixture's latch)
  MaxRuns         \* bound: runs

ASSUME LifecycleAssumption ==
  /\ Kinds \subseteq {"sim", "webcam", "real"}
  /\ Duration \in Nat \ {0}
  /\ RetryLimit \in Nat
  /\ {SharedBundle, CallsFail, DeviceReturns} \subseteq BOOLEAN
  /\ MaxRuns \in Nat

VARIABLES
  \* the process
  pc,      \* the next step; "idle": no run
  run,     \* RunExecutionContext
  camera,  \* ctx.backend
  guard,   \* ScopedNetemTeardown is armed
  signal,  \* g_run_interrupt_requested
  exit,    \* the exit code of the last run
  \* the host
  lock,    \* tmp/labops.lock
  netem,   \* the impairment on the interface
  device,  \* the webcam's device, as the process's descriptors have it
  lapses,  \* history: what a release that failed, or a kill, has left there
  bundle,  \* the artifacts, by the run that wrote them
  runs     \* runs so far; the newest one's name

host == <<lock, netem, device, lapses>>
vars == <<pc, run, camera, guard, signal, exit, host, bundle, runs>>

Endings == {"completed", "signal_interrupt", "device_disconnect"}

Run ==
  [kind : {"sim", "webcam", "real"}, netem : {"asked", "none"}, done : 0 .. Duration,
   used : 0 .. RetryLimit, ending : Endings, health : {"good", "failed"}]

\* health is a history variable: whether a write, or a camera call that is not an
\* attempt to reconnect, has failed.
NewRun(kind, impairment) ==
  [kind |-> kind, netem |-> impairment, done |-> 0, used |-> 0,
   ending |-> "completed", health |-> "good"]

Camera == SUBSET {"connected", "running", "latched", "sdk"}

\* No backend object, or one just built.
Released == {}

\* Of each artifact, the run that wrote it; 0: there is none.
Bundle ==
  [events : SUBSET (1 .. MaxRuns),
   stopped : [run : 0 .. MaxRuns, reason : Endings \cup {"none"}],
   runJson : 0 .. MaxRuns,
   metrics : [run : 0 .. MaxRuns, span : 0 .. Duration],
   manifest : 0 .. MaxRuns]

EmptyBundle ==
  [events |-> {}, stopped |-> [run |-> 0, reason |-> "none"], runJson |-> 0,
   metrics |-> [run |-> 0, span |-> 0], manifest |-> 0]

\* Backends whose runs take the single-run lock.
Locked == {"webcam", "real"}

Init ==
  /\ pc = "idle"
  /\ run = NewRun("sim", "none")
  /\ camera = Released
  /\ guard = "idle"
  /\ signal = FALSE
  /\ exit = "none"
  /\ lock = "free"
  /\ netem = "off"
  /\ device = "closed"
  /\ lapses = {}
  /\ bundle = EmptyBundle
  /\ runs = 0

-----------------------------------------------------------------------------
(***************************************************************************)
(* Camera calls: the cameras each may leave when it succeeds, and when it   *)
(* fails                                                                   *)
(***************************************************************************)

\* Beyond the calls a backend refuses by itself.
MayFail == CallsFail /\ run.kind # "sim"

ConnectRefused(c) == c \cap {"connected", "latched"} # {}

Connected(c) ==
  IF ConnectRefused(c) THEN {}
  ELSE {c \cup (IF run.kind = "real" THEN {"connected", "sdk"} ELSE {"connected"})}

NotConnected(c) == IF ConnectRefused(c) \/ MayFail THEN {c} ELSE {}

StartRefused(c) == "connected" \notin c \/ "running" \in c

Started(c) == IF StartRefused(c) THEN {} ELSE {c \cup {"running"}}

NotStarted(c) == IF StartRefused(c) \/ MayFail THEN {c} ELSE {}

\* A real backend may be stopped twice, the others not.
StopRefused(c) ==
  IF run.kind = "real" THEN "running" \in c /\ "connected" \notin c ELSE "running" \notin c

\* The webcam closes its device, too.
Stopped(c) ==
  IF StopRefused(c) THEN {}
  ELSE {c \ (IF run.kind = "webcam" THEN {"running", "connected"} ELSE {"running"})}

\* The webcam's flags are cleared even where its device could not be closed; whether
\* OpenCV's still is open is what it says of itself.
NotStopped(c) ==
  IF StopRefused(c) THEN {c}
  ELSE IF ~MayFail THEN {}
  ELSE IF run.kind = "real" THEN {c}
  ELSE {c \ {"running"}, c \ {"running", "connected"}}

\* What becomes of the device when a call opens it or closes it; a descriptor that an
\* earlier run lost stays open beside the run's own.
Opened == IF run.kind = "webcam" THEN "open" ELSE device
Shut == IF run.kind = "webcam" /\ "camera" \notin lapses THEN "closed" ELSE device

\* The device goes away during a pull: the stream is stopped as far as it can be,
\* and the connection is given up.
Detached(c) ==
  {(c \ ({"connected"} \cup ended)) \cup (IF DeviceReturns THEN {} ELSE {"latched"}) :
     ended \in IF MayFail THEN {{}, {"running"}} ELSE {{"running"}}}

-----------------------------------------------------------------------------
(***************************************************************************)
(* Leaving a run: the context's members are destroyed in reverse order     *)
(***************************************************************************)

Return(code) == pc' = "guard" /\ exit' = code

\* An error return while nothing streams.
Abort ==
  /\ Return("failure")
  /\ run' = [run EXCEPT !.health = "failed"]

\* An error return while the camera streams: StopBackendIfStreamStarted.
StopAndAbort ==
  /\ Abort
  /\ \/ camera' \in Stopped(camera) /\ device' = Shut
     \/ camera' \in NotStopped(camera) /\ device' \in {device, Shut}

\* A teardown command that fails is only warned of.
DestroyGuard ==
  /\ pc = "guard"
  /\ \/ /\ netem' = IF guard = "armed" THEN "off" ELSE netem
        /\ UNCHANGED lapses
     \/ /\ guard = "armed"
        /\ lapses' = lapses \cup {"impairment"}
        /\ UNCHANGED netem
  /\ guard' = "idle"
  /\ pc' = "release"
  /\ UNCHANGED <<run, camera, signal, exit, lock, device, bundle, runs>>

\* The object goes, and with it the SDK's handle; that its device could not be closed
\* is not even warned of.
DestroyBackend ==
  /\ pc = "release"
  /\ camera' = Released
  /\ \/ device' = Shut /\ UNCHANGED lapses
     \/ /\ MayFail /\ run.kind = "webcam" /\ device = "open"
        /\ lapses' = lapses \cup {"camera"}
        /\ UNCHANGED device
  /\ pc' = "unlock"
  /\ UNCHANGED <<run, guard, signal, exit, lock, netem, bundle, runs>>

\* Nor is a lock file that could not be removed.
DestroyLock ==
  /\ pc = "unlock"
  /\ \/ /\ lock' = IF lock = "held" THEN "free" ELSE lock
        /\ UNCHANGED lapses
     \/ /\ lock = "held" /\ lock' = "stale"
        /\ lapses' = lapses \cup {"lock"}
  /\ pc' = "idle"
  /\ UNCHANGED <<run, camera, guard, signal, exit, netem, device, bundle, runs>>

\* SIGKILL, or a signal where no handler is installed: nothing is destroyed; the
\* process's descriptors are closed.
Kill ==
  /\ pc # "idle"
  /\ pc' = "idle"
  /\ exit' = "killed"
  /\ camera' = Released
  /\ guard' = "idle"
  /\ signal' = FALSE
  /\ lock' = IF lock = "held" THEN "stale" ELSE lock
  /\ device' = "closed"
  /\ lapses' = (lapses \ {"camera"})
                 \cup (IF guard = "armed" THEN {"impairment"} ELSE {})
                 \cup (IF lock = "held" THEN {"lock"} ELSE {})
  /\ UNCHANGED <<run, netem, bundle, runs>>

-----------------------------------------------------------------------------
(***************************************************************************)
(* PrepareRunContext, InitializeArtifacts, ConfigureBackend                *)
(***************************************************************************)

\* In the process of the last run, or in one that has nothing open.
Begin(kind, impairment) ==
  /\ pc = "idle"
  /\ runs < MaxRuns
  /\ runs' = runs + 1
  /\ run' = NewRun(kind, impairment)
  /\ bundle' = IF SharedBundle THEN bundle ELSE EmptyBundle
  /\ exit' = "running"
  /\ pc' = "lock"
  /\ \/ UNCHANGED <<device, lapses>>
     \/ device' = "closed" /\ lapses' = lapses \ {"camera"}
  /\ UNCHANGED <<camera, guard, signal, lock, netem>>

TakeLock ==
  /\ pc = "lock"
  /\ \/ /\ run.kind \in Locked
        /\ lock' = "held"
        /\ lapses' = lapses \ {"lock"}
     \/ run.kind \notin Locked /\ UNCHANGED <<lock, lapses>>
  /\ pc' = "prepare"
  /\ UNCHANGED <<run, camera, guard, signal, exit, netem, device, bundle, runs>>

\* Another session has it, or the file cannot be written; the one that was there may
\* be gone by then, and a new one stay that nobody holds.
LockFails ==
  /\ pc = "lock"
  /\ run.kind \in Locked
  /\ \/ UNCHANGED <<lock, lapses>>
     \/ lock' = "free" /\ lapses' = lapses \ {"lock"}
     \/ lock' = "stale" /\ lapses' = lapses \cup {"lock"}
  /\ Abort
  /\ UNCHANGED <<camera, guard, signal, netem, device, bundle, runs>>

\* Device selection, scenario.json, hostprobe.json.
Prepare ==
  /\ pc = "prepare"
  /\ pc' = "configure"
  /\ UNCHANGED <<run, camera, guard, signal, exit, host, bundle, runs>>

WithEvent == [bundle EXCEPT !.events = @ \cup {runs}]

\* A real backend's parameters are applied, and its events written, before it connects.
Configure ==
  /\ pc = "configure"
  /\ bundle' = IF run.kind = "real" THEN WithEvent ELSE bundle
  /\ pc' = "connect"
  /\ UNCHANGED <<run, camera, guard, signal, exit, host, runs>>

Connect ==
  /\ pc = "connect"
  /\ camera' \in Connected(camera)
  /\ device' = Opened
  /\ pc' = "describe"
  /\ UNCHANGED <<run, guard, signal, exit, lock, netem, lapses, bundle, runs>>

\* run.json is written early; that it cannot be is only a warning.  A webcam that was
\* opened, and then not closed, is left to the destructor.
ConnectFails ==
  /\ pc = "connect"
  /\ camera' \in NotConnected(camera)
  /\ device' \in {device, Opened}
  /\ bundle' \in {bundle, [bundle EXCEPT !.runJson = runs]}
  /\ Return("connectFailed")
  /\ run' = [run EXCEPT !.health = "failed"]
  /\ UNCHANGED <<guard, signal, lock, netem, lapses, runs>>

\* The webcam's artifacts, the CONFIG_APPLIED event.
Describe ==
  /\ pc = "describe"
  /\ bundle' = WithEvent
  /\ pc' = "netem"
  /\ UNCHANGED <<run, camera, guard, signal, exit, host, runs>>

\* The command, for a run that asks for an impairment: it replaces whatever is there.
Impaired ==
  IF run.netem = "asked"
    THEN netem' = "on" /\ lapses' = lapses \ {"impairment"}
    ELSE UNCHANGED <<netem, lapses>>

\* Broken form: the guard is never armed.
ApplyUnguarded ==
  /\ pc = "netem"
  /\ Impaired
  /\ pc' = "start"
  /\ UNCHANGED <<run, camera, guard, signal, exit, lock, device, bundle, runs>>

\* The guard is armed only once the command has succeeded.
ApplyNetem ==
  /\ pc = "netem"
  /\ Impaired
  /\ guard' = IF run.netem = "asked" THEN "armed" ELSE "idle"
  /\ pc' = "start"
  /\ UNCHANGED <<run, camera, signal, exit, lock, device, bundle, runs>>

Start ==
  /\ pc = "start"
  /\ camera' \in Started(camera)
  /\ pc' = "announce"
  /\ UNCHANGED <<run, guard, signal, exit, host, bundle, runs>>

StartFails ==
  /\ pc = "start"
  /\ camera' \in NotStarted(camera)
  /\ Abort
  /\ UNCHANGED <<guard, signal, host, bundle, runs>>

\* The STREAM_STARTED event; then ScopedInterruptSignalHandler clears the flag.
Announce ==
  /\ pc = "announce"
  /\ bundle' = WithEvent
  /\ signal' = FALSE
  /\ pc' = "poll"
  /\ UNCHANGED <<run, camera, guard, exit, host, runs>>

\* A scenario, a device, a write or a command that stops the run before it streams;
\* "failure" stands for the codes of a wrong command line and of an invalid scenario,
\* too.
SetupFails ==
  /\ pc \in {"prepare", "configure", "describe", "netem"}
  /\ Abort
  /\ UNCHANGED <<camera, guard, signal, host, bundle, runs>>

-----------------------------------------------------------------------------
(***************************************************************************)
(* ExecuteStreaming                                                        *)
(***************************************************************************)

\* Only a real backend is polled; the others deliver the whole duration at once.
Span == IF run.kind = "real" THEN 1 ELSE Duration

\* The loop is left when nothing remains, or when the flag is seen before a pull.
Poll ==
  /\ pc = "poll"
  /\ \/ /\ run.done = Duration
        /\ pc' = "stop"
        /\ UNCHANGED run
     \/ /\ run.done < Duration
        /\ signal /\ run.kind = "real"
        /\ run' = [run EXCEPT !.ending = "signal_interrupt"]
        /\ pc' = "stop"
     \/ /\ run.done < Duration
        /\ ~(signal /\ run.kind = "real")
        /\ pc' = "pull"
        /\ UNCHANGED run
  /\ UNCHANGED <<camera, guard, signal, exit, host, bundle, runs>>

Pull ==
  /\ pc = "pull"
  /\ pc' = "emit"
  /\ UNCHANGED <<run, camera, guard, signal, exit, host, bundle, runs>>

\* The frames' events, then the chunk counts.
Emit ==
  /\ pc = "emit"
  /\ bundle' \in {bundle, WithEvent}
  /\ run' = [run EXCEPT !.done = @ + Span]
  /\ pc' = "poll"
  /\ UNCHANGED <<camera, guard, signal, exit, host, runs>>

\* A pull fails although the device is there, or an event cannot be written.
StreamFails ==
  /\ pc \in {"announce", "emit", "disconnect"} \/ (pc = "pull" /\ MayFail)
  /\ StopAndAbort
  /\ UNCHANGED <<guard, signal, lock, netem, lapses, bundle, runs>>

LoseDevice ==
  /\ pc = "pull"
  /\ run.kind = "real"
  /\ camera' \in Detached(camera)
  /\ run' = [run EXCEPT !.health = IF "running" \in camera' THEN "failed" ELSE @]
  /\ pc' = "disconnect"
  /\ UNCHANGED <<guard, signal, exit, host, bundle, runs>>

\* The DEVICE_DISCONNECTED event; the chunk that was lost does not count.
RecordDisconnect ==
  /\ pc = "disconnect"
  /\ bundle' = WithEvent
  /\ pc' = "reconnect"
  /\ UNCHANGED <<run, camera, guard, signal, exit, host, runs>>

\* Broken form: every disconnect starts with a budget of its own.
Uncounted == run.used

\* ++attempts_used_total, against one budget for the whole run
Counted == run.used + 1

\* Broken form: one attempt more than the budget.
ReconnectOnceMore ==
  /\ pc = "reconnect"
  /\ run.used <= RetryLimit
  /\ run' = [run EXCEPT !.used = Counted]
  /\ \/ camera' \in Connected(camera) /\ pc' = "restart"
     \/ camera' \in NotConnected(camera) /\ pc' = "reconnect"
  /\ UNCHANGED <<guard, signal, exit, host, bundle, runs>>

\* One attempt: Connect, then Start.
Reconnect ==
  /\ pc = "reconnect"
  /\ run.used < RetryLimit
  /\ run' = [run EXCEPT !.used = Counted]
  /\ \/ camera' \in Connected(camera) /\ pc' = "restart"
     \/ camera' \in NotConnected(camera) /\ pc' = "reconnect"
  /\ UNCHANGED <<guard, signal, exit, host, bundle, runs>>

\* A failed Start is followed by Stop, whose result nobody reads.
Restart ==
  /\ pc = "restart"
  /\ \/ /\ camera' \in Started(camera)
        /\ pc' = "poll"
     \/ /\ \E c \in NotStarted(camera) : camera' \in Stopped(c) \cup NotStopped(c)
        /\ pc' = "reconnect"
  /\ UNCHANGED <<run, guard, signal, exit, host, bundle, runs>>

GiveUpDevice ==
  /\ pc = "reconnect"
  /\ run.used = RetryLimit
  /\ run' = [run EXCEPT !.ending = "device_disconnect"]
  /\ pc' = "stop"
  /\ UNCHANGED <<camera, guard, signal, exit, host, bundle, runs>>

Stop ==
  /\ pc = "stop"
  /\ camera' \in Stopped(camera)
  /\ device' = Shut
  /\ pc' = "stopped"
  /\ UNCHANGED <<run, guard, signal, exit, lock, netem, lapses, bundle, runs>>

StopFails ==
  /\ pc = "stop"
  /\ camera' \in NotStopped(camera)
  /\ device' \in {device, Shut}
  /\ Abort
  /\ UNCHANGED <<guard, signal, lock, netem, lapses, bundle, runs>>

\* The STREAM_STOPPED event; the handler goes out of scope.
RecordStop ==
  /\ pc = "stopped"
  /\ bundle' = [WithEvent EXCEPT !.stopped = [run |-> runs, reason |-> run.ending]]
  /\ pc' = "runJson"
  /\ UNCHANGED <<run, camera, guard, signal, exit, host, runs>>

-----------------------------------------------------------------------------
(***************************************************************************)
(* FinalizeMetricsAndReports, EmitFinalConsoleSummary                      *)
(***************************************************************************)

WriteRunJson ==
  /\ pc = "runJson"
  /\ bundle' = [bundle EXCEPT !.runJson = runs]
  /\ pc' = "metrics"
  /\ UNCHANGED <<run, camera, guard, signal, exit, host, runs>>

\* Broken form: rates are taken over the duration that was asked for.
WholeSpan == Duration

\* The duration rates are computed over; for no whole poll it is a millisecond.
MetricsSpan == IF run.ending = "completed" THEN Duration ELSE run.done

WriteMetrics ==
  /\ pc = "metrics"
  /\ bundle' = [bundle EXCEPT !.metrics = [run |-> runs, span |-> MetricsSpan]]
  /\ pc' = "reports"
  /\ UNCHANGED <<run, camera, guard, signal, exit, host, runs>>

\* summary.md and report.html; transport anomalies add events.
WriteReports ==
  /\ pc = "reports"
  /\ bundle' \in {bundle, WithEvent}
  /\ pc' = "manifest"
  /\ UNCHANGED <<run, camera, guard, signal, exit, host, runs>>

WriteManifest ==
  /\ pc = "manifest"
  /\ bundle' = [bundle EXCEPT !.manifest = runs]
  /\ pc' = "verdict"
  /\ UNCHANGED <<run, camera, guard, signal, exit, host, runs>>

FinalizeFails ==
  /\ pc \in {"stopped", "runJson", "metrics", "reports", "manifest"}
  /\ Abort
  /\ UNCHANGED <<camera, guard, signal, host, bundle, runs>>

\* Broken form: the thresholds alone decide.
VerdictOfThresholds == {"success", "thresholdsFailed"}

\* EvaluateRunThresholds decides only for a run that got to its end.
Verdicts ==
  IF run.ending = "completed" THEN {"success", "thresholdsFailed"} ELSE {"failure"}

Conclude ==
  /\ pc = "verdict"
  /\ \E code \in Verdicts : Return(code)
  /\ UNCHANGED <<run, camera, guard, signal, host, bundle, runs>>

-----------------------------------------------------------------------------

\* From the construction of ScopedInterruptSignalHandler to its destruction.
Handled == {"poll", "pull", "emit", "disconnect", "reconnect", "restart", "stop", "stopped"}

RaiseSignal ==
  /\ pc \in Handled
  /\ signal' = TRUE
  /\ UNCHANGED <<pc, run, camera, guard, exit, host, bundle, runs>>

Setup ==
  \/ TakeLock \/ LockFails \/ Prepare \/ Configure \/ Connect \/ ConnectFails \/ Describe
  \/ ApplyNetem \/ Start \/ StartFails \/ Announce \/ SetupFails

Stream ==
  \/ Poll \/ Pull \/ Emit \/ StreamFails \/ LoseDevice \/ RecordDisconnect
  \/ Reconnect \/ Restart \/ GiveUpDevice \/ Stop \/ StopFails \/ RecordStop

Finalize ==
  \/ WriteRunJson \/ WriteMetrics \/ WriteReports \/ WriteManifest
  \/ FinalizeFails \/ Conclude

Teardown == DestroyGuard \/ DestroyBackend \/ DestroyLock

\* What the process of a run does.
Step == Setup \/ Stream \/ Finalize \/ Teardown

Next ==
  \/ \E kind \in Kinds, impairment \in {"asked", "none"} : Begin(kind, impairment)
  \/ Step
  \/ RaiseSignal \/ Kill

Spec == Init /\ [][Next]_vars

\* A run is sequential code on one thread, and no camera call blocks for ever.
FairSpec == Spec /\ WF_vars(Step)

-----------------------------------------------------------------------------
(***************************************************************************)
(* Properties                                                              *)
(***************************************************************************)

Stages ==
  Handled \cup {"idle", "lock", "prepare", "configure", "connect", "describe", "netem",
                "start", "announce", "runJson", "metrics", "reports", "manifest",
                "verdict", "guard", "release", "unlock"}

HostOK ==
  /\ lock \in {"free", "held", "stale"}
  /\ netem \in {"off", "on"}
  /\ device \in {"closed", "open"}
  /\ lapses \subseteq {"impairment", "camera", "lock"}

\* Every variable keeps its type; no run uses more attempts than its budget or
\* counts more time than it was asked for.
TypeOK ==
  /\ pc \in Stages
  /\ run \in Run
  /\ camera \in Camera
  /\ guard \in {"idle", "armed"}
  /\ signal \in BOOLEAN
  /\ exit \in {"none", "running", "success", "failure", "connectFailed",
               "thresholdsFailed", "killed"}
  /\ HostOK
  /\ bundle \in Bundle
  /\ runs \in 0 .. MaxRuns

\* However often the device was lost and found, and whatever a reconnect attempt
\* left behind, frames are pulled only from a connected camera that streams.
PullsFromStream == pc = "pull" => {"connected", "running"} \subseteq camera

\* The artifacts in the bundle are those of this run, with the stop reason its
\* context holds, and rates over the time it really collected.
Documented ==
  /\ runs \in bundle.events
  /\ bundle.stopped = [run |-> runs, reason |-> run.ending]
  /\ bundle.runJson = runs
  /\ bundle.metrics = [run |-> runs, span |-> run.done]
  /\ bundle.manifest = runs

\* Exit code 0, and the code of failed thresholds, are given only to runs that
\* collected the whole duration and left a complete bundle of their own, even in
\* a directory that holds an earlier run's.
ExitTellsTruth ==
  pc = "idle" /\ exit \in {"success", "thresholdsFailed"} =>
    run.done = Duration /\ run.ending = "completed" /\ Documented

\* A run that is interrupted, or that gives its device up after every attempt, still
\* ends with a complete bundle that says so, unless a write or a camera call failed,
\* too.
PartialRunDocumented ==
  pc = "idle" /\ exit # "killed" /\ run.ending # "completed" /\ run.health = "good" =>
    exit = "failure" /\ Documented /\ (run.ending = "device_disconnect" => run.used = RetryLimit)

\* What of a run is there for the next one to find.
Remains ==
  {what \in {"impairment", "camera", "lock"} :
     CASE what = "impairment" -> netem = "on"
       [] what = "camera" -> device = "open"
       [] what = "lock" -> lock # "free"}

\* Whatever way a run ends, it has tried to give back all it took.  What remains on
\* the host between runs is only what could not be given back: an impairment whose
\* own teardown command failed, a webcam that could not be closed, a lock file that
\* could not be removed or written, or what a kill left.  None of them keeps the
\* others from being released, and one that a later run takes over is that run's to
\* give back.
NothingLeaks ==
  pc = "idle" =>
    lock # "held" /\ camera = Released /\ guard = "idle" /\ Remains \subseteq lapses

\* A camera that needs the lock is open only while the lock is held, and the
\* impairment of its run is removed before the lock is given back.
LockOutlivesCamera ==
  /\ run.kind \in Locked /\ camera # Released => lock = "held"
  /\ run.kind \in Locked /\ guard = "armed" => lock = "held"

\* Every run ends: losing and finding a device cannot go on for ever.
EveryRunEnds == pc # "idle" ~> pc = "idle"

\* A real-backend run that is interrupted while it streams exits non-zero.
InterruptExitsNonZero ==
  pc = "idle" /\ run.kind = "real" /\ signal => exit # "success"
=============================================================================
