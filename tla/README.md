# LabOps in TLA+

LabOps (C++17, `src/src/`) runs camera experiments from the command line: it
opens a camera (simulated, USB webcam, or a vendor SDK), streams for a fixed
time, optionally with a network impairment on the interface, and leaves a
*bundle* of artifacts: events, metrics, run contract, manifest. Long *soak* runs
checkpoint themselves and can be paused and resumed. An agent repeats runs with
changed parameters to isolate a fault.

This directory holds the specifications kept beside that code: TLA+ modules,
configurations for TLC, and proofs for TLAPS. Paths below are relative to
`src/src/` unless they begin with `src/`; line numbers are in `PROJECT.json`,
which maps each definition to the lines it stands for.

## 1. Inventory

| component (source) | state it keeps | operations | what is hard about it | what makes it correct |
|---|---|---|---|---|
| Soak run (`labops/cli/router.cpp` ExecuteStreaming and its neighbours, `labops/soak/checkpoint_store.cpp`) | checkpoint state in memory; `soak_checkpoint.json`, `checkpoints/checkpoint_<n>.json`, `soak_frames.jsonl`, `events.jsonl`, metrics and manifest on disk | begin, resume, pull a chunk, append events and cache, publish a checkpoint, pause, complete | a death between any two writes, or inside one; torn lines; a signal at any step; a stale checkpoint given to `--resume` | no checkpoint claims frames the cache lost; metrics seal exactly the cache; a run that goes on never goes back; a reported pause can be resumed |
| Atomic writes (`core/fs_utils.hpp`) | a temporary file beside each target | write, rename, or remove and rename | any failed rename removes the old file; a death or a second failure follows | one of two checkpoint files survives |
| Single-run lock (`router.cpp` ScopedSingleRunLock) | `tmp/labops.lock` with a pid | acquire (six system calls), release | sessions that overlap at every call; dead, reused and own pids; a release that fails; a file that cannot be read | mutual exclusion; nobody takes a lock away from its holder |
| Run lifecycle (`router.cpp` PrepareRunContext .. EmitFinalConsoleSummary) | run context, scope guards, exit code, bundle | set-up, poll loop, finalisation, teardown in destructor order | errors at every stage; Ctrl+C; device loss; death | exit code and bundle agree; nothing is leaked but what could not be given back; every run ends |
| Reconnect policy (`backends/real_sdk/reconnect_policy.cpp`) | attempts used | attempt = Connect, Start, (Stop) | the device comes and goes; Start fails after Connect worked | the budget is never exceeded; nothing is pulled from a dead stream |
| Real backend (`backends/real_sdk/real_backend.cpp`, `sdk_context.cpp`, `stream_session.cpp`, `frame_provider.cpp`) | connected, running, disconnect latch; process-wide SDK reference count | Connect, Start, Stop, PullFrames | balance of the reference count on error paths | initialised iff somebody uses it |
| Parameter application (`backends/real_sdk/apply_params.cpp`, `param_key_map.cpp`, `node_map_adapter.cpp`) | node map | strict and best-effort apply, clamp, read back | partial application in strict mode | the applied, adjusted and unsupported rows partition the request |
| Webcam session (`backends/webcam/webcam_backend.cpp`, `opencv_webcam_impl.cpp`) | connected, running, native or OpenCV | Connect, Start, Stop, PullFrames | flags and device disagree after a failed close | a stopped session can be connected again |
| V4L2 device (`backends/webcam/linux/v4l2_capture_device.cpp`) | fd, mapped buffers, queue, streaming flag | Open, ApplyRequestedFormat, StartMmapStreaming, PullFrames, StopStreaming, Close | each ioctl may fail half way; a requeue that fails discards frames | there is a stream with all its buffers or none of it; a closed device is free; no frame id is used twice |
| Simulated camera (`backends/sim/`) | frame counter, parameters | PullFrames with jitter, drops, reordering, disconnect | frame ids across chunks of a soak run; rounding per pull | ids are unique and in order up to the reorder window |
| Scenario documents (`scenarios/validator.cpp`, `scenarios/model.cpp`, `router.cpp` LoadRunPlanFromScenario) | none | validate; parse and load a run plan | two parsers of one format, of different strictness | what validates is run as written |
| Agent (`agent/experiment_runner.cpp`, `variant_generator.cpp`, `stop_conditions.cpp`, `experiment_state.cpp`, `playbook.cpp`, `engineer_packet_writer.cpp`) | variant files and manifest, experiment results so far | generate variants, baseline, variant, evaluate stop conditions, write the packet | a generation that fails half way over an earlier one; a stop condition that misses or invents a flip; contradictory runs | the manifest tells what the files are; it stops only for a reason that holds, and its packet agrees |
| Metrics and diff (`metrics/`, `artifacts/metrics_diff_writer.cpp`) | none | rolling fps, percentiles, anomalies, comparison of two runs | window boundaries, empty input, files with different metrics | agree with a reference definition |
| Events, manifest, archive (`events/`, `artifacts/bundle_*`) | append-only log; hashes | append, hash, zip | artifacts that change after they were hashed | the manifest is current when success is reported |
| Report writers, host probe, JSON, logging, device enumeration | none beyond their output | pure functions of a finished result, or parsers of external text | little | out of scope, see section 7 |

How they interact: the *run lifecycle* owns everything. It takes the lock, builds
the backend, arms the netem guard and calls the backend synchronously; there is
no thread besides the main one. The only asynchronous input is the signal handler
(`HandleInterruptSignal`), which sets one flag. A soak run replaces the poll loop
by the checkpoint loop and shares set-up and finalisation. Processes meet only
through files: the lock, the bundle, the checkpoint. The agent calls the lifecycle
in-process, twice. The process-external actors are the operator (signals, stop
file, `--resume`, `kill -9`), the device, and the file system.

The hazards (steps that tests hardly reach) are listed with their lines in
`PROJECT.json`, `hazards`.

## 2. Modules

| module | what it is |
|---|---|
| `EvidenceLedger` | abstract specification: what a soak bundle promises about its evidence |
| `SoakRun` | the checkpointed run over all its processes; implements `EvidenceLedger` |
| `MCSoakRun` | claims of the documentation, and the instances for TLC |
| `SoakRunProofs` | theorems about `SoakRun` |
| `Arrangement`, `DataLemmas` | finite sets in an order, sorted and filtered sequences; the lemmas about them, with induction over natural numbers and recursive functions |
| `RunLock`, `MCRunLock`, `RunLockProofs` | the lock, one system call per step |
| `RunLifecycle`, `MCRunLifecycle`, `RunLifecycleProofs` | ordinary runs, lock to exit code, with the reconnect policy and the backend sessions |
| `V4l2Device` | the capture device and its driver, one system call per step |
| `WebcamSession`, `MCWebcamSession`, `WebcamSessionProofs` | the webcam backend over that device and over OpenCV; a claim and the instances for TLC; the theorems about both |
| `CaptureTime` | the units of time the next modules share |
| `SimCamera` | the simulated camera: which frames a pull delivers |
| `SdkContext`, `RealCamera` | the reference count of the vendor SDK; the real camera's connection and frames |
| `ParamApply` | parameters applied to the node map of a real camera |
| `FrameMetrics` | the report, the thresholds and the highlights of a run, as functions of its frames |
| `FrameEvidence`, `MCFrameEvidence` | runs over either camera, frame by frame, composed of the five modules above; instances |
| `FrameEvidenceProofs`, `FrameScheduleProofs` | theorems about the SDK, applied parameters, types and the order of the evidence; about the schedule, the ids and the report |
| `Scenario` | documents, as the validator, the parser and the loader read them |
| `VariantGenerator` | the variant of a document for each knob, and its row in the manifest |
| `StopConditions`, `EngineerPacket`, `MetricsDiff` | when the agent stops; what it reports; how it compares two runs |
| `AgentSession`, `MCAgentSession`, `AgentSessionProofs` | a triage session, composed of the five modules above; its documents and instances; theorems about the two parsers, the variants, the stops, the packets and the comparisons |

### SoakRun

A *tick* is a unit of run time, frames are counted and not named, and the files are
what a later process could read from them. `pc` names the next write of the one
process that may be alive; `ctx` is `RunExecutionContext` and the loop's checkpoint
state, and vanishes with the process. `lines` and `tail` are `soak_frames.jsonl`:
how many frames are on whole lines, and whether the file ends with
a finished line, an unfinished one that parses, or one that does not. `Reloaded` is what `LoadFrameCache` returns:
all of them, or nothing from a file with a line it cannot parse, whose `--resume` is refused (`CacheLoads`). `marks`
counts the events other than FRAME events. `manifest` is a copy of the artifacts
taken when they were hashed, so that `manifest = Artifacts` says the hashes match.

One action per write: `PullChunk`, `EmitFrameEvents`, `AppendFrameCache`,
`CheckpointLatest`, `CheckpointHistory`, `Boundary`, then either the pause
(`PauseLatest`, `PauseHistory`, `PauseStop`, `PauseManifest`) or the completion
(`FinalLatest`, `FinalHistory`, `StopStream`, `WriteMetrics`, `WriteManifest`).
Publishing is `WriteTextFileAtomic`: one rename, or after one that failed `RemoveLatest`/`RemoveHistory` and
another. The first rename fails always where rename does not overwrite, else by a fault; where the second one fails as well
(`PublishRefused`) the file is gone and the run has failed. `Die`, `EmitCutShort` and `AppendCutShort` are
deaths and failed writes; `EmitLostOnClose`, `AppendLostOnClose` and the corrupt
case of `Published` are writes whose buffer is lost at `close`, which the code does
not test. `Resume` applies the checks of `--resume` (`CanResume`) and takes its frames
from the cache and everything else from the checkpoint (`ResumedFrom`).

### RunLock

Each process has a program counter over the system calls of `Acquire` (exists,
read, `kill(pid, 0)`, remove, open with truncation, write) and `Release`. A path
that is removed while another process has the file open leaves that stream
writing to nobody (`linked`). `strangers` are pids that programs other than
labops hold. `world`, one of `Worlds`, says how hostile a behaviour is: whether sessions take turns at
`Acquire`, whether pids are given out again, whether the file may be impossible to remove, whether one that exists may be
impossible to read: `ReadFails` then reads no text, and the file is taken for a stale one.

### RunLifecycle

Runs follow each other; each takes the stages of `ExecuteScenarioRunInternal` in
order. The bundle records *which run* wrote each artifact, so that a directory
shared by several baseline captures can show a stale mixture. Time is in polls
of the real backend's loop; the simulator and the webcam deliver the whole
duration in one pull (`Span`). The camera is the set of facts that hold of the
backend object, `{"connected", "running", "latched", "sdk"}`, and each call is given
as the set of cameras it may leave on success and on failure (`Connected`,
`NotConnected`, ...). `device` is the webcam's device itself, which may stay open
where the backend has cleared its flags. `lapses` is a history of what could not be given back: the impairment whose teardown command
failed (which is only logged), the webcam that could not be closed, the lock file that could not be removed or written,
and what a kill left of the three; a later run that takes the thing over takes its entry away. Teardown is three steps in the reverse order of the
declaration of the context's members: guard, backend, lock.

`run.health` is a history variable; no guard reads it.

### V4l2Device and WebcamSession

`V4l2Device` is the object (`dev`) and what the kernel's driver knows (`kernel`, external:
only what the object's calls require of it). A method is entered by a `Call...` operator, goes through
one action per system call, and leaves its result in `ok` at `pc = "ready"`. Every call may fail, `close` and
`munmap` too; `faults` is a history of the calls that failed to give something back, and begins anew when
an open finds the driver idle. A driver that has no descriptor and no mapping left forgets the stream (`Settled`).
`Negotiated` is `ApplyRequestedFormatBestEffort` in one step: the driver may answer every request with
another value, and S_FMT may change the frame rate. Width and height go through the same calls as the pixel format and are left out.
`StartMmapStreaming` calls `StopStreaming` first if it finds buffers; `StreamBacked` shows that it never does, and
`CallStart` leaves that branch out.

`WebcamSession` extends it with the backend: `session` is its three flags, `at` the method that waits for the device.
`Connect` goes from the native path to OpenCV where the device cannot stream; `Stop` stops, closes and clears
the flags whatever the two returned. `Destroy` to `Destroyed` are the destructors of the backend, which tears a native session
down, and of its device, which closes once more; a new backend follows on the same camera, whose driver may still be busy.
Where a native device turns out to be unable to stream, the rows of its configuration become `stale`: they precede those of
OpenCV in `readback_rows_` until the next `Connect`, and `config_verify.json` has both. OpenCV is external: open or not, and in `OpenCvNegotiated` the order in which it sets and reads back.
The caller may make any call in any order, as the lifecycle and the reconnect policy do. The actions keep
what those callers do not: a second `Start` without `Stop` and calls without a session return errors
that change no state, and are not actions.

### FrameEvidence

`SoakRun` counts frames; `FrameEvidence` names them: an id, a time stamp, a size and an outcome. A run begins on a simulated
or a real camera, applies its parameters one at a time (`ApplyParam`, `ParamUnsupported`), pulls a chunk, appends its frames one
by one (`AppendFrame`: ids shifted by the last frame's, stamps moved after the newest), and measures what it has. Soak runs pause at
checkpoints and are resumed by another process, with another clock, whose frames are what the frame cache kept of them (`Reloaded`): that a frame was
lost, not how, so that timeouts and incomplete frames come back as drops. `logged` counts the frame events of the present process by outcome. `SimCamera!Delivered` is `PullFrames`: the truncated count,
drops by number, by percentage and in bursts, jitter, and windows that are reordered; its three hashes of seed and frame number
are parameters. `RealCamera` is the provider of the shipped build, whose frames are computed and not read from a device. `SdkContext` counts by the
set of handles that hold a reference, and has acquire, release, copy, move and destroy as the header declares them.

`ParamApply` sees a request as key, kind and value; a node as a type, a range or a set of words, and a value. `Prepared`
clamps or looks up, `BackendValue` is what `SetParam` is given, and rows are those of `config_verify.json`. `verified` and `told` are
what the run wrote of them: they stay for the refused run and the one whose events cannot be appended.

### AgentSession

A document is a function from paths to values; `Issues` is the validator, `Refusals` the loader, `Planned` what the run
uses at each path. Values come in kinds (`Num`, `Half`, `Fine`, `Str`, `Selector`, `List`, ...), as many as the three readers tell apart.
Widths of integers are constants of which only the order matters, so that 2^32 can be 20,000.

`AgentSession` generates variants one file at a time (`WriteVariant`, `WriteManifest`, either of which may fail), lets the user edit
the base and generate again, runs each experiment as `ExperimentRunner` does (baseline, then variant, with any exit code), compares the
two metrics files, records an attempt, decides, and writes the packet. The library's parts are called by a driver: the one of
`src/tests/agent/agent_triage_integration_smoke.cpp`, generalised to several hypotheses, repeated knobs, any stop configuration and inconclusive runs. Its results table is
made from the attempts (`Table`), so that a row and its attempt cannot disagree.

## 3. Runs

| run | instance | shows |
|---|---|---|
| `soak_crash` | 3 ticks, intervals 1 and 2, 1 frame a tick, 2 faults (deaths, failed writes, failed renames), 3 resumptions | durability, order, seal, manifest, pause, the refinement of `EvidenceLedger`, and that every process ends |
| `soak_fallback` | 2 ticks, every kind of fault, remove+rename, any checkpoint resumed | one fault never destroys both checkpoint files |
| `soak_claim_rate` | 1 death, 1 resumption | *violated*: a resumed run may claim more frames than its time can yield |
| `soak_claim_pause` | no fault | *violated*: a stop before the first frame fails the run |
| `lock` | 3 sessions of one directory in 16 worlds: taking turns or overlapping, with and without reused pids, failed releases and files that cannot be read; deaths anywhere | mutual exclusion where sessions take turns and can read the file, no session blocks itself, a settled holder keeps its lock unless another session cannot read it |
| `lock_claim_overlap` | 2 sessions | *violated*: two sessions started together both take the lock |
| `lifecycle` | 2 runs of any backend into one directory, 3 polls, 3 attempts, faults and loss anywhere | exit codes tell the truth, partial runs are documented, only what a failed release or a kill left remains, every run ends |
| `lifecycle_claim_interrupt` | 1 real-backend run, nothing fails | *violated*: an interrupt during the last poll is forgotten |
| `webcam` | 2 buffers, 2 polls a pull, 2 frames a session, 2 descriptors, every call may fail, with and without OpenCV | no half-made stream, buffers given back in order, a closed device is free, flags match the device, `config_verify.json` tells the truth |
| `webcam_claim_reconnect` | one of each, a streaming device, without OpenCV | *violated*: after a Stop whose close failed, the device cannot be opened again |
| `frames` | seconds of 10 ms of 10 us, 1 to 4 frames a second, up to 4 seconds in one pull or chunks of 7 or 15 ms, 2 processes, clocks that step back, every knob of the simulator, 7 nodes and key maps of every kind | the evidence is in time order and on schedule, ids are distinct, the report counts it as far as the frame cache tells, quiet means passed, strict runs stream as asked, what was read back is what is set, the SDK is given back |
| `agent` | 3 documents with each of 37 kinds of value at every path, pairs of fields that are read together, device selectors of one and two clauses; sessions of 4 experiments over one document and a revision of it, 5 stop configurations, 6 metrics files | what validates is run as written, variants stay valid and are told truly, the stop is justified, the packet agrees with it, comparisons account for every metric |

**Why the bounds are enough.** Three ticks with intervals 1 and 2 give a first
chunk, a middle one and a short last one, and a resumption that changes the
interval; two faults give a fault during the recovery from a fault; three resumptions give
death, pause and a further resumption in one behaviour. The lock's two-party races need
two sessions, and a third that interferes with both; no step looks at another directory than
its session's (`Cwd`), so that one is enough. Two runs in one directory
give every mixture of a run with its predecessor; with three polls and the budget
of three, the device can be lost, found and lost again. Two buffers tell the first, the last and a middle state of every
buffer loop; two polls give a pull that fails with a frame in hand; two descriptors give a leaked one beside a live one;
one mapping may be lost, since the driver's reaction is the same to more. Sessions are not bounded.
In `frames` a chunk of 7 ms is less than a frame at some rates and more at others, so that chunks are empty, cut and whole; windows of 2 and 3 frames meet chunks
of fewer; samples enough for the heuristics are 3 and 4 instead of 10 and 20. In `agent` a defect of the two parsers needs one field of a wrong kind or two that
are read together. What a failed generation leaves behind does not depend on the document: the constraint `Repeated` lets it be repeated over the documents of
sessions only. Nor do stops depend on more of a document than whether a knob can move it, which two documents show; four experiments give a knob that fails, passes and is repeated beside another one that fails, and windows of 2 and 4 results. Properties that are proved (section 5)
do not depend on these bounds.

**Deadlock** is checked in the soak configurations (a stop file can always be toggled)
in `webcam` (sessions and backends follow each other for ever) and in `frames` (`Finished`). It is off in the lock runs, where every session may
be gone, in the lifecycle runs, where `MaxRuns` runs have been made, and in `agent`, where a session ends.

**Fairness.** `FairSpec` adds `WF_vars(Step)` in `SoakRun` and `RunLifecycle`: a run
is sequential code on one thread and at every stage either takes its next step
or an error return; none of its loops waits for anybody. This includes that
camera calls return. Nothing is assumed of operators, signals, devices or faults. In
`EveryRunEnds` the retry of a lost chunk makes termination depend on the
attempt budget that all disconnects of a run share; `EventuallyRests` depends on every chunk
making progress.

## 4. What the violated claims say

Each is a statement of the repository that the code does not keep.

* `ResumeKeepsRate`: the chunk reaches the frame cache before the checkpoint that counts
  its time (`router.cpp:3390`, `3411`), and `--resume` loads the whole cache
  (`2788`). A process killed in between pulls the same time again; its frames
  count twice and `avg_fps` is inflated. `ProjectDesc.md:49` promises deterministic resume.
* `NoFailureWithoutFault`: a pause before the first frame fails, since its manifest
  requires a cache file that only a non-empty chunk creates (`3496`, `3389`).
* `Exclusive`: two sessions that both find a stale (or
  no) lock both create it; the file is not opened exclusively.
* `InterruptExitsNonZero`: the flag is looked at only at the head of the poll loop
  (`3199`); `labops/README.md:78-82` promises a non-zero exit.
* `CanReconnect`: `webcam_backend.cpp:551-552` clears the flags after every Stop "so a follow-up run can
  reconnect even when teardown returns an error", but `V4l2CaptureDevice::Close` keeps its descriptor where `close` fails
  (`v4l2_capture_device.cpp:271-287`), and the next `Open` is refused (`187`). With OpenCV the session falls back to it.

Seen while reading the code and modelling, without a run of their own:

* An append is tested before its stream is closed (`checkpoint_store.cpp:429`), so a
  flush that fails reports success; `SilentLoss` models it.
* `LoadFrameCache` refuses the whole cache for one line it cannot parse (`checkpoint_store.cpp:468-471`): a death well inside an append leaves a run
  that cannot be resumed, although its checkpoint and all the lines before are good. `EvidenceDurable` says that this is the only way. Where the torn
  line lacks only its line end, it loads, and the first line of the next process shares it: one frame fewer is read.
* `WriteTextFileAtomic` removes the old file whatever the first rename failed of (`fs_utils.hpp:81-84`): where the second fails too, an intact
  checkpoint is gone, and only the history file of an earlier index is left.
* A lock file that exists and cannot be read is taken for a stale one (`router.cpp:2472-2486`): the lock of a live holder is removed. `MutualExclusion` and
  `SettledHolderKeepsLock` except sessions that cannot read it.
* The frame cache stores `dropped` and no outcome (`checkpoint_store.cpp:419-427`, `474-481`): after `--resume`, timeouts and incomplete frames of the earlier
  processes count as generic drops (`fps.cpp:15-23`), and the anomalies that look for them see fewer. `ReportMatchesEvidence` says which are left.
* A run that dies after its completed checkpoint and before its manifest
  can never be finalised: resume refuses a completed checkpoint (`router.cpp:2759`).
* Resume prints a hint for a completed checkpoint that it would refuse
  (`checkpoint_store.cpp:275`).
* The lock's path is relative to the working directory (`2669`). On Windows
  no process is ever seen as running, and the lock excludes nobody.
* `max_disconnect_count` is compared with a constant 0 and never fails (`2326`).
* A process killed while the impairment is applied, or interrupted where no handler is
  installed, leaves it on the interface, and so does a teardown command that fails, which is only logged (`router.cpp:1046-1069`); the exit code
  is that of the run. Nor does anybody hear of a webcam that the destructor cannot close or of a lock file that cannot be removed (`lapses`).
* When a reconnect attempt connects and Start fails, Stop leaves the backend
  connected and every further attempt is refused (`reconnect_policy.cpp:83-95`,
  `real_backend.cpp:196`). `Restart` takes this path; the run ends truthfully. The stream hooks of the shipped build never fail.
* The reconnect budget is one for the whole run (`2611`) while
  `reconnect_policy.hpp:15` reads as one for each disconnect.
* A baseline capture that fails late leaves the earlier capture's metrics
  and manifest beside its own `run.json`, and both captures' events in one log.
  `ExitTellsTruth` is about the captures that report a verdict.
* OpenCV's path sets the pixel format after it has read the frame rate back (`webcam_backend.cpp:204-336`), and
  setting a format may change the rate: `RowsTellTruth` leaves that row out (`KeysReadLast`). The native path sets the format first.
* A device that can only be read is configured natively and then handed to OpenCV; its native rows (`webcam_backend.cpp:354-370`) stay in
  `readback_rows_` before OpenCV's until the next `Connect` (`159`), and `config_verify.json` is given all of them (`router.cpp:1912-1957`): a control
  has two rows there, of which the first may be wrong by then (`stale`). `RowsTellTruth` is about the last row of each control.
* A requeue that fails discards the frames of its pull and leaves the stream one buffer short until it is stopped.
* With the simulator and the webcam an interrupt has no effect on the
  run in progress (`Span`), and an agent goes on to the next variant.
* In a resumed soak run with a reordering simulator the shift of a chunk's ids (`router.cpp:3368`) is the id of
  the frame appended last, not the highest, and ids repeat: `IdsDistinct` leaves these runs out. In one process the simulator counts on by itself
  and the shift is added to that: ids leave gaps.
* A checkpoint interval shorter than a frame yields no frame in any chunk (`sim_camera_backend.cpp:202`), however long the run.
* The rolling window counts frames at both of its ends (`fps.cpp:124`), one more than the rate at exact cadence; at two frames a second or fewer a
  single drop reads as a resend spike.
* Where a key map leads two keys to one node, the earlier row of `config_verify.json` is stale; `VerifiedIsActual` is about the last one.
* The validator ignores the old root-level names that the parser accepts, and `camera.frame_size_bytes`, `pixel_format` and `gain_db`: a broken one
  passes `labops validate` and is refused or silently unset by `labops run`. Numbers beyond 32 bits pass the validator and are refused by the loader
  (`TooWide`). An empty `apply_mode` is refused by the validator and means strict to the run.
* `camera.width` and `height`, `sim_faults.disconnect_at_ms` and `disconnect_duration_ms`, `oaat` and `tags` are validated and read by no run.
* Variants of `packet_delay_ms` and `roi_enabled` change nothing on the simulator; at `fps` 1 and `reorder` 100 the variant is the base.
  `variant_generator.hpp:34` says that each output differs by one knob: numbers within 1e-9 of an integer are rounded when they are written again, and
  integers go through `int64` (`variant_generator.cpp:70`). `before_value` ignores old root-level names and `webcam.requested_fps`. `IsPlain` excludes these documents.
* `ExperimentRunner` returns false for a variant whose thresholds fail (`experiment_runner.cpp:111`), which is what the agent looks for; a baseline that fails its thresholds
  means that the variant is never run. The baseline's directory is the same for every experiment of a scenario, so that earlier comparisons refer to a capture that is gone.
* The flip search (`stop_conditions.cpp:58`) takes the first failing and the first passing value of a variable: if the first failing one passed as well, a flip between two others is missed.
* The baseline's pass counts against its own hypothesis (`engineer_packet_writer.cpp:276`), which can place an isolated variable below another one that failed. `Ruled out` lists every attempt that passed,
  even if another attempt of that knob failed.

## 5. Proofs

Proved for every value of the constants, under the assumptions named in the modules, which give the ranges of the constants
(`SoakAssumption`, `LockAssumption`, `LifecycleAssumption`, `DeviceAssumption`, `SessionAssumption` of the webcam and of the agent,
`CaptureTimeAssumption`, `SimAssumption`, `RealAssumption`, `ParamAssumption`, `PlanAssumption`, `RateAssumption`, `ScenarioAssumption`, `CastAssumption`,
`PreferredAssumption`, `InputAssumption`, `DocumentAssumption`, `TextAssumption`; TLC evaluates each of them)
and, where a theorem says so, one on the environment:

| theorem | property | extra assumption |
|---|---|---|
| `TypeCorrect` | `TypeOK` of SoakRun | |
| `EventsAlwaysCoverCache` | `EventsCoverCache` | `~SilentLoss` |
| `EvidenceIsDurable`, `PauseCanBeResumed` | `EvidenceDurable`, `PausedIsResumable` | `SafeStorage` |
| `ManifestIsCurrent`, `OneFaultIsSurvived` | `ManifestCurrent`, `CheckpointSurvivesOneFault` | |
| `ClaimsFitTheRate` | `NeverOverRate` | resumption from the newest checkpoint |
| `MetricsSealCache`, `ProgressIsKept`, `CompletedStaysFinal`, `BundleKeepsLedger` | `MetricsMatchCache`, `ProgressKept`, `CompletedIsFinal`, `KeepsLedger` | `SafeStorage`, a rename that overwrites unless it fails, resumption from the newest checkpoint |
| `LockTypeCorrect` | `TypeOK` of RunLock | |
| `SettledHolderIsSafe` | `SettledHolderKeepsLock` | |
| `SequentialSessionsExclude`, `OwnLockNeverBlocks` | `MutualExclusion`, `NoSelfBlock` | in the properties: worlds whose sessions take turns, and can read the file or remove it |
| `LifecycleTypeCorrect` | `TypeOK` of RunLifecycle | |
| `LifecycleLeaksNothing`, `LifecycleLockOutlivesCamera`, `LifecyclePullsFromStream` | `NothingLeaks`, `LockOutlivesCamera`, `PullsFromStream` | |
| `LifecycleExitTellsTruth`, `LifecyclePartialRunDocumented` | `ExitTellsTruth`, `PartialRunDocumented` | |
| `WebcamTypeCorrect` | `TypeOK` of WebcamSession and V4l2Device | |
| `WebcamStreamBacked`, `WebcamTeardownInOrder`, `WebcamClosedIsFree` | `StreamBacked`, `TeardownInOrder`, `ClosedDeviceIsFree` | |
| `WebcamSessionMatches`, `WebcamOneCapturePath`, `WebcamFramesAccounted` | `SessionMatchesDevice`, `OneCapturePath`, `FramesAccounted` | |
| `WebcamRowsTellTruth` | `RowsTellTruth` | |
| `SdkAlwaysBalanced`, `SdkIsReleased` | `SdkBalanced` for any use of the handles, `SdkReleased` for a run | |
| `StrictMeansAsAsked` | `StrictStreamsAsAsked` | |
| `ReadbackIsActual` | `VerifiedIsActual` | |
| `EvidenceTypeCorrect`, `SoakEvidenceInTimeOrder` | `TypeOK` of FrameEvidence, `EvidenceInTimeOrder` | `HashesAreNumbers` |
| `RunsKeepSchedule`, `IdsAreDistinct` | `FramesOnSchedule`, `IdsDistinct` | `HashesAreNumbers` |
| `ReportIsEvidence`, `QuietRunsPassed` | `ReportMatchesEvidence`, `QuietMeansPassed` | `HashesAreNumbers` |
| `SessionTypeCorrect` | `TypeOK` of AgentSession | |
| `ValidDocumentsRun` | `ValidatedRuns` | |
| `VariantsAreValid`, `ManifestIsTrue` | `VariantsStayValid`, `ManifestTellsVariants` | |
| `VariantsAreOfThisBase` | `ExperimentsUseThisBase`: of every place from the generation to the packet | |
| `StopsAreJustified` | `StopIsJustified` | |
| `IsolatedVariablesLead` | `IsolatedRanksFirst` | |
| `DiffsAccount` | `DiffAccounts` | |
| `KnobsStayInRange` | | |

`MetricsMatchCache`, `ProgressKept`, `CompletedIsFinal`, `HolderIsNamed`, `LockOutlivesCamera`, `PullsFromStream`, `OneCapturePath` and `FramesAccounted`
are proved and stated in no run of their own: `KeepsLedger`, `NothingLeaks` and the others that the runs check fail where they would.
`HashesAreNumbers` says that the simulated camera's hashes of seed and frame number are unsigned integers; they are parameters, and are defined for every number, so that no run can
evaluate it as an assumption. `DocumentAssumption` says what a parsed JSON object is: an object on the way to every value, and numbers that are numbers; `TextAssumption` that the texts of
the knobs' paths differ and that texts are ordered, by which `std::map` iterates; `ScenarioAssumption` that 2^32 and 2^63 are further apart than a knob adds. `RateAssumption` says what the node map of the shipped build has: a frame rate whose range begins at 1 (`apply_params.cpp:618`).

**Data.** The provers cannot instantiate a theorem about an operator, so induction over data is stated in `DataLemmas` for sets (`CountingUp`: a set with 0 that is closed under the successor
has every number) and recursion for functions (`RecursionExists`, `RecursionTyped`: the function of a recursive definition exists and has its values in the set that each step stays in). `Arranged`, `Sorted` and `Kept` are
defined by ranks and not by recursion: `ArrangedProperties` says that they list every element once and in order, `KeptProperties` and `SortedProperties` what filtering and sorting keep.

The arguments, each by an inductive invariant:

* **Types of SoakRun.** `TypeOK` is not inductive: `Advanced` adds the span of the
  chunk in hand, so `SpanFits` (the span fits into what remains) is carried along.
* **EventsCoverCache.** `lines <= events` is broken by the append unless the chunk in hand
  already has its events: `CoverInv` adds `lines + batch <= events` before the append.
* **EvidenceDurable.** `DurableInv` relates three places where frames are counted: the
  frames in the context never exceed the cache where a snapshot is taken (`FramesInHand`),
  the cache is inside a line only once its process has ended badly (`CacheTail`), and a fresh run has nothing on disk (`Fresh`).
  A cache that loads gives back every line, and one that does not refuses the resumption.
* **The seal.** `SealInv`: the context is never behind the newest checkpoint (`Progress`),
  a completed checkpoint means the run is past its loop (`Completion`), metrics exist only over the cache (`Sealed`).
* **The ledger.** While a file is being replaced, the newest claim is the one in memory (`Claim`, `BeingReplaced`); `Numbered` ties the index in memory to the
  file, so that a path that is empty before a publish is either being replaced or was never written. Then every step of `SoakRun` is a step of `EvidenceLedger` or leaves it
  unchanged: a failure that tears the cache or loses the checkpoint closes the run (`Close`), since nothing can be resumed from what is left (`Open`).
* **Manifest, pause, rate, one fault.** `ManifestCurrent` is inductive by itself: a process that reports success has just hashed what is there. `PausedInv` says
  what a pause has written so far (`latest` paused, short of the duration, and counting the cache) at each of its writes. `RateInv`
  is about runs without a fault: `Unfailed` bounds the frames in hand, in the newest checkpoint and in the metrics by the time each has
  counted, the pulled chunk by its span; the only arithmetic is `RateLinear`. `SurvivalInv` follows both checkpoint files: loadable both while nothing has failed
  (`BothLoad`), except between the two writes, and one of them after the first fault (`OneLoads`).
* **The lock.** `SequentialInv`: with sequential starts at most one session is in
  `Acquire`; beside a holder, whose pid is in the file, nobody gets past being
  refused, and whoever is about to be refused has read that pid, which is where a file that cannot be read breaks it. Without turns
  a settled holder is protected by what each single step but `ReadFails` can do.
* **The lifecycle.** `Clock` (a chunk is outstanding only while time remains, and only
  real runs are ever part of the way through) makes the types inductive. `HostInv`
  ties lock, camera and impairment to the stage the run is in; each scope
  guard's clause is needed by the next one's destructor. Its part `OwedInv` says of each thing a run may leave that somebody still owes it, a guard, an open
  webcam backend or the holder, or that its release has lapsed. `DocInv` has three parts: how the run ended is what the loop saw
  (`EndingInv`), each artifact is this run's from the step that writes it
  (`ArtifactInv`), and the exit code speaks of that bundle (`ExitInv`).
* **The webcam.** `WebcamInv` follows each count through the method that changes it: which buffers the object
  holds, the driver granted and has queued at each place of the buffer loops (`BufferInv`, `QueueInv`), where the driver
  holds more than the object and which failed call that takes (`FaultInv`), frames in hand (`FrameInv`), and what a method of the backend
  finds when its device returns (`WaitInv`, `SessionInv`). Negotiation leaves the stream alone (`NegotiatedOutcome`). `RowInv` says of each row that it is
  right about the value the driver holds as soon as the session is connected; each of the calls that set a value writes its row last, and no later call touches it. Rows of a dropped device have the keys asked for, as the new ones have (`Marks`), so that a row of the present path is always after them.
* **The SDK.** `SdkInv` counts holders; `HoldersByPlace` names, at each place of a run, who may be one.
* **Parameters.** `StrictInv` and `MirrorInv` hold of the rows so far; a row is right until a later one has its node (`Latest`).
* **Order of the evidence.** `TimeInv`: while a soak run streams, `latest` is at least the last frame's stamp (`NewestKnown`), and a process that begins
  computes it again from the frames it loads.
* **Schedule.** `ScheduleInv` guesses the number k of pulls: the time claimed is k spans, the last one perhaps shorter, and the frames so far
  are at most the rate times that time and short of it by less than k frames (`Counted`); `PullCounts` adds one truncated quotient. The rate of a real camera is what its node holds after
  the parameters: `RateInv` says that requests left and rows written account for it (`RateAsked`, `LeavesRate`), so that no pull sees another rate than the one before.
* **Ids.** For a camera that numbers in order, ids go up in the frames and in the chunk, and the chunk's first goes on after the last frame (`NextGoesOn`). With reordering
  within one process they do not go up: the ids of a window are those the camera numbered, permuted, and between two pulls no id is above the camera's counter plus the last id, by which the next chunk is shifted (`RoomAbove`); while a chunk is appended, what is left of it meets none of the ids given (`RoomForChunk`).
* **The report.** `TallyInv`: the tallies grow with the frames, and `logged` with the frames lost to timeouts or incomplete; a cache read back has none of these (`NoneReloaded`), as the process that reads it has logged none. The left end of each rolling window is a recursion over the received stamps (`LeftEnds`), whose value is found to be the number of stamps before the window
  (`CountedThrough`); the percentile is the element of a rank in the sorted intervals (`RankInSorted`). `ReportInv` carries them, and the highlights, to the end; each highlight is there for what it says (`SignsTell`, `FailuresTell`).
* **The two parsers.** A function of a document needs no invariant but that the base is one of `Bases`. `ValidMeans` says what it is to be valid, `ModelOf` what the lenient parser finds (without the keys of
  old fixtures a value is at its path or nowhere, `FoundAtPath`), and `ValidIsAccepted` goes through the refusals of the loader one by one: for each there is an issue of the validator that
  excludes it, except integers beyond 32 bits. `ValidIsPlanned` follows each value into the plan.
* **Variants.** `VariantInv` ties the manifest and the files written so far to the base of the generation in progress. `IsVariant` says what the file of a knob is: the base but for numbers at some
  paths, which the validator accepts, and the objects on the way to them (`Differs`). That nothing of a document is below such a path (`NumbersEnd`) is what keeps `SetIntegerAtPath` from taking anything away; serialising changes
  no plain number (`SerializedAsIs`). No field that the validator reads in any other way is where a knob writes (`PathsApart`), so that the issues are those of the base (`RestAgrees`). An integer knob starts from what a run of the base uses
  (`AbsentIsDefault`: the defaults of `ReadIntegerAtPath(...).value_or` are the simulator's) and ends at what a run of the variant uses (`KnobTells`).
* **Stops, packets, comparisons.** `SessionInv` types the attempts, whose knobs have their rows in the manifest (`EntryFound`); `DecisionInv` and `PacketInv` carry the decision and the packet to the end.
  `SearchIsRight` relates the flip search, which looks at first values only, to the existence of a flip. A variable that failed and did not pass has at most the baseline's row against it (`CountOfRows`), `RankedProperties` says where each hypothesis is in
  the ranking, and `EvidenceRuns` that every attempt is in the evidence map. `ReportListsCommon` says that the order of a report lists each common metric once; `SummaryAddsUp` counts a partition of it.

**Only model-checked**: liveness (`EventuallyRests`, `EveryRunEnds`), which the prover cannot do under fairness, and the claims of section 4, which are refuted by behaviours and need no proof.
Every other property of a passing run is stated by a theorem. The hashes of the simulated camera are parameters, and sorting and filtering are defined by ranks
(`Arrangement`), so that no result rests on a recursion the prover cannot unfold.

## 6. Plan

In the order of what matters most to a user of the tool; all but the last two are done.

1. `SoakRun` / `EvidenceLedger`: crash-safe evidence.
2. `RunLock`: one camera run at a time.
3. `RunLifecycle`: exit codes, bundles, teardown, reconnects.
4. `WebcamSession` over `V4l2Device`: every system call of the webcam failing.
5. `SdkContext`, `RealCamera` and `ParamApply`: the reference count and the parameters of a real camera.
6. `SimCamera`, `FrameMetrics` and `FrameEvidence`: frames, their ids and stamps, and what is concluded from them.
7. `Scenario`, `VariantGenerator`, `StopConditions`, `EngineerPacket`, `MetricsDiff` and `AgentSession`.
8. `LabHost`: `RunLock` and `RunLifecycle` composed (the lifecycle's lock variable implemented by the file), with several processes;
   its abstract specification is a lock held by nobody or by one session.
9. Webcam enumeration: the ranking of a device list, and a device that goes between its enumeration and `Open`.

Proofs left: `LabHost`'s refinement of its lock, and the ranking of item 9.

## 7. Not modelled

* Report, summary, html and config writers, logging, the json parser and serialisers:
  they format results already decided; a failing write of theirs is an error return in `FinalizeFails` or a `Die`.
* Host and NIC probe, device enumeration and the choice among devices: parsers and rankings of external
  text, evaluated once before the run; `SetupFails`, `NothingDiscovered` and a refused `Open` stand for their failures. The syntax of device selectors is in `Scenario`.
* The zip archive: one optional write after everything else.
* Pixels and payloads: a frame is an id, a stamp, a size and an outcome. The frame cache cuts stamps to microseconds, which keeps their order and is left out. The hashes that decide jitter, drops and order are parameters.
* The monotonic deadline of the soak loop: a chunk takes the time it asks for.
* The knowledge-base draft, `agent_state.json` and the markdown of the packet: renderings of the state that is modelled.
* The Windows build.
