------------------------------ MODULE SoakRun ------------------------------
(***************************************************************************)
(* One soak run of `labops run --soak`, from its first process to its last *)
(* resumption: the checkpointed streaming loop of ExecuteStreaming         *)
(* (src/src/labops/cli/router.cpp), the checkpoint store                   *)
(* (src/src/labops/soak/checkpoint_store.cpp) and the atomic file writer   *)
(* (src/src/core/fs_utils.hpp).                                            *)
(*                                                                         *)
(* A process may die between any two writes, and inside a write; a write   *)
(* may fail.  What is on disk at that moment is all a resumed process      *)
(* knows.  Time is counted in ticks and frames only by number.             *)
(***************************************************************************)
EXTENDS Integers

CONSTANTS
  Duration,           \* ticks of run time the scenario asks for
  Intervals,          \* values of --checkpoint-interval-ms an operator may pass
  Rate,               \* most frames the camera delivers in a tick
  FragmentKinds,      \* how a frame-cache line can be cut by a dying process:
                      \* "part"  no frame can be read from it
                      \* "whole" only the line end is missing
  SilentLoss,         \* a buffered write may be lost when its stream closes
  RenameOverwrites,   \* rename replaces an existing file (else: remove+rename)
  ResumeFromHistory,  \* operators also resume from checkpoints/checkpoint_<n>.json
  MaxFaults,          \* bound: deaths, failed writes and lost writes
  MaxResumes          \* bound: resumed processes

ASSUME SoakAssumption ==
  /\ Duration \in Nat \ {0}
  /\ Intervals \subseteq Nat \ {0}
  /\ Rate \in Nat
  /\ FragmentKinds \subseteq {"part", "whole"}
  /\ {SilentLoss, RenameOverwrites, ResumeFromHistory} \subseteq BOOLEAN
  /\ MaxFaults \in Nat
  /\ MaxResumes \in Nat

VARIABLES
  \* the process
  pc,        \* the next step of ExecuteScenarioRunInternal; "idle": no process
  ctx,       \* RunExecutionContext and the loop's checkpoint_state
  signal,    \* g_run_interrupt_requested
  outcome,   \* how the last process ended
  \* the bundle directory
  latest,    \* soak_checkpoint.json
  history,   \* checkpoints/checkpoint_<n>.json
  lines,     \* whole frame lines in soak_frames.jsonl
  tail,      \* how soak_frames.jsonl ends
  events,    \* FRAME_* events in events.jsonl
  marks,     \* how often another event was appended to it (STREAM_STARTED, ...)
  metrics,   \* metrics.csv and metrics.json
  manifest,  \* the artifacts bundle_manifest.json has hashed
  \* the environment
  stopFile,  \* the --soak-stop-file exists
  faults,    \* faults so far
  resumes    \* resumptions so far

vars == <<pc, ctx, signal, outcome, latest, history, lines, tail, events, marks,
          metrics, manifest, stopFile, faults, resumes>>

Status == {"absent", "corrupt", "running", "paused", "completed"}

Checkpoint ==
  [status : Status, completed : 0 .. Duration, index : Nat, frames : Nat]

\* No file at the path; index 0 is never published.
Absent == [status |-> "absent", completed |-> 0, index |-> 0, frames |-> 0]

\* A file that LoadCheckpoint cannot parse.
Corrupt(n) == [status |-> "corrupt", completed |-> 0, index |-> n, frames |-> 0]

Context ==
  [completed : 0 .. Duration, interval : Nat, index : Nat, frames : Nat,
   span : 0 .. Duration, batch : Nat]

NoRun == [completed |-> 0, interval |-> 0, index |-> 0, frames |-> 0,
          span |-> 0, batch |-> 0]

NotWritten == [written |-> FALSE, frames |-> 0]

\* The artifacts of the bundle a manifest hashes and later steps may change.
Artifacts == [latest |-> latest, lines |-> lines, events |-> events, marks |-> marks]

NoManifest == [latest |-> Absent, lines |-> 0, events |-> 0, marks |-> 0]

Init ==
  /\ pc = "idle"
  /\ ctx = NoRun
  /\ signal = FALSE
  /\ outcome = "none"
  /\ latest = Absent
  /\ history = {}
  /\ lines = 0
  /\ tail = "absent"
  /\ events = 0
  /\ marks = 0
  /\ metrics = NotWritten
  /\ manifest = NoManifest
  /\ stopFile = FALSE
  /\ faults = 0
  /\ resumes = 0

-----------------------------------------------------------------------------
(***************************************************************************)
(* Leaving the process                                                     *)
(***************************************************************************)

\* Every return of ExecuteScenarioRunInternal, and every death of the process.
Leave(how) ==
  /\ pc' = "idle"
  /\ ctx' = NoRun
  /\ signal' = FALSE
  /\ outcome' = how

\* The step at pc fails and its error return is taken ("failed"), or the
\* process is killed there ("killed").
Die(how) ==
  /\ pc # "idle"
  /\ faults < MaxFaults
  /\ faults' = faults + 1
  /\ Leave(how)

-----------------------------------------------------------------------------
(***************************************************************************)
(* Starting: PrepareRunContext, InitializeArtifacts, ConfigureBackend      *)
(***************************************************************************)

\* A fresh run: its run id names a bundle directory of its own.
Begin ==
  /\ pc = "idle"
  /\ outcome = "none"
  /\ \E i \in Intervals : ctx' = [NoRun EXCEPT !.interval = i]
  /\ pc' = "configure"
  /\ outcome' = "running"
  /\ UNCHANGED <<signal, latest, history, lines, tail, events, marks, metrics,
                 manifest, stopFile, faults, resumes>>

\* LoadFrameCache: a missing file is an empty cache; one line it cannot parse
\* refuses the whole file, the frames on the lines before it included.
CacheLoads == tail # "broken"

\* The frames a later process gets from the cache.
Reloaded == IF CacheLoads THEN lines ELSE 0

\* The checks --resume makes on a checkpoint before it takes it over.
CanResume(c) ==
  /\ c.status \in {"running", "paused"}
  /\ c.completed < Duration
  /\ CacheLoads

ResumeSources == IF ResumeFromHistory THEN history \cup {latest} ELSE {latest}

\* What a resumed process takes over: progress and index from the checkpoint,
\* the frames from the whole frame cache, whatever number the checkpoint claims.
ResumedFrom(c) == [NoRun EXCEPT !.completed = c.completed, !.index = c.index,
                                !.frames = Reloaded]

\* --resume <checkpoint.json>
Resume ==
  /\ pc = "idle"
  /\ outcome # "none"
  /\ resumes < MaxResumes
  /\ \E c \in ResumeSources, i \in Intervals :
       /\ CanResume(c)
       /\ ctx' = [ResumedFrom(c) EXCEPT !.interval = i]
  /\ pc' = "configure"
  /\ outcome' = "running"
  /\ resumes' = resumes + 1
  /\ UNCHANGED <<signal, latest, history, lines, tail, events, marks, metrics,
                 manifest, stopFile, faults>>

\* Start, the STREAM_STARTED event, and the handler scope that clears the flags.
StartStream ==
  /\ pc = "configure"
  /\ pc' = "pull"
  /\ marks' = marks + 1
  /\ signal' = FALSE
  /\ UNCHANGED <<ctx, outcome, latest, history, lines, tail, events, metrics,
                 manifest, stopFile, faults, resumes>>

-----------------------------------------------------------------------------
(***************************************************************************)
(* The checkpoint loop                                                     *)
(***************************************************************************)

Remaining == Duration - ctx.completed

\* Broken form: the last chunk is a whole interval.
WholeInterval == ctx.interval

ChunkSpan == IF ctx.interval < Remaining THEN ctx.interval ELSE Remaining

PullChunk ==
  /\ pc = "pull"
  /\ \E k \in 0 .. Rate * ChunkSpan :
       ctx' = [ctx EXCEPT !.span = ChunkSpan, !.batch = k]
  /\ pc' = "emit"
  /\ UNCHANGED <<signal, outcome, latest, history, lines, tail, events, marks,
                 metrics, manifest, stopFile, faults, resumes>>

\* Broken form: the last event of a chunk is not written.
AllButLast == IF ctx.batch = 0 THEN 0 ELSE ctx.batch - 1

FrameEvents == ctx.batch

\* One FRAME_* event per frame, each kept in ctx.frames once it is written.
EmitFrameEvents ==
  /\ pc = "emit"
  /\ events' = events + FrameEvents
  /\ ctx' = [ctx EXCEPT !.frames = @ + ctx.batch]
  /\ pc' = "cache"
  /\ UNCHANGED <<signal, outcome, latest, history, lines, tail, marks, metrics,
                 manifest, stopFile, faults, resumes>>

\* The process ends after some of the events of the chunk.
EmitCutShort(how) ==
  /\ pc = "emit"
  /\ \E n \in 1 .. ctx.batch : events' = events + n
  /\ Die(how)
  /\ UNCHANGED <<latest, history, lines, tail, marks, metrics, manifest,
                 stopFile, resumes>>

\* The event stream, too, is tested before its buffer is flushed: an event lost
\* on close is taken for written, and its frame is kept.
EmitLostOnClose ==
  /\ SilentLoss
  /\ pc = "emit"
  /\ faults < MaxFaults
  /\ \E n \in 0 .. ctx.batch - 1 : events' = events + n
  /\ ctx' = [ctx EXCEPT !.frames = @ + ctx.batch]
  /\ pc' = "cache"
  /\ faults' = faults + 1
  /\ UNCHANGED <<signal, outcome, latest, history, lines, tail, marks, metrics,
                 manifest, stopFile, resumes>>

\* Broken form: the cache is opened for truncation, not for appending.
Overwritten(n, fragment) == lines' = n /\ tail' = "clean"

Ending(fragment) == CASE fragment = "none" -> "clean"
                      [] fragment = "part" -> "broken"
                      [] fragment = "whole" -> "unterminated"

\* n whole lines reach soak_frames.jsonl, then a fragment of the next one. A
\* first line appended to an unfinished one shares its line: after a whole frame
\* it is lost, after part of one the line may still hold no frame, or hold one.
Written(n, fragment) ==
  LET objects == n + (IF fragment = "whole" THEN 1 ELSE 0)
      ending == IF n = 0 /\ tail \in {"unterminated", "broken"} THEN "unterminated"
                ELSE Ending(fragment)
  IN
  \/ /\ tail \in {"absent", "clean"} \/ (tail = "broken" /\ objects > 0)
     /\ lines' = lines + objects
     /\ tail' = ending
  \/ /\ tail = "unterminated"
     /\ lines' = lines + (IF objects = 0 THEN 0 ELSE objects - 1)
     /\ tail' = ending
  \/ /\ tail = "broken"
     /\ lines' = lines + (IF objects = 0 THEN 0 ELSE objects - 1)
     /\ tail' = "broken"

\* Broken form: the duration of the chunk is not counted.
Recounted == [ctx EXCEPT !.index = @ + 1, !.span = 0, !.batch = 0]

\* The chunk's frames are in the cache: its duration and its checkpoint count.
Advanced == [completed |-> ctx.completed + ctx.span, interval |-> ctx.interval,
             index |-> ctx.index + 1, frames |-> ctx.frames, span |-> 0, batch |-> 0]

\* A chunk without frames leaves the cache alone.
AppendFrameCache ==
  /\ pc = "cache"
  /\ IF ctx.batch = 0 THEN UNCHANGED <<lines, tail>> ELSE Written(ctx.batch, "none")
  /\ ctx' = Advanced
  /\ pc' = "publishLatest"
  /\ UNCHANGED <<signal, outcome, latest, history, events, marks, metrics,
                 manifest, stopFile, faults, resumes>>

\* An append that stops before its last line.
Shortened ==
  \E n \in 0 .. ctx.batch - 1, f \in {"none"} \cup FragmentKinds : Written(n, f)

\* The process ends inside the append.
AppendCutShort(how) ==
  /\ pc = "cache"
  /\ Shortened
  /\ Die(how)
  /\ UNCHANGED <<latest, history, events, marks, metrics, manifest, stopFile,
                 resumes>>

\* The stream is tested before its buffer is flushed: an append whose flush
\* fails on close still returns true, and the run goes on.
AppendLostOnClose ==
  /\ SilentLoss
  /\ pc = "cache"
  /\ faults < MaxFaults
  /\ Shortened
  /\ ctx' = Advanced
  /\ pc' = "publishLatest"
  /\ faults' = faults + 1
  /\ UNCHANGED <<signal, outcome, latest, history, events, marks, metrics,
                 manifest, stopFile, resumes>>

-----------------------------------------------------------------------------
(***************************************************************************)
(* Publishing a checkpoint: soak_checkpoint.json first, then the history   *)
(* file of its index, each through WriteTextFileAtomic                     *)
(***************************************************************************)

\* Broken form: frames_total is the number of frame events.
EventSnapshot(status) == [status |-> status, completed |-> ctx.completed,
                          index |-> ctx.index, frames |-> events]

Snapshot(status) == [status |-> status, completed |-> ctx.completed,
                     index |-> ctx.index, frames |-> ctx.frames]

\* The rename that publishes: what it leaves in the file, and whether a fault
\* was spent. A temporary file whose flush failed on close is renamed too.
Published(status, file) ==
  \/ /\ file = Snapshot(status)
     /\ UNCHANGED faults
  \/ /\ SilentLoss
     /\ faults < MaxFaults
     /\ file = Corrupt(ctx.index)
     /\ faults' = faults + 1

HistoryAt(n) == {c \in history : c.index = n}

\* Broken form: the entry is dropped, not replaced.
HistoryWithout(c) == history \ HistoryAt(c.index)

HistoryWith(c) == (history \ HistoryAt(c.index)) \cup {c}

PublishLatest(status, at, next) ==
  /\ pc = at
  /\ RenameOverwrites \/ latest = Absent
  /\ \E file \in {Snapshot(status), Corrupt(ctx.index)} :
       Published(status, file) /\ latest' = file
  /\ pc' = next
  /\ UNCHANGED <<ctx, signal, outcome, history, lines, tail, events, marks,
                 metrics, manifest, stopFile, resumes>>

PublishHistory(status, at, next) ==
  /\ pc = at
  /\ RenameOverwrites \/ HistoryAt(ctx.index) = {}
  /\ \E file \in {Snapshot(status), Corrupt(ctx.index)} :
       Published(status, file) /\ history' = HistoryWith(file)
  /\ pc' = next
  /\ UNCHANGED <<ctx, signal, outcome, latest, lines, tail, events, marks,
                 metrics, manifest, stopFile, resumes>>

\* The first rename fails: always where rename does not overwrite, else by a fault.
RenameFails ==
  IF RenameOverwrites THEN faults < MaxFaults /\ faults' = faults + 1
  ELSE UNCHANGED faults

\* Whatever the first rename failed of, the old file is removed before the second.
RemoveLatest ==
  /\ pc \in {"publishLatest", "pauseLatest", "finalLatest"}
  /\ latest # Absent
  /\ RenameFails
  /\ latest' = Absent
  /\ UNCHANGED <<pc, ctx, signal, outcome, history, lines, tail, events, marks,
                 metrics, manifest, stopFile, resumes>>

RemoveHistory ==
  /\ pc \in {"publishHistory", "pauseHistory", "finalHistory"}
  /\ HistoryAt(ctx.index) # {}
  /\ RenameFails
  /\ history' = history \ HistoryAt(ctx.index)
  /\ UNCHANGED <<pc, ctx, signal, outcome, latest, lines, tail, events, marks,
                 metrics, manifest, stopFile, resumes>>

\* Both renames fail of one cause: the old file is gone and the run has failed.
PublishRefused ==
  /\ \/ /\ pc \in {"publishLatest", "pauseLatest", "finalLatest"}
        /\ latest' = Absent
        /\ UNCHANGED history
     \/ /\ pc \in {"publishHistory", "pauseHistory", "finalHistory"}
        /\ history' = history \ HistoryAt(ctx.index)
        /\ UNCHANGED latest
  /\ Die("failed")
  /\ UNCHANGED <<lines, tail, events, marks, metrics, manifest, stopFile, resumes>>

CheckpointLatest == PublishLatest("running", "publishLatest", "publishHistory")
CheckpointHistory == PublishHistory("running", "publishHistory", "boundary")

-----------------------------------------------------------------------------
(***************************************************************************)
(* The chunk boundary: pause, go on, or complete                           *)
(***************************************************************************)

\* ResolveSoakStopReason
StopRequested == signal \/ stopFile

\* Broken form: a request is honoured even when nothing remains.
PauseAlways == StopRequested

PauseDue == StopRequested /\ Remaining > 0

\* The SOAK_CHECKPOINT event, then the stop request is looked at.
Boundary ==
  /\ pc = "boundary"
  /\ marks' = marks + 1
  /\ \/ /\ PauseDue
        /\ pc' = "pauseLatest"
        /\ UNCHANGED ctx
     \/ /\ ~PauseDue
        /\ Remaining > 0
        /\ pc' = "pull"
        /\ UNCHANGED ctx
     \/ /\ ~PauseDue
        /\ Remaining = 0
        /\ pc' = "finalLatest"
        /\ ctx' = [ctx EXCEPT !.index = @ + 1]
  /\ UNCHANGED <<signal, outcome, latest, history, lines, tail, events, metrics,
                 manifest, stopFile, faults, resumes>>

\* The checkpoint just published is rewritten, at the same index, as paused.
PauseLatest == PublishLatest("paused", "pauseLatest", "pauseHistory")
PauseHistory == PublishHistory("paused", "pauseHistory", "pauseStop")

\* Broken form: the manifest is written before the STREAM_STOPPED event.
ManifestBeforeStop ==
  /\ pc = "pauseStop"
  /\ manifest' = Artifacts
  /\ marks' = marks + 1
  /\ Leave("paused")
  /\ UNCHANGED <<latest, history, lines, tail, events, metrics, stopFile, faults,
                 resumes>>

\* The backend stops; the STREAM_STOPPED event and run.json.
PauseStop ==
  /\ pc = "pauseStop"
  /\ marks' = marks + 1
  /\ pc' = "pauseManifest"
  /\ UNCHANGED <<ctx, signal, outcome, latest, history, lines, tail, events,
                 metrics, manifest, stopFile, faults, resumes>>

\* The manifest of a paused bundle requires the frame cache to exist.
PauseManifest ==
  /\ pc = "pauseManifest"
  /\ tail # "absent"
  /\ manifest' = Artifacts
  /\ Leave("paused")
  /\ UNCHANGED <<latest, history, lines, tail, events, marks, metrics, stopFile,
                 faults, resumes>>

\* Broken form: the process waits for a cache that nobody writes.
WaitForCache == FALSE

PauseManifestRefused ==
  /\ pc = "pauseManifest"
  /\ tail = "absent"
  /\ Leave("failed")
  /\ UNCHANGED <<latest, history, lines, tail, events, marks, metrics, manifest,
                 stopFile, faults, resumes>>

FinalLatest == PublishLatest("completed", "finalLatest", "finalHistory")
FinalHistory == PublishHistory("completed", "finalHistory", "stop")

\* Backend Stop and the STREAM_STOPPED event; the signal handler goes out of scope.
StopStream ==
  /\ pc = "stop"
  /\ marks' = marks + 1
  /\ pc' = "metrics"
  /\ UNCHANGED <<ctx, signal, outcome, latest, history, lines, tail, events, metrics,
                 manifest, stopFile, faults, resumes>>

\* run.json, metrics.csv and metrics.json over ctx.frames; a transport anomaly
\* adds an event; summary.md and report.html.
WriteMetrics ==
  /\ pc = "metrics"
  /\ metrics' = [written |-> TRUE, frames |-> ctx.frames]
  /\ marks' \in {marks, marks + 1}
  /\ pc' = "manifest"
  /\ UNCHANGED <<ctx, signal, outcome, latest, history, lines, tail, events,
                 manifest, stopFile, faults, resumes>>

WriteManifest ==
  /\ pc = "manifest"
  /\ manifest' = Artifacts
  /\ Leave("completed")
  /\ UNCHANGED <<latest, history, lines, tail, events, marks, metrics, stopFile,
                 faults, resumes>>

-----------------------------------------------------------------------------
(***************************************************************************)
(* The environment                                                         *)
(***************************************************************************)

\* Where ScopedInterruptSignalHandler is installed; elsewhere a signal kills.
Streaming == {"pull", "emit", "cache", "publishLatest", "publishHistory",
              "boundary", "pauseLatest", "pauseHistory", "pauseStop",
              "pauseManifest", "finalLatest", "finalHistory", "stop"}

RaiseSignal ==
  /\ pc \in Streaming
  /\ signal' = TRUE
  /\ UNCHANGED <<pc, ctx, outcome, latest, history, lines, tail, events, marks,
                 metrics, manifest, stopFile, faults, resumes>>

\* The operator creates the stop file, and must remove it before resuming.
ToggleStopFile ==
  /\ stopFile' = ~stopFile
  /\ UNCHANGED <<pc, ctx, signal, outcome, latest, history, lines, tail, events,
                 marks, metrics, manifest, faults, resumes>>

\* A death or a failed write between two writes: the disk stays as it is.
DieBetweenWrites(how) ==
  /\ Die(how)
  /\ UNCHANGED <<latest, history, lines, tail, events, marks, metrics, manifest,
                 stopFile, resumes>>

Faults ==
  \/ \E how \in {"failed", "killed"} :
       DieBetweenWrites(how) \/ EmitCutShort(how) \/ AppendCutShort(how)
  \/ PublishRefused

\* What a live process does.
Step ==
  \/ StartStream \/ PullChunk \/ EmitFrameEvents \/ EmitLostOnClose
  \/ AppendFrameCache \/ AppendLostOnClose
  \/ CheckpointLatest \/ CheckpointHistory \/ RemoveLatest \/ RemoveHistory
  \/ Boundary
  \/ PauseLatest \/ PauseHistory \/ PauseStop \/ PauseManifest
  \/ PauseManifestRefused
  \/ FinalLatest \/ FinalHistory \/ StopStream \/ WriteMetrics \/ WriteManifest

Next ==
  \/ Begin \/ Resume
  \/ Step
  \/ Faults
  \/ RaiseSignal \/ ToggleStopFile

Spec == Init /\ [][Next]_vars

\* A started process is a sequential program on one thread: it keeps stepping.
FairSpec == Spec /\ WF_vars(Step)

-----------------------------------------------------------------------------
(***************************************************************************)
(* Properties                                                              *)
(***************************************************************************)

Stages == Streaming \cup {"idle", "configure", "metrics", "manifest"}

\* A file system on which a completed write stays written, and processes that
\* die between lines of the frame cache or well inside one.
SafeStorage == ~SilentLoss /\ "whole" \notin FragmentKinds

\* Every variable keeps its type; in particular no chunk runs past the duration.
TypeOK ==
  /\ pc \in Stages
  /\ ctx \in Context
  /\ signal \in BOOLEAN
  /\ outcome \in {"none", "running", "paused", "completed", "failed", "killed"}
  /\ latest \in Checkpoint
  /\ history \subseteq Checkpoint
  /\ lines \in Nat
  /\ tail \in {"absent", "clean", "unterminated", "broken"}
  /\ events \in Nat
  /\ marks \in Nat
  /\ metrics \in [written : BOOLEAN, frames : Nat]
  /\ manifest \in [latest : Checkpoint, lines : Nat, events : Nat, marks : Nat]
  /\ stopFile \in BOOLEAN
  /\ faults \in 0 .. MaxFaults
  /\ resumes \in 0 .. MaxResumes

\* Captured evidence is not lost, on storage that keeps what was written: every
\* frame any checkpoint claims (frames_total) is a whole line of the frame cache,
\* and the cache loads, except that a process that died or failed inside an append
\* may leave a line that makes LoadFrameCache refuse all of it. So --resume takes
\* over at least the frames of the checkpoint, or is refused; it never goes on
\* with fewer.
EvidenceDurable ==
  /\ \A c \in history \cup {latest} :
       /\ c.frames <= lines
       /\ CanResume(c) => c.frames <= ResumedFrom(c).frames
  /\ ~CacheLoads => pc = "idle" /\ outcome \in {"failed", "killed"}

\* Every frame a resumed run takes from the cache has its FRAME event in
\* events.jsonl: metrics never count a frame the event log does not show.
\* Needs storage that keeps what was written.
EventsCoverCache == lines <= events

\* Final metrics are written only for a run whose checkpoint says completed, and
\* count exactly the frames of the frame cache.
MetricsMatchCache ==
  metrics.written => latest.status = "completed" /\ metrics.frames = lines

\* When a run ends in success, paused or completed, no artifact has changed since
\* the manifest hashed it.
ManifestCurrent ==
  pc = "idle" /\ outcome \in {"paused", "completed"} => manifest = Artifacts

\* A run that reports a pause left a checkpoint that --resume accepts and that
\* claims exactly what the cache holds.
PausedIsResumable ==
  pc = "idle" /\ outcome = "paused" =>
    CanResume(latest) /\ latest.status = "paused" /\ latest.frames = lines

\* As long as nothing failed, however often the run was paused and resumed, it
\* never claims more frames than the camera can deliver in the time it claims.
NeverOverRate ==
  faults = 0 => /\ latest.frames <= Rate * latest.completed
                /\ metrics.frames <= Rate * Duration

\* Once events.jsonl shows a checkpoint, one fault of any kind (a death in the
\* middle of remove+rename, a publish whose content was lost) leaves, when the
\* process is gone, a checkpoint that can be loaded, in one file or the other.
CheckpointSurvivesOneFault ==
  pc = "idle" /\ faults <= 1 /\ marks >= 2 =>
    \E c \in history \cup {latest} : c.status \notin {"absent", "corrupt"}

\* The bundle is open: a process is at work on it, none has been yet, or --resume
\* accepts its soak_checkpoint.json.
Open == pc # "idle" \/ outcome = "none" \/ CanResume(latest)

\* Removed, and about to be replaced by what the process has in memory. (Before its
\* first publish there was nothing to remove.)
BeingReplaced ==
  /\ latest = Absent
  /\ pc \in {"publishLatest", "pauseLatest", "finalLatest"}
  /\ pc = "publishLatest" => ctx.index > 1

\* What the newest checkpoint claims, the one in memory while it replaces the file.
Claim ==
  IF BeingReplaced THEN [completed |-> ctx.completed, frames |-> ctx.frames]
  ELSE [completed |-> latest.completed, frames |-> latest.frames]

\* As long as the run can go on, the progress and the frames it claims never go
\* back: they are lost only with soak_checkpoint.json itself, when the process ends
\* between the removal of the old file and the rename of the new one.
ProgressKept ==
  [][Open' => Claim.completed <= Claim'.completed /\ Claim.frames <= Claim'.frames]_vars

\* A checkpoint marked completed is the last word: neither it nor the evidence it
\* closes changes again.
CompletedIsFinal ==
  [][latest.status = "completed" =>
       latest' = latest /\ lines' = lines /\ events' = events]_vars

\* Whatever is asked of it and whatever fails, a started process ends.
EventuallyRests == pc # "idle" ~> pc = "idle"

\* The bundle implements the abstract evidence ledger.
Ledger == INSTANCE EvidenceLedger WITH
  stock <- Reloaded,
  secured <- Claim,
  sealed <- metrics,
  open <- Open

KeepsLedger == Ledger!Spec
=============================================================================
