--------------------------- MODULE FrameEvidence ---------------------------
(***************************************************************************)
(* The frames a run takes as evidence and what it concludes from them: the *)
(* streaming and measuring parts of RunSingleScenario,                     *)
(* src/src/labops/cli/router.cpp, over the simulated camera (soak runs and *)
(* single pulls) and the real one (soak runs), whose parameters are        *)
(* applied and verified first.                                             *)
(*                                                                         *)
(* Frames are appended one by one.  Files, their failures and a death in   *)
(* the middle of a chunk are SoakRun's; the real camera's reconnects are   *)
(* RunLifecycle's.                                                         *)
(***************************************************************************)
EXTENDS SimCamera, FrameMetrics, RealCamera, ParamApply

CONSTANTS
  Plans,      \* backend, soak, duration, interval, config, thresholds, requests,
              \* strict, keys, gige, unplug
  Clock,      \* wall-clock times at which a stream starts
  MaxBegins   \* processes that work on the run

ASSUME PlanAssumption ==
  /\ MaxBegins \in Nat
  /\ Clock \subseteq Int
  /\ \A p \in Plans :
       /\ p.backend \in {"sim", "real"}
       /\ p.duration \in Nat /\ p.interval \in Nat \ {0} /\ p.config \in Configs
       /\ p.requests \in Seq(Request)

\* The node map has the frame rate, and no rate below 1 in its range.
ASSUME RateAssumption ==
  /\ RateNode \in DOMAIN Nodes /\ Nodes[RateNode].type = "number"
  /\ Nodes[RateNode].min >= 1
  /\ Nodes[RateNode].first.at \in Nodes[RateNode].min .. Nodes[RateNode].max

VARIABLES
  pc,         \* where the run is
  plan,       \* the run plan
  begins,     \* processes so far
  skipped,    \* requests left out for the transport
  verified,   \* the rows of config_verify.json
  told,       \* the keys of this process's CONFIG_UNSUPPORTED and _ADJUSTED events
  frames,     \* ctx.frames, and the frame cache between chunks
  latest,     \* latest_frame_ts: <<>> before the first frame, <<ts>> then
  received,
  dropped,
  logged,     \* events of each outcome since this process began to stream
  completed,  \* milliseconds captured
  chunk,      \* pulled frames not yet appended
  offset,     \* added to the ids of the chunk
  span,       \* of the chunk
  report,
  failures,   \* failed thresholds
  highlights

captureVars ==
  <<frames, latest, received, dropped, logged, completed, chunk, offset, span>>
verdictVars == <<report, failures, highlights>>
configVars == <<paramVars, params, skipped, verified, told>>
cameraVars == <<cam, cfg, real, sdkVars>>

vars == <<pc, plan, begins, configVars, cameraVars, captureVars, verdictVars>>

NoReport == Report(<<>>, 0)

Outcomes == {"received", "dropped", "timeout", "incomplete"}

NoneLogged == [o \in Outcomes |-> 0]

Init ==
  /\ pc = "new" /\ plan \in Plans /\ begins = 0
  /\ cam = Off /\ cfg = Defaults /\ real = RealOff /\ SdkInit
  /\ params = <<>> /\ todo = <<>> /\ nodes = FreshNodes /\ rows = <<>>
  /\ skipped = <<>> /\ verified = <<>> /\ told = <<>>
  /\ frames = <<>> /\ latest = <<>> /\ received = 0 /\ dropped = 0
  /\ logged = NoneLogged
  /\ completed = 0 /\ chunk = <<>> /\ offset = 0 /\ span = 0
  /\ report = NoReport /\ failures = <<>> /\ highlights = <<>>

\* Broken form: a resumed run does not look at the frames it has loaded.
NewestUnread(fs) == <<>>

\* The stamp of the newest frame, if there is one.
Newest(fs) == IF fs = <<>> THEN <<>> ELSE <<Largest([i \in DOMAIN fs |-> fs[i].ts])>>

-----------------------------------------------------------------------------
(***************************************************************************)
(* A process begins, or resumes, the run                                   *)
(***************************************************************************)

\* Resuming needs a checkpoint that is not the last.
CanBegin ==
  /\ begins < MaxBegins
  /\ \/ pc = "new"
     \/ pc \in {"paused", "failed"} /\ plan.soak /\ 0 < completed /\ completed < plan.duration

\* The frame cache says whether a frame was lost, not how: read back, it is a drop.
Reloaded(fs) ==
  [i \in DOMAIN fs |-> IF fs[i].outcome = "received" THEN fs[i]
                       ELSE [fs[i] EXCEPT !.outcome = "dropped"]]

\* The frames a process has loaded are counted and their newest stamp found.
Recounted ==
  /\ frames' = Reloaded(frames)
  /\ received' = Tally(frames', "received")
  /\ dropped' = Len(frames') - Tally(frames', "received")
  /\ latest' = Newest(frames')
  /\ logged' = NoneLogged
  /\ UNCHANGED <<completed, chunk, offset, span>>

\* Connect, ApplyScenarioConfig, Start.
BeginSim(t) ==
  /\ CanBegin
  /\ plan.backend = "sim"
  /\ pc' = "stream"
  /\ begins' = begins + 1
  /\ OpenAt(t)
  /\ ApplyScenarioConfig(plan.config)
  /\ Recounted
  /\ UNCHANGED <<plan, real, sdkVars, configVars, verdictVars>>

\* EnumerateConnectedDevices holds a handle of its own while it lists the cameras.
BeginReal ==
  /\ CanBegin
  /\ plan.backend = "real"
  /\ pc' = "discover"
  /\ begins' = begins + 1
  /\ sdk' = Acquired("discovery", SdkOff)
  /\ holders' = {"discovery"}
  /\ UNCHANGED <<plan, cam, cfg, real, configVars, captureVars, verdictVars>>

\* The backend object is new, and so is the node map.
Discovered ==
  /\ pc = "discover"
  /\ ReleaseSdk("discovery")
  /\ pc' = "configure"
  /\ real' = RealOff
  /\ params' = [n \in {RateNode} |-> Nodes[RateNode].first]
  /\ nodes' = FreshNodes
  /\ rows' = <<>> /\ todo' = <<>> /\ skipped' = <<>> /\ told' = <<>>
  /\ UNCHANGED <<plan, begins, verified, cam, cfg, captureVars, verdictVars>>

\* No camera matches the selector.
NothingDiscovered ==
  /\ pc = "discover"
  /\ ReleaseSdk("discovery")
  /\ pc' = "failed"
  /\ UNCHANGED <<plan, begins, cam, cfg, real, configVars, captureVars, verdictVars>>

\* The process ends, and with it its backend.
Ends(where) ==
  /\ pc' = where
  /\ cam' = Off
  /\ DestroyReal

-----------------------------------------------------------------------------
(***************************************************************************)
(* ApplyRealParamsWithEvents                                               *)
(***************************************************************************)

\* A key map without a key, or a file that is not one.
KeyMapFails ==
  /\ pc = "configure"
  /\ DOMAIN plan.keys = {}
  /\ Ends("failed")
  /\ UNCHANGED <<plan, begins, cfg, configVars, captureVars, verdictVars>>

\* Places of the requests left out
Skipped ==
  {i \in DOMAIN plan.requests : ~plan.gige /\ plan.requests[i].key \in GigEKeys}

KeyMapLoads ==
  /\ pc = "configure"
  /\ DOMAIN plan.keys # {}
  /\ pc' = "apply"
  /\ skipped' = Kept(plan.requests, Skipped)
  /\ todo' = Ordered(Kept(plan.requests, (DOMAIN plan.requests) \ Skipped))
  /\ UNCHANGED <<plan, begins, nodes, rows, params, verified, told, cameraVars, captureVars,
                 verdictVars>>

ApplyParam ==
  /\ pc = "apply" /\ todo # <<>>
  /\ LET r == Head(todo)
         node == NodeOf(r, plan.keys)
     IN  /\ Accepts(r, node)
         /\ nodes' = [nodes EXCEPT ![node] = Prepared(r, node)]
         /\ params' = [n \in DOMAIN params \cup {node} |->
                         IF n = node THEN BackendValue(r, node) ELSE params[n]]
         /\ rows' = Append(rows, AppliedRow(r, node))
  /\ todo' = Tail(todo)
  /\ UNCHANGED <<pc, plan, begins, skipped, verified, told, cameraVars, captureVars, verdictVars>>

\* RecordUnsupportedParameter: in a strict run the rest is given up.
ParamUnsupported ==
  /\ pc = "apply" /\ todo # <<>>
  /\ LET r == Head(todo)
         node == NodeOf(r, plan.keys)
     IN  /\ ~Accepts(r, node)
         /\ rows' = Append(rows, UnsupportedRow(r, node))
         /\ pc' = IF IsStrict(r, plan.strict, plan.keys) THEN "refused" ELSE "apply"
  /\ todo' = Tail(todo)
  /\ UNCHANGED <<plan, begins, nodes, params, skipped, verified, told, cameraVars, captureVars,
                 verdictVars>>

Keys(rs) == [i \in DOMAIN rs |-> rs[i].key]

AllRows == rows \o SkippedRows(skipped)

\* A refused run writes its rows, then tries every event, whichever fail.
ReportRefusal ==
  /\ pc = "refused"
  /\ verified' = AllRows
  /\ \E lost \in SUBSET {row.key : row \in Range(Unsupported(AllRows))} :
       told' = Keys(SelectSeq(Unsupported(AllRows), LAMBDA row : row.key \notin lost))
  /\ Ends("failed")
  /\ UNCHANGED <<plan, begins, cfg, params, paramVars, skipped, captureVars, verdictVars>>

Due == Keys(Unsupported(AllRows)) \o Keys(Adjusted(AllRows))

ReportApplied ==
  /\ pc = "apply" /\ todo = <<>>
  /\ told' = Due
  /\ verified' = AllRows
  /\ pc' = "open"
  /\ UNCHANGED <<plan, begins, cameraVars, params, paramVars, skipped, captureVars, verdictVars>>

\* The first event that cannot be appended ends the run.
ReportFails ==
  /\ pc = "apply" /\ todo = <<>>
  /\ \E n \in 0 .. Len(Due) : told' = SubSeq(Due, 1, n)
  /\ Ends("failed")
  /\ UNCHANGED <<plan, begins, cfg, params, paramVars, skipped, verified, captureVars, verdictVars>>

\* Connect and Start.
OpenCamera(t) ==
  /\ pc = "open"
  /\ OpenReal(t)
  /\ pc' = "stream"
  /\ Recounted
  /\ UNCHANGED <<plan, begins, cam, cfg, configVars, verdictVars>>

-----------------------------------------------------------------------------
(***************************************************************************)
(* ExecuteStreaming                                                        *)
(***************************************************************************)

\* Broken form: the last chunk of a soak run is as long as the others.
WholeSpan == IF plan.soak THEN plan.interval ELSE plan.duration

NextSpan ==
  IF plan.soak /\ plan.interval < plan.duration - completed THEN plan.interval
  ELSE plan.duration - completed

\* Broken form: a chunk is numbered as the backend numbers it.
NoOffset == 0

\* A soak run shifts the ids of a chunk by the id of the frame appended last.
IdOffset == IF plan.soak /\ frames # <<>> THEN frames[Len(frames)].id + 1 ELSE 0

Pulled(fs) ==
  /\ pc' = "append"
  /\ chunk' = fs
  /\ offset' = IdOffset
  /\ span' = NextSpan
  /\ UNCHANGED <<plan, begins, cfg, configVars, frames, latest, received, dropped, logged,
                 completed, verdictVars>>

PullSim ==
  /\ pc = "stream" /\ cam.running
  /\ Usable
  /\ Pulled(Delivered(NextSpan))
  /\ PullFrames(NextSpan)
  /\ UNCHANGED <<real, sdkVars>>

PullRealFrames ==
  /\ pc = "stream" /\ real.running
  /\ ~Disconnects(plan.unplug)
  /\ Pulled(RealFrames(NextSpan))
  /\ PullReal(NextSpan)
  /\ UNCHANGED <<cam, sdkVars>>

\* A knob that is no number of frames, or a device that is gone, fails the run.
PullFails ==
  /\ pc = "stream"
  /\ (cam.running /\ ~Usable) \/ (real.running /\ Disconnects(plan.unplug))
  /\ Ends("failed")
  /\ UNCHANGED <<plan, begins, cfg, configVars, captureVars, verdictVars>>

\* In a soak run a stamp that is not after the newest one is moved after it.
Normalised(f) ==
  [f EXCEPT !.id = @ + offset,
            !.ts = IF plan.soak /\ latest # <<>> /\ @ <= latest[1] THEN latest[1] + 1 ELSE @]

AppendFrame ==
  /\ pc = "append" /\ chunk # <<>>
  /\ LET f == Normalised(Head(chunk))
     IN  /\ frames' = Append(frames, f)
         /\ latest' = <<IF latest = <<>> THEN f.ts ELSE Larger(latest[1], f.ts)>>
         /\ received' = received + (IF f.outcome = "received" THEN 1 ELSE 0)
         /\ dropped' = dropped + (IF f.outcome = "received" THEN 0 ELSE 1)
         /\ logged' = [logged EXCEPT ![f.outcome] = @ + 1]
  /\ chunk' = Tail(chunk)
  /\ UNCHANGED <<pc, plan, begins, configVars, cameraVars, completed, offset, span, verdictVars>>

\* The checkpoint of a soak run, the end of a single pull.
CompleteChunk ==
  /\ pc = "append" /\ chunk = <<>>
  /\ completed' = completed + span
  /\ pc' = IF completed' < plan.duration THEN "stream" ELSE "measure"
  /\ UNCHANGED <<plan, begins, configVars, cameraVars, frames, latest, received, dropped, logged,
                 chunk, offset, span, verdictVars>>

\* A stop request is honoured at a checkpoint.
Pause ==
  /\ pc = "stream" /\ plan.soak /\ 0 < completed
  /\ Ends("paused")
  /\ UNCHANGED <<plan, begins, cfg, configVars, captureVars, verdictVars>>

\* The finalizing part: metrics, thresholds, highlights.
Measure ==
  /\ pc = "measure"
  /\ report' = Report(frames, plan.duration)
  /\ failures' = Failures(plan.thresholds, report')
  /\ highlights' = Highlights(report', plan.config.fps, failures')
  /\ Ends("done")
  /\ UNCHANGED <<plan, begins, cfg, configVars, captureVars>>

Finished ==
  /\ pc = "done" \/ (pc \in {"failed", "paused"} /\ ~CanBegin)
  /\ UNCHANGED vars

Next ==
  \/ \E t \in Clock : BeginSim(t) \/ OpenCamera(t)
  \/ BeginReal \/ Discovered \/ NothingDiscovered
  \/ KeyMapFails \/ KeyMapLoads \/ ApplyParam \/ ParamUnsupported
  \/ ReportRefusal \/ ReportApplied \/ ReportFails
  \/ PullSim \/ PullRealFrames \/ PullFails \/ AppendFrame \/ CompleteChunk
  \/ Pause \/ Measure \/ Finished

Spec == Init /\ [][Next]_vars

-----------------------------------------------------------------------------
(***************************************************************************)
(* Properties                                                              *)
(***************************************************************************)

Frame == [id : Nat, ts : Int, size : Nat, outcome : Outcomes]

\* Every variable keeps its type, and no chunk in hand passes the duration.
TypeOK ==
  /\ pc \in {"new", "discover", "configure", "apply", "refused", "open", "stream", "append",
             "measure", "paused", "failed", "done"}
  /\ begins \in 0 .. MaxBegins
  /\ completed \in Nat /\ span \in Nat /\ offset \in Nat
  /\ pc = "append" => completed + span <= plan.duration
  /\ frames \in Seq(Frame) /\ chunk \in Seq(Frame)
  /\ latest \in Seq(Int) /\ Len(latest) <= 1 /\ received \in Nat /\ dropped \in Nat
  /\ logged \in [Outcomes -> Nat]
  /\ SdkTypeOK

\* The evidence of a soak run is in time order, whatever jitter, reordering, chunk
\* boundaries, pauses and a clock that was set back between two processes do.
EvidenceInTimeOrder ==
  plan.soak => \A i, j \in DOMAIN frames : i < j => frames[i].ts < frames[j].ts

\* No two frames of a run have one id, unless a soak run that reorders was resumed:
\* its last frame need not be the highest.
IdsDistinct ==
  plan.config.reorder <= 1 \/ plan.backend = "real" \/ begins <= 1 =>
    \A i, j \in DOMAIN frames : frames[i].id = frames[j].id => i = j

Rate == IF plan.backend = "sim" THEN plan.config.fps ELSE FrameRate

Pulls == IF plan.soak THEN (completed + plan.interval - 1) \div plan.interval ELSE 1

\* A run has no more frames than its rate allows for the time it claims, and each
\* pull, being cut to whole frames, loses less than one.
FramesOnSchedule ==
  pc \in {"stream", "measure", "done"} =>
    /\ Len(frames) * Second <= completed * Rate
    /\ completed > 0 => (Len(frames) + Pulls) * Second > completed * Rate

\* The report counts what the run counted as it went.  Of the losses it calls timeouts
\* and incomplete frames those, and only those, that the last process wrote as such to
\* its event log: the frame cache keeps no outcome, so those of the processes before it
\* are counted as drops.  Each rolling rate is the number of frames in the second that
\* ends there, and the percentile of the intervals is one.
ReportMatchesEvidence ==
  pc = "done" =>
    /\ report.total = Len(frames) /\ report.received = received /\ report.dropped = dropped
    /\ report.generic + report.timeout + report.incomplete = dropped
    /\ report.timeout = logged["timeout"] /\ report.incomplete = logged["incomplete"]
    /\ \A r \in DOMAIN report.ends :
         report.rolling[r] =
           Cardinality({i \in DOMAIN frames :
             /\ frames[i].outcome = "received"
             /\ frames[i].ts \in report.ends[r] - Window .. report.ends[r]})
    /\ LET gaps == Intervals(report.ends)
           upTo(x) == Cardinality({i \in DOMAIN gaps : gaps[i] <= x})
       IN  report.interval.n > 0 =>
             /\ 100 * upTo(report.interval.p95) >= 95 * report.interval.n
             /\ 100 * upTo(report.interval.p95 - 1) < 95 * report.interval.n

\* "No notable anomalies" is said only of a run that met its thresholds, received
\* something and lost nothing.
QuietMeansPassed ==
  pc = "done" /\ highlights = NothingNotable =>
    failures = <<>> /\ received > 0 /\ dropped = 0

\* A real run that has applied its parameters.
Configured == plan.backend = "real" /\ pc \in {"open", "stream", "append", "measure"}

\* A strict run streams only if every parameter it tried was applied, those excepted
\* that are best effort in any mode.
StrictStreamsAsAsked ==
  Configured /\ plan.strict =>
    \A i \in DOMAIN rows : rows[i].applied \/ rows[i].key \in Lenient

\* While a real run streams, the row written last for a node says what the node map
\* and the backend hold, and that lies in the node's range.
VerifiedIsActual ==
  Configured =>
    \A i \in DOMAIN rows :
      LET row == rows[i]
          last == \A j \in i + 1 .. Len(rows) : rows[j].applied => rows[j].node # row.node
      IN  row.applied /\ last =>
            /\ params[row.node] = row.actual /\ nodes[row.node] = row.actual
            /\ Nodes[row.node].type = "number" =>
                 row.actual.at \in Nodes[row.node].min .. Nodes[row.node].max

\* The SDK is initialised while someone uses it, and no process ends, by whichever
\* path, with the SDK left initialised.
SdkReleased ==
  /\ SdkBalanced
  /\ pc \in {"new", "failed", "paused", "done"} => holders = {}
=============================================================================
