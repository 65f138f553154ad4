---------------------------- MODULE WebcamSession ----------------------------
(***************************************************************************)
(* WebcamBackend of src/src/backends/webcam/webcam_backend.cpp: sessions   *)
(* on one camera, taken through V4L2 where the device streams, and through *)
(* OpenCV otherwise.  The backend's calls come from one thread in any      *)
(* order; the calls it makes to V4l2Device are that module's.              *)
(***************************************************************************)
EXTENDS V4l2Device

CONSTANTS
  Builds,     \* whether OpenCV is compiled in: TRUE, FALSE
  Requests    \* what SetParam has asked for: values of format and fps, or "none"

ASSUME SessionAssumption ==
  /\ Builds \subseteq BOOLEAN
  /\ Requests \subseteq [format : Values \cup {"none"}, fps : Values \cup {"none"}]

VARIABLES
  at,         \* where in which of the backend's methods; "idle": in none
  session,    \* connected_, running_, linux_native_capture_selected_
  opencv,     \* cv::VideoCapture; "absent": not compiled in
  request,    \* requested_
  rows,       \* readback_rows_: those of the path in use,
  stale,      \* and before them those of a device that could only be read
  delivered,  \* history: frames of this session the caller got
  discarded   \* history: frames of it that were dropped with a failed pull

sessionVars == <<at, session, opencv, request, rows, stale, delivered, discarded>>

vars == <<dev, kernel, pc, call, ok, time, nextId, pulled, faults,
          at, session, opencv, request, rows, stale, delivered, discarded>>

NoSession == {}

Init ==
  /\ DeviceInit
  /\ at = "idle"
  /\ session = NoSession
  /\ opencv \in {IF build THEN "closed" ELSE "absent" : build \in Builds}
  /\ request = [format |-> "none", fps |-> "none"]
  /\ rows = NoRows
  /\ stale = NoRows
  /\ delivered = 0
  /\ discarded = 0

\* The device has returned to the backend.
Back(from) == at = from /\ pc = "ready"

OpenCvClosed == IF opencv = "absent" THEN "absent" ELSE "closed"

FreshIds ==
  /\ nextId' = 0
  /\ delivered' = 0
  /\ discarded' = 0

-----------------------------------------------------------------------------
(***************************************************************************)
(* Connect                                                                 *)
(***************************************************************************)

Connect ==
  /\ at = "idle"
  /\ "connected" \notin session
  /\ request' \in Requests
  /\ rows' = NoRows /\ stale' = NoRows
  /\ session' = session \ {"native"}
  /\ opencv' = OpenCvClosed
  /\ CallOpen
  /\ at' = "open"
  /\ UNCHANGED <<delivered, discarded>>

\* A device that streams is used as it is; the stream starts with Start.
UseNative ==
  /\ Back("open") /\ ok /\ dev.method = "mmap"
  /\ \E outcome \in Negotiated(request) :
       kernel' = outcome.driver /\ rows' = outcome.rows
  /\ session' = session \cup {"connected", "native"}
  /\ FreshIds
  /\ at' = "idle"
  /\ UNCHANGED <<dev, pc, call, ok, time, pulled, faults, opencv, request, stale>>

\* One that can only be read is configured, and closed again; its rows stay.
DropNative ==
  /\ Back("open") /\ ok /\ dev.method = "read"
  /\ at' = "drop"
  /\ pc' = "streamoff" /\ call' = "close" /\ ok' = TRUE
  /\ \E outcome \in Negotiated(request) :
       kernel' = outcome.driver /\ stale' = outcome.rows
  /\ UNCHANGED <<dev, time, nextId, pulled, faults,
                 session, opencv, request, rows, delivered, discarded>>

\* Connect fails where that close does.
DropFails ==
  /\ Back("drop") /\ ~ok
  /\ at' = "idle"
  /\ UNCHANGED <<deviceVars, session, opencv, request, rows, stale, delivered, discarded>>

Fallback == (Back("open") \/ Back("drop")) /\ (ok <=> at = "drop")

\* A pixel format that was set is not confirmed unless it can be read back.
OpenCvFormatSet(s, asked) ==
  IF asked = "none" THEN {s}
  ELSE FormatSet(s, asked)
       \cup {[driver |-> [s.driver EXCEPT !.format = v.format, !.fps = v.fps],
              rows |-> [s.rows EXCEPT !["format"] = NotConfirmed(asked)]] :
               v \in [format : Values, fps : Values]}

\* ApplyRequestedConfig: the rate first, then the pixel format.
OpenCvNegotiated ==
  UNION {OpenCvFormatSet(s, request.format) :
           s \in RateSet([driver |-> kernel, rows |-> NoRows], request.fps)}

\* OpenCV opens the device; the driver lets several programs open it.
UseOpenCv ==
  /\ Fallback
  /\ opencv = "closed"
  /\ opencv' = "open"
  /\ \E outcome \in OpenCvNegotiated :
       kernel' = outcome.driver /\ rows' = outcome.rows
  /\ session' = session \cup {"connected"}
  /\ FreshIds
  /\ at' = "idle"
  /\ UNCHANGED <<dev, pc, call, ok, time, pulled, faults, request, stale>>

\* OpenCV is not compiled in, or cannot open the device.
ConnectFails ==
  /\ Fallback
  /\ at' = "idle"
  /\ UNCHANGED <<deviceVars, session, opencv, request, rows, stale, delivered, discarded>>

-----------------------------------------------------------------------------
(***************************************************************************)
(* Start, PullFrames                                                       *)
(***************************************************************************)

StartNative ==
  /\ at = "idle"
  /\ "connected" \in session /\ "running" \notin session /\ "native" \in session
  /\ CallStart
  /\ at' = "start"
  /\ UNCHANGED <<session, opencv, request, rows, stale, delivered, discarded>>

Started ==
  /\ Back("start")
  /\ session' = IF ok THEN session \cup {"running"} ELSE session
  /\ at' = "idle"
  /\ UNCHANGED <<deviceVars, opencv, request, rows, stale, delivered, discarded>>

StartOpenCv ==
  /\ at = "idle"
  /\ "connected" \in session /\ "running" \notin session /\ "native" \notin session
  /\ opencv = "open"
  /\ session' = session \cup {"running"}
  /\ UNCHANGED <<deviceVars, at, opencv, request, rows, stale, delivered, discarded>>

Streaming == at = "idle" /\ {"connected", "running"} \subseteq session

PullNative ==
  /\ Streaming /\ "native" \in session
  /\ nextId + PollBudget <= MaxFrames
  /\ CallPull
  /\ at' = "pull"
  /\ UNCHANGED <<session, opencv, request, rows, stale, delivered, discarded>>

\* The caller gets the frames of a pull that succeeded, and none of another's.
Pulled ==
  /\ Back("pull")
  /\ IF ok THEN delivered' = delivered + pulled /\ UNCHANGED discarded
     ELSE discarded' = discarded + pulled /\ UNCHANGED delivered
  /\ pulled' = 0
  /\ at' = "idle"
  /\ UNCHANGED <<dev, kernel, pc, call, ok, time, nextId, faults, session, opencv, request, rows, stale>>

\* Every read, whatever it brings within its time, is a frame.
PullOpenCv ==
  /\ Streaming /\ "native" \notin session
  /\ \E n \in 1 .. PollBudget :
       /\ nextId + n <= MaxFrames
       /\ nextId' = nextId + n
       /\ delivered' = delivered + n
  /\ UNCHANGED <<dev, kernel, pc, call, ok, time, pulled, faults,
                 at, session, opencv, request, rows, stale, discarded>>

-----------------------------------------------------------------------------
(***************************************************************************)
(* Stop                                                                    *)
(***************************************************************************)

StopNative ==
  /\ at = "idle"
  /\ {"running", "native"} \subseteq session
  /\ CallStop
  /\ at' = "stop"
  /\ UNCHANGED <<session, opencv, request, rows, stale, delivered, discarded>>

Stopped ==
  /\ Back("stop")
  /\ CallClose
  /\ at' = "close"
  /\ UNCHANGED <<session, opencv, request, rows, stale, delivered, discarded>>

\* Broken form: the flags follow what became of the device.
SessionEndsIfClosed ==
  /\ Back("close")
  /\ session' = IF ok THEN NoSession ELSE session \ {"running", "native"}
  /\ at' = "idle"
  /\ UNCHANGED <<deviceVars, opencv, request, rows, stale, delivered, discarded>>

\* Whatever the calls have returned; Stop fails if either has.
SessionEnds ==
  /\ Back("close")
  /\ session' = NoSession
  /\ at' = "idle"
  /\ UNCHANGED <<deviceVars, opencv, request, rows, stale, delivered, discarded>>

StopOpenCv ==
  /\ at = "idle"
  /\ "running" \in session /\ "native" \notin session
  /\ session' = NoSession
  /\ opencv' = OpenCvClosed
  /\ UNCHANGED <<deviceVars, at, request, rows, stale, delivered, discarded>>

-----------------------------------------------------------------------------
(***************************************************************************)
(* The destructors, of the backend and then of its device; a new backend   *)
(* follows                                                                 *)
(***************************************************************************)

\* TeardownSessionBestEffort.
Destroy ==
  /\ at = "idle"
  /\ IF "native" \in session
     THEN CallStop /\ at' = "destroy" /\ UNCHANGED opencv
     ELSE opencv' = OpenCvClosed /\ CallClose /\ at' = "member"
  /\ UNCHANGED <<session, request, rows, stale, delivered, discarded>>

DestroyCloses ==
  /\ Back("destroy")
  /\ CallClose
  /\ at' = "destroyClose"
  /\ UNCHANGED <<session, opencv, request, rows, stale, delivered, discarded>>

\* The device's own destructor closes once more.
DestroyMember ==
  /\ Back("destroyClose")
  /\ CallClose
  /\ at' = "member"
  /\ UNCHANGED <<session, opencv, request, rows, stale, delivered, discarded>>

\* OpenCV's capture is destroyed, and whatever the objects knew is gone.
Destroyed ==
  /\ Back("member")
  /\ dev' = Closed
  /\ session' = NoSession
  /\ opencv' = OpenCvClosed
  /\ rows' = NoRows /\ stale' = NoRows
  /\ FreshIds
  /\ at' = "idle"
  /\ UNCHANGED <<kernel, pc, call, ok, time, pulled, faults, request>>

-----------------------------------------------------------------------------

Next ==
  \/ Connect \/ UseNative \/ DropNative \/ DropFails \/ UseOpenCv \/ ConnectFails
  \/ StartNative \/ Started \/ StartOpenCv
  \/ PullNative \/ Pulled \/ PullOpenCv
  \/ StopNative \/ Stopped \/ SessionEnds \/ StopOpenCv
  \/ Destroy \/ DestroyCloses \/ DestroyMember \/ Destroyed
  \/ DeviceStep /\ UNCHANGED sessionVars

Spec == Init /\ [][Next]_vars

-----------------------------------------------------------------------------
(***************************************************************************)
(* Properties                                                              *)
(***************************************************************************)

Row ==
  [asked : Values \cup {"none"}, actual : Values \cup {"none"},
   status : {"none", "applied", "adjusted", "unsupported"}]

Rows == [{"format", "fps"} -> Row]

\* Every variable keeps its type.
TypeOK ==
  /\ DeviceTypeOK
  /\ at \in {"idle", "open", "drop", "start", "pull", "stop", "close",
             "destroy", "destroyClose", "member"}
  /\ session \subseteq {"connected", "running", "native"}
  /\ opencv \in {"absent", "closed", "open"}
  /\ request \in [format : Values \cup {"none"}, fps : Values \cup {"none"}]
  /\ {rows, stale} \subseteq Rows
  /\ delivered \in 0 .. MaxFrames
  /\ discarded \in 0 .. MaxFrames

\* What the backend believes of its camera is so: a native session holds an open
\* device, which streams exactly while the session runs, and another one an open
\* OpenCV capture; a backend without a session holds no device, unless a close failed.
SessionMatchesDevice ==
  at = "idle" =>
    /\ "running" \in session => "connected" \in session
    /\ "native" \in session => "connected" \in session /\ dev.open /\ dev.method = "mmap"
    /\ dev.streaming <=> {"native", "running"} \subseteq session
    /\ "connected" \in session /\ "native" \notin session <=> opencv = "open"
    /\ dev.open /\ "native" \notin session => "close" \in faults

\* The pixel format that OpenCV sets last may change the rate after it was read back.
KeysReadLast ==
  IF "native" \in session \/ request.format = "none" THEN {"format", "fps"} ELSE {"format"}

\* The last row that config_verify.json has of a control.
LastRow(key) == IF rows[key].status = "none" THEN stale[key] ELSE rows[key]

\* The last row that config_verify.json has of a control tells what the driver captures
\* with, until the session ends: one that says applied names the value in use, and one
\* that says adjusted names it, too.  Rows of another device than the one captured from
\* come before it only where OpenCV has taken over from a device that cannot stream.
\* Those say what that device answered, and may be wrong by now.
RowsTellTruth ==
  at = "idle" /\ "connected" \in session =>
    /\ \A key \in KeysReadLast :
         LET row == LastRow(key)
         IN  row.status \in {"applied", "adjusted"} =>
               /\ row.asked = request[key]
               /\ kernel[key] = row.actual
               /\ row.status = "applied" <=> kernel[key] = request[key]
    /\ "native" \in session => stale = NoRows

\* A camera is never captured along both paths: while OpenCV has it, the backend
\* has no descriptor of its own open on it, unless a close failed.
OneCapturePath ==
  opencv = "open" /\ kernel.opened > 0 => "close" \in faults

\* Frame ids count the frames of a session: each is given to one frame, and the
\* caller misses only those of pulls that failed.
FramesAccounted == at = "idle" => nextId = delivered + discarded

\* A backend whose session has ended can open its device again, even where its
\* teardown returned an error.
CanReconnect ==
  at = "idle" /\ session = NoSession => ~dev.open
=============================================================================
