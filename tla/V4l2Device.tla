----------------------------- MODULE V4l2Device -----------------------------
(***************************************************************************)
(* V4l2CaptureDevice of src/src/backends/webcam/linux/v4l2_capture_device  *)
(* with the part of the kernel's driver it talks to.  One action per       *)
(* system call; between them the device is inside one of its methods, and  *)
(* the caller waits.  Every call may fail.                                 *)
(*                                                                         *)
(* A module that extends this one makes the calls, at pc = "ready", and    *)
(* finds their result in ok.                                               *)
(***************************************************************************)
EXTENDS Integers

CONSTANTS
  MaxBuffers,   \* buffers the driver may grant
  PollBudget,   \* polls that fit into the time of one pull
  MaxFrames,    \* bound: frame ids handed out in a session
  MaxOpen,      \* bound: descriptors this program has on the device, leaked ones too
  Methods       \* ways to capture the driver may offer: "mmap", "read"

ASSUME DeviceAssumption ==
  /\ MaxBuffers \in Nat \ {0}
  /\ PollBudget \in Nat \ {0}
  /\ MaxFrames \in Nat
  /\ MaxOpen \in Nat
  /\ Methods \subseteq {"mmap", "read"}

VARIABLES
  dev,     \* the object's fields
  kernel,  \* the driver's
  pc,      \* the system call the method in progress comes to next
  call,    \* that method
  ok,      \* no call of it has failed; at "ready": its result
  time,    \* polls left in this pull
  nextId,  \* next_frame_id, the caller's, taken by reference
  pulled,  \* frames of this pull
  faults   \* history: the system calls that have failed to give something back since
           \* an open found the driver idle

deviceVars == <<dev, kernel, pc, call, ok, time, nextId, pulled, faults>>

\* fd_ is valid; capture_method_; mmap_buffers_ (while they are unmapped: those
\* still to do); mmap_buffers_allocated_; streaming_.
Closed ==
  [open |-> FALSE, method |-> "mmap", buffers |-> 0, allocated |-> FALSE, streaming |-> FALSE]

\* Descriptors; buffers granted, mapped and queued; STREAMON; and the values that are
\* negotiated, which outlive them.
Values == {"a", "b"}

IdleKernel(format, fps) ==
  [opened |-> 0, granted |-> 0, mapped |-> 0, queued |-> 0, streaming |-> FALSE,
   format |-> format, fps |-> fps]

DeviceInit ==
  /\ dev = Closed
  /\ kernel \in {IdleKernel(format, fps) : format, fps \in Values}
  /\ pc = "ready"
  /\ call = "none"
  /\ ok = TRUE
  /\ time = 0
  /\ nextId = 0
  /\ pulled = 0
  /\ faults = {}

-----------------------------------------------------------------------------
(***************************************************************************)
(* The calls                                                               *)
(***************************************************************************)

Enter(method, at) ==
  /\ pc = "ready"
  /\ pc' = at
  /\ call' = method
  /\ ok' = TRUE

Leave(result) ==
  /\ pc' = "ready"
  /\ call' = "none"
  /\ ok' = result

\* A method that returns before its first system call.
Decline(result) ==
  /\ pc = "ready"
  /\ ok' = result
  /\ UNCHANGED <<dev, kernel, pc, call, time, nextId, pulled, faults>>

Idle(k) == k = IdleKernel(k.format, k.fps)

CallOpen ==
  IF dev.open THEN Decline(FALSE)
  ELSE /\ Enter("open", "open")
       /\ faults' = IF Idle(kernel) THEN {} ELSE faults
       /\ UNCHANGED <<dev, kernel, time, nextId, pulled>>

\* Buffers of an earlier stream are never found here (StreamBacked), and that branch
\* of the code, a call of StopStreaming, is left out.
CallStart ==
  IF ~dev.open \/ dev.method # "mmap" \/ dev.streaming THEN Decline(FALSE)
  ELSE Enter("start", "request") /\ UNCHANGED <<dev, kernel, time, nextId, pulled, faults>>

CallPull ==
  IF ~dev.open \/ ~dev.streaming THEN Decline(FALSE)
  ELSE /\ Enter("pull", "poll")
       /\ time' = PollBudget
       /\ pulled' = 0
       /\ UNCHANGED <<dev, kernel, nextId, faults>>

\* Of a closed device: its fields are cleared.
CallStop ==
  IF ~dev.open
  THEN /\ pc = "ready"
       /\ ok' = TRUE
       /\ dev' = [dev EXCEPT !.buffers = 0, !.allocated = FALSE, !.streaming = FALSE]
       /\ UNCHANGED <<kernel, pc, call, time, nextId, pulled, faults>>
  ELSE Enter("stop", "streamoff") /\ UNCHANGED <<dev, kernel, time, nextId, pulled, faults>>

CallClose ==
  IF ~dev.open THEN Decline(TRUE)
  ELSE Enter("close", "streamoff") /\ UNCHANGED <<dev, kernel, time, nextId, pulled, faults>>

-----------------------------------------------------------------------------
(***************************************************************************)
(* Open                                                                    *)
(***************************************************************************)

OpenDescriptor ==
  /\ pc = "open"
  /\ \/ /\ kernel.opened < MaxOpen
        /\ kernel' = [kernel EXCEPT !.opened = @ + 1]
        /\ pc' = "probe"
        /\ UNCHANGED <<call, ok>>
     \/ Leave(FALSE) /\ UNCHANGED kernel
  /\ UNCHANGED <<dev, time, nextId, pulled, faults>>

\* Broken form: an unsuitable device is left open.
ProbeLeavesOpen ==
  /\ pc = "probe"
  /\ \/ \E method \in Methods :
          dev' = [Closed EXCEPT !.open = TRUE, !.method = method] /\ Leave(TRUE)
     \/ Leave(FALSE) /\ UNCHANGED dev
  /\ UNCHANGED <<kernel, time, nextId, pulled, faults>>

\* VIDIOC_QUERYCAP and ChooseCaptureMethod.
Probe ==
  /\ pc = "probe"
  /\ \/ \E method \in Methods :
          dev' = [Closed EXCEPT !.open = TRUE, !.method = method] /\ Leave(TRUE)
     \/ pc' = "abandon" /\ UNCHANGED <<dev, call, ok>>
  /\ UNCHANGED <<kernel, time, nextId, pulled, faults>>

\* Without a descriptor and a mapping, the driver forgets the stream.
Settled(k) ==
  IF k.opened > 0 \/ k.mapped > 0 THEN k ELSE IdleKernel(k.format, k.fps)

DescriptorClosed ==
  /\ kernel' = Settled([kernel EXCEPT !.opened = @ - 1])
  /\ UNCHANGED faults

DescriptorNotClosed ==
  /\ faults' = faults \cup {"close"}
  /\ UNCHANGED kernel

\* The descriptor of an unsuitable device is closed, with no look at the result.
Abandon ==
  /\ pc = "abandon"
  /\ DescriptorClosed \/ DescriptorNotClosed
  /\ Leave(FALSE)
  /\ UNCHANGED <<dev, time, nextId, pulled>>

-----------------------------------------------------------------------------
(***************************************************************************)
(* ApplyRequestedFormatBestEffort: what a request makes of the driver and  *)
(* which rows it reports.  Width and height, set and read back together    *)
(* with the pixel format, are left out.                                    *)
(***************************************************************************)

NoRows == [key \in {"format", "fps"} |-> [asked |-> "none", actual |-> "none", status |-> "none"]]

ReadBack(asked, actual) ==
  [asked |-> asked, actual |-> actual,
   status |-> IF actual = asked THEN "applied" ELSE "adjusted"]

NotConfirmed(asked) == [asked |-> asked, actual |-> "none", status |-> "unsupported"]

\* S_FMT may change the frame interval, too.
FormatSet(s, asked) ==
  IF asked = "none" THEN {s}
  ELSE {[s EXCEPT !.rows["format"] = NotConfirmed(asked)]}
       \cup {[driver |-> [s.driver EXCEPT !.format = v.format, !.fps = v.fps],
              rows |-> [s.rows EXCEPT !["format"] = ReadBack(asked, v.format)]] :
               v \in [format : Values, fps : Values]}

\* A frame rate that was set is not confirmed unless it can be read back.
RateSet(s, asked) ==
  IF asked = "none" THEN {s}
  ELSE {[driver |-> [s.driver EXCEPT !.fps = fps],
         rows |-> [s.rows EXCEPT !["fps"] = NotConfirmed(asked)]] : fps \in Values}
       \cup {[driver |-> [s.driver EXCEPT !.fps = fps],
              rows |-> [s.rows EXCEPT !["fps"] = ReadBack(asked, fps)]] : fps \in Values}

\* Broken form: the rate first.
NegotiatedBackwards(request) ==
  UNION {FormatSet(s, request.format) :
           s \in RateSet([driver |-> kernel, rows |-> NoRows], request.fps)}

\* The format first, then the rate.
Negotiated(request) ==
  UNION {RateSet(s, request.fps) :
           s \in FormatSet([driver |-> kernel, rows |-> NoRows], request.format)}

-----------------------------------------------------------------------------
(***************************************************************************)
(* StartMmapStreaming                                                      *)
(***************************************************************************)

\* VIDIOC_REQBUFS: a driver that streams already is busy.
RequestBuffers ==
  /\ pc = "request"
  /\ \/ /\ ~kernel.streaming
        /\ \E n \in 1 .. MaxBuffers : kernel' = [kernel EXCEPT !.granted = n, !.queued = 0]
        /\ dev' = [dev EXCEPT !.allocated = TRUE]
        /\ pc' = "map"
        /\ UNCHANGED <<call, ok>>
     \/ Leave(FALSE) /\ UNCHANGED <<dev, kernel>>
  /\ UNCHANGED <<time, nextId, pulled, faults>>

\* VIDIOC_QUERYBUF and mmap of the next buffer.
MapBuffer ==
  /\ pc = "map"
  /\ kernel' = [kernel EXCEPT !.mapped = @ + 1]
  /\ dev' = [dev EXCEPT !.buffers = @ + 1]
  /\ pc' = "queue"
  /\ UNCHANGED <<call, ok, time, nextId, pulled, faults>>

\* Broken form: one buffer too many.
QueueBufferPastEnd ==
  /\ pc = "queue"
  /\ kernel' = [kernel EXCEPT !.queued = @ + 1]
  /\ pc' = IF dev.buffers > kernel.granted THEN "streamon" ELSE "map"
  /\ UNCHANGED <<dev, call, ok, time, nextId, pulled, faults>>

QueueBuffer ==
  /\ pc = "queue"
  /\ kernel' = [kernel EXCEPT !.queued = @ + 1]
  /\ pc' = IF dev.buffers = kernel.granted THEN "streamon" ELSE "map"
  /\ UNCHANGED <<dev, call, ok, time, nextId, pulled, faults>>

StreamOn ==
  /\ pc = "streamon"
  /\ kernel' = [kernel EXCEPT !.streaming = TRUE]
  /\ dev' = [dev EXCEPT !.streaming = TRUE]
  /\ Leave(TRUE)
  /\ UNCHANGED <<time, nextId, pulled, faults>>

\* Broken form: returns at once.
StartGivesUpAtOnce ==
  /\ pc \in {"map", "queue", "streamon"}
  /\ Leave(FALSE)
  /\ UNCHANGED <<dev, kernel, time, nextId, pulled, faults>>

\* Any of the calls fails: release_allocated_buffers.
StartGivesUp ==
  /\ pc \in {"map", "queue", "streamon"}
  /\ pc' = "unmap"
  /\ ok' = FALSE
  /\ UNCHANGED <<dev, kernel, call, time, nextId, pulled, faults>>

-----------------------------------------------------------------------------
(***************************************************************************)
(* PullFrames                                                              *)
(***************************************************************************)

NewFrame ==
  /\ nextId' = nextId + 1
  /\ pulled' = pulled + 1

\* A poll that is interrupted, that brings nothing, or that finds a buffer.
Poll ==
  /\ pc = "poll" /\ time > 0
  /\ time' = time - 1
  /\ \/ UNCHANGED <<pc, nextId, pulled>>
     \/ NewFrame /\ UNCHANGED pc
     \/ pc' = "dequeue" /\ UNCHANGED <<nextId, pulled>>
  /\ UNCHANGED <<dev, kernel, call, ok, faults>>

\* VIDIOC_DQBUF: there is a frame, whole or not, or it was nothing after all (EAGAIN).
Dequeue ==
  /\ pc = "dequeue"
  /\ NewFrame
  /\ \/ /\ kernel.queued > 0
        /\ kernel' = [kernel EXCEPT !.queued = @ - 1]
        /\ pc' = "requeue"
     \/ UNCHANGED kernel /\ pc' = "poll"
  /\ UNCHANGED <<dev, call, ok, time, faults>>

Requeue ==
  /\ pc = "requeue"
  /\ kernel' = [kernel EXCEPT !.queued = @ + 1]
  /\ pc' = "poll"
  /\ UNCHANGED <<dev, call, ok, time, nextId, pulled, faults>>

\* The ids of the frames in hand stay taken.
PullFails ==
  /\ pc \in {"poll", "dequeue", "requeue"}
  /\ Leave(FALSE)
  /\ faults' = IF pc = "requeue" THEN faults \cup {"requeue"} ELSE faults
  /\ time' = 0
  /\ UNCHANGED <<dev, kernel, nextId, pulled>>

PullEnds ==
  /\ pc = "poll" /\ time = 0
  /\ Leave(TRUE)
  /\ UNCHANGED <<dev, kernel, time, nextId, pulled, faults>>

-----------------------------------------------------------------------------
(***************************************************************************)
(* StopStreaming, which Close begins with, and Close                       *)
(***************************************************************************)

\* Broken form: the flag is cleared before it is tested.
StreamOffForgotten ==
  /\ pc = "streamoff"
  /\ dev' = [dev EXCEPT !.streaming = FALSE]
  /\ pc' = "unmap"
  /\ UNCHANGED <<kernel, call, ok, time, nextId, pulled, faults>>

StreamOff ==
  /\ pc = "streamoff"
  /\ dev' = [dev EXCEPT !.streaming = FALSE]
  /\ pc' = "unmap"
  /\ \/ ~dev.streaming /\ UNCHANGED <<kernel, ok, faults>>
     \/ /\ dev.streaming
        /\ kernel' = [kernel EXCEPT !.streaming = FALSE, !.queued = 0]
        /\ UNCHANGED <<ok, faults>>
     \/ /\ dev.streaming
        /\ ok' = FALSE
        /\ faults' = faults \cup {"streamoff"}
        /\ UNCHANGED kernel
  /\ UNCHANGED <<call, time, nextId, pulled>>

\* Bound: one mapping is lost.
UnmapBuffer ==
  /\ pc = "unmap" /\ dev.buffers > 0
  /\ dev' = [dev EXCEPT !.buffers = @ - 1]
  /\ \/ kernel' = [kernel EXCEPT !.mapped = @ - 1] /\ UNCHANGED <<ok, faults>>
     \/ /\ "munmap" \notin faults
        /\ ok' = FALSE
        /\ faults' = faults \cup {"munmap"}
        /\ UNCHANGED kernel
  /\ UNCHANGED <<pc, call, time, nextId, pulled>>

\* Back to whoever wanted the stream released.
Released(result) ==
  /\ IF call = "close" THEN pc' = "close" /\ UNCHANGED call
     ELSE pc' = "ready" /\ call' = "none"
  /\ ok' = result

NothingAllocated ==
  /\ pc = "unmap" /\ dev.buffers = 0 /\ ~dev.allocated
  /\ Released(ok)
  /\ UNCHANGED <<dev, kernel, time, nextId, pulled, faults>>

\* VIDIOC_REQBUFS of no buffers; a driver that streams is busy.
ReleaseBuffers ==
  /\ pc = "unmap" /\ dev.buffers = 0 /\ dev.allocated
  /\ dev' = [dev EXCEPT !.allocated = FALSE]
  /\ \/ /\ ~kernel.streaming
        /\ kernel' = [kernel EXCEPT !.granted = 0, !.queued = 0]
        /\ Released(ok)
        /\ UNCHANGED faults
     \/ /\ Released(FALSE)
        /\ faults' = faults \cup {"reqbufs"}
        /\ UNCHANGED kernel
  /\ UNCHANGED <<time, nextId, pulled>>

CloseDescriptor ==
  /\ pc = "close"
  /\ DescriptorClosed
  /\ dev' = Closed
  /\ Leave(ok)
  /\ UNCHANGED <<time, nextId, pulled>>

\* The object keeps its descriptor.
CloseFails ==
  /\ pc = "close"
  /\ DescriptorNotClosed
  /\ Leave(FALSE)
  /\ UNCHANGED <<dev, time, nextId, pulled>>

DeviceStep ==
  \/ OpenDescriptor \/ Probe \/ Abandon
  \/ RequestBuffers \/ MapBuffer \/ QueueBuffer \/ StreamOn \/ StartGivesUp
  \/ Poll \/ Dequeue \/ Requeue \/ PullFails \/ PullEnds
  \/ StreamOff \/ UnmapBuffer \/ NothingAllocated \/ ReleaseBuffers
  \/ CloseDescriptor \/ CloseFails

-----------------------------------------------------------------------------
(***************************************************************************)
(* Properties                                                              *)
(***************************************************************************)

Places ==
  {"ready", "open", "probe", "abandon", "request", "map", "queue", "streamon", "poll",
   "dequeue", "requeue", "streamoff", "unmap", "close"}

Device ==
  [open : BOOLEAN, method : {"mmap", "read"}, buffers : 0 .. MaxBuffers,
   allocated : BOOLEAN, streaming : BOOLEAN]

Kernel ==
  [opened : 0 .. MaxOpen, granted : 0 .. MaxBuffers, mapped : 0 .. MaxBuffers + 1, queued : 0 .. MaxBuffers,
   streaming : BOOLEAN, format : Values, fps : Values]

\* The device's part of the type invariant: it never counts more buffers than the
\* driver granted, nor does the driver's queue.
DeviceTypeOK ==
  /\ dev \in Device
  /\ kernel \in Kernel
  /\ pc \in Places
  /\ call \in {"none", "open", "start", "pull", "stop", "close"}
  /\ ok \in BOOLEAN
  /\ time \in 0 .. PollBudget
  /\ nextId \in 0 .. MaxFrames
  /\ pulled \in 0 .. PollBudget
  /\ faults \subseteq {"close", "streamoff", "munmap", "reqbufs", "requeue"}

\* Between calls there is a stream with all its buffers, or none of it: the object
\* holds buffers exactly if it streams, and then the driver streams with the same
\* number of buffers, all of them queued unless a requeue has failed, and all of them
\* mapped.
StreamBacked ==
  pc = "ready" =>
    /\ dev.allocated <=> dev.streaming
    /\ dev.streaming =>
         /\ dev.open /\ kernel.streaming
         /\ dev.buffers > 0 /\ dev.buffers = kernel.granted
         /\ "munmap" \notin faults => kernel.mapped = dev.buffers
         /\ "requeue" \notin faults => kernel.queued = kernel.granted
    /\ ~dev.streaming => dev.buffers = 0

\* Buffers are given back to the driver in order: when that call is made, the stream
\* is off and nothing is mapped, unless the calls to get there have failed.
TeardownInOrder ==
  pc = "unmap" /\ dev.buffers = 0 /\ dev.allocated =>
    /\ kernel.streaming => "streamoff" \in faults
    /\ kernel.mapped > 0 => "munmap" \in faults

\* Once the object is closed the driver is free for another program, whatever else
\* failed on the way: only a close or an unmapping that failed can leave it busy.
ClosedDeviceIsFree ==
  pc = "ready" /\ ~dev.open /\ {"close", "munmap"} \cap faults = {} =>
    Idle(kernel)
=============================================================================
