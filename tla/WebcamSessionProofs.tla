------------------------ MODULE WebcamSessionProofs ------------------------
(***************************************************************************)
(* Theorems about WebcamSession: what its device's buffers, its flags and  *)
(* its frame ids keep to, for every number of buffers, polls and           *)
(* descriptors, and every system call that fails.                          *)
(***************************************************************************)
EXTENDS WebcamSession, TLAPS

Opening == {"open", "probe", "abandon"}
Preparing == {"request", "map", "queue", "streamon"}
Pulling == {"poll", "dequeue", "requeue"}
Releasing == {"streamoff", "unmap", "close"}

\* Which method a system call belongs to, and what that method has established.
CallInv ==
  /\ pc = "ready" => call = "none"
  /\ pc \in Opening => call = "open" /\ ~dev.open
  /\ pc \in Preparing => call = "start" /\ dev.open /\ dev.method = "mmap" /\ ~dev.streaming
  /\ pc \in Pulling => call = "pull" /\ dev.open /\ dev.streaming
  /\ pc \in Releasing => dev.open
  /\ pc = "streamoff" => call \in {"stop", "close"}
  /\ pc = "unmap" => call \in {"start", "stop", "close"} /\ ~dev.streaming
  /\ pc = "unmap" /\ call = "start" => ~ok
  /\ pc = "close" => call = "close" /\ ~dev.streaming /\ ~dev.allocated /\ dev.buffers = 0

\* The object's view of its buffers.
BufferInv ==
  /\ ~dev.open => ~dev.streaming
  /\ ~dev.allocated => dev.buffers = 0
  /\ dev.streaming => dev.allocated
  /\ dev.allocated /\ ~dev.streaming => pc \in {"map", "queue", "streamon", "unmap"}
  /\ dev.allocated /\ pc # "unmap" => dev.buffers <= kernel.granted
  /\ pc = "map" => dev.allocated /\ dev.buffers < kernel.granted
  /\ pc = "queue" => dev.allocated /\ dev.buffers > 0
  /\ pc = "streamon" => dev.allocated /\ dev.buffers > 0 /\ dev.buffers = kernel.granted

\* The driver's view of them.
QueueInv ==
  /\ pc = "map" => kernel.queued = dev.buffers
  /\ pc = "queue" => kernel.queued = dev.buffers - 1
  /\ pc = "streamon" => kernel.queued = dev.buffers
  /\ dev.streaming =>
       /\ kernel.streaming
       /\ dev.buffers > 0 /\ dev.buffers = kernel.granted
       /\ kernel.queued <= kernel.granted
       /\ pc = "requeue" => kernel.queued < kernel.granted
       /\ "requeue" \notin faults =>
            kernel.queued = IF pc = "requeue" THEN kernel.granted - 1 ELSE kernel.granted

\* Where the driver holds more than the object knows of, a call has failed.
LostMapping == IF "munmap" \in faults THEN 1 ELSE 0

FaultInv ==
  /\ kernel.mapped = dev.buffers + LostMapping
  /\ kernel.streaming => dev.streaming \/ "streamoff" \in faults
  /\ kernel.opened = 0 /\ kernel.mapped = 0 => Idle(kernel)
  /\ dev.open \/ pc \in {"probe", "abandon"} => kernel.opened > 0
  /\ "close" \notin faults =>
       kernel.opened = IF dev.open \/ pc \in {"probe", "abandon"} THEN 1 ELSE 0

\* Frames of a pull in progress have their ids, and nobody else's have changed.
FrameInv ==
  /\ nextId = delivered + discarded + pulled
  /\ at # "pull" => pulled = 0
  /\ pc \notin Pulling => time = 0
  /\ pulled + time + (IF pc = "dequeue" THEN 1 ELSE 0) <= PollBudget
  /\ nextId + time + (IF pc = "dequeue" THEN 1 ELSE 0) <= MaxFrames

\* Which system calls a method of the backend waits for.
WaitInv ==
  /\ at = "idle" => pc = "ready"
  /\ at = "open" => pc \in Opening \cup {"ready"}
  /\ at = "start" => pc \in Preparing \cup {"unmap", "ready"} /\ (pc = "unmap" => call = "start")
  /\ at = "pull" => pc \in Pulling \cup {"ready"}
  /\ at \in {"stop", "destroy"} =>
       pc \in {"streamoff", "unmap", "ready"} /\ (pc # "ready" => call = "stop")
  /\ at \in {"drop", "close", "destroyClose", "member"} =>
       pc \in Releasing \cup {"ready"} /\ (pc # "ready" => call = "close")

\* What the flags say of the device while a method is under way, and what it will
\* find when the device returns.
SessionInv ==
  /\ "running" \in session => "connected" \in session
  /\ "native" \in session => "connected" \in session
  /\ "native" \in session /\ at \notin {"close", "destroyClose", "member"} => dev.open /\ dev.method = "mmap"
  /\ at \in {"open", "drop"} => session = {}
  /\ at \in {"start", "destroy", "destroyClose"} => "native" \in session
  /\ at = "start" => "running" \notin session
  /\ at \in {"pull", "stop", "close"} => {"native", "running"} \subseteq session
  /\ at \in {"idle", "pull"} => (dev.streaming <=> {"native", "running"} \subseteq session)
  /\ at = "start" /\ pc = "ready" => (ok <=> dev.streaming)
  /\ at \in {"open", "drop"} => ~dev.streaming
  /\ at = "drop" => ~dev.allocated /\ (pc # "ready" => ok)
  /\ at \in {"stop", "destroy", "close", "destroyClose", "member"} /\ pc = "ready" => ~dev.streaming
  /\ at \in {"close", "destroyClose", "member"} /\ pc = "ready" /\ dev.open => "close" \in faults
  /\ at = "drop" /\ pc = "ready" => IF ok THEN ~dev.open ELSE "close" \in faults
  /\ at = "open" /\ pc = "ready" /\ ~ok => (dev.open => "close" \in faults)
  /\ at = "open" /\ pc = "ready" /\ ok => dev.open
  /\ at = "idle" /\ dev.open /\ "native" \notin session => "close" \in faults

OpenCvInv ==
  /\ opencv = "open" => at = "idle"
  /\ at = "idle" => ("connected" \in session /\ "native" \notin session <=> opencv = "open")

StateInv ==
  /\ CallInv /\ BufferInv /\ QueueInv /\ FaultInv
  /\ FrameInv /\ WaitInv /\ SessionInv /\ OpenCvInv

WebcamInv == TypeOK /\ StateInv

-----------------------------------------------------------------------------

\* An idle driver, field by field.
LEMMA IdleFields ==
  ASSUME NEW k \in Kernel
  PROVE  Idle(k) <=> /\ k.opened = 0 /\ k.granted = 0 /\ k.mapped = 0
                     /\ k.queued = 0 /\ k.streaming = FALSE
PROOF BY DeviceAssumption DEF Idle, IdleKernel, Kernel

\* A closed descriptor leaves the driver's count one lower; the last one, with nothing
\* mapped, leaves it idle.
LEMMA ClosingSettles ==
  ASSUME kernel \in Kernel, kernel.opened > 0, DescriptorClosed
  PROVE  /\ kernel' \in Kernel
         /\ kernel'.opened = kernel.opened - 1
         /\ kernel'.mapped = kernel.mapped
         /\ kernel'.streaming => kernel.streaming
         /\ kernel'.opened = 0 /\ kernel'.mapped = 0 => Idle(kernel')
         /\ faults' = faults
PROOF
  <1> USE DeviceAssumption DEF Kernel
  <1> DEFINE k == [kernel EXCEPT !.opened = @ - 1]
  <1>1. k \in Kernel /\ k.opened = kernel.opened - 1 /\ k.mapped = kernel.mapped
        /\ k.streaming = kernel.streaming /\ k.format \in Values /\ k.fps \in Values
    OBVIOUS
  <1>2. kernel' = Settled(k) /\ faults' = faults
    BY DEF DescriptorClosed
  <1> HIDE DEF k
  <1>3. CASE k.opened > 0 \/ k.mapped > 0
    BY <1>1, <1>2, <1>3 DEF Settled
  <1>4. CASE ~(k.opened > 0 \/ k.mapped > 0)
    <2>1. kernel' = IdleKernel(k.format, k.fps)
      BY <1>2, <1>4 DEF Settled
    <2>2. k.opened = 0 /\ k.mapped = 0
      BY <1>1, <1>4
    <2> QED BY <1>1, <1>2, <2>1, <2>2 DEF IdleKernel, Idle
  <1> QED BY <1>3, <1>4

\* Every system call of the device keeps the types.
LEMMA DeviceStepTypes ==
  ASSUME WebcamInv, DeviceStep, UNCHANGED sessionVars
  PROVE  TypeOK'
PROOF
  <1> USE DeviceAssumption
  <1>1. dev \in Device /\ kernel \in Kernel /\ TypeOK
    BY DEF WebcamInv, TypeOK, DeviceTypeOK
  <1>2. dev' \in Device
    <2>1. CASE OpenDescriptor BY <1>1, <2>1 DEF OpenDescriptor, Device
    <2>2. CASE Probe
      <3>1. ASSUME NEW method \in Methods, dev' = [Closed EXCEPT !.open = TRUE, !.method = method]
            PROVE  dev' \in Device
        <4>1. dev' = [open |-> TRUE, method |-> method, buffers |-> 0, allocated |-> FALSE,
                      streaming |-> FALSE]
          BY <3>1 DEF Closed
        <4>2. method \in {"mmap", "read"} /\ 0 \in 0 .. MaxBuffers
          BY <3>1
        <4> QED BY <4>1, <4>2 DEF Device
      <3>2. CASE UNCHANGED dev
        BY <1>1, <3>2
      <3> QED BY <2>2, <3>1, <3>2 DEF Probe
    <2>3. CASE Abandon BY <1>1, <2>3 DEF Abandon, Device
    <2>4. CASE RequestBuffers BY <1>1, <2>4 DEF RequestBuffers, Device
    <2>5. CASE MapBuffer BY <1>1, <2>5 DEF MapBuffer, Device, WebcamInv, StateInv, BufferInv, TypeOK, DeviceTypeOK, Kernel
    <2>6. CASE QueueBuffer BY <1>1, <2>6 DEF QueueBuffer, Device
    <2>7. CASE StreamOn BY <1>1, <2>7 DEF StreamOn, Device
    <2>8. CASE StartGivesUp BY <1>1, <2>8 DEF StartGivesUp, Device
    <2>9. CASE Poll BY <1>1, <2>9 DEF Poll, Device
    <2>10. CASE Dequeue BY <1>1, <2>10 DEF Dequeue, Device
    <2>11. CASE Requeue BY <1>1, <2>11 DEF Requeue, Device
    <2>12. CASE PullFails BY <1>1, <2>12 DEF PullFails, Device
    <2>13. CASE PullEnds BY <1>1, <2>13 DEF PullEnds, Device
    <2>14. CASE StreamOff BY <1>1, <2>14 DEF StreamOff, Device
    <2>15. CASE UnmapBuffer BY <1>1, <2>15 DEF UnmapBuffer, Device, WebcamInv, StateInv, BufferInv, TypeOK, DeviceTypeOK, Kernel
    <2>16. CASE NothingAllocated BY <1>1, <2>16 DEF NothingAllocated, Device
    <2>17. CASE ReleaseBuffers BY <1>1, <2>17 DEF ReleaseBuffers, Device
    <2>18. CASE CloseDescriptor BY <1>1, <2>18 DEF CloseDescriptor, Device, Closed
    <2>19. CASE CloseFails BY <1>1, <2>19 DEF CloseFails, Device
    <2> QED BY <2>1, <2>2, <2>3, <2>4, <2>5, <2>6, <2>7, <2>8, <2>9, <2>10, <2>11, <2>12, <2>13, <2>14, <2>15, <2>16, <2>17, <2>18, <2>19 DEF DeviceStep
  <1>3. kernel' \in Kernel
    <2>1. CASE OpenDescriptor
      <3>1. CASE kernel.opened < MaxOpen /\ kernel' = [kernel EXCEPT !.opened = @ + 1]
        <4>1. kernel.opened + 1 \in 0 .. MaxOpen
          BY <1>1, <3>1 DEF Kernel
        <4> QED BY <1>1, <3>1, <4>1 DEF Kernel
      <3>2. CASE UNCHANGED kernel
        BY <1>1, <3>2
      <3> QED BY <2>1, <3>1, <3>2 DEF OpenDescriptor
    <2>2. CASE Probe BY <1>1, <2>2 DEF Probe, Kernel
    <2>3. CASE Abandon BY <1>1, <2>3, ClosingSettles DEF Abandon, Kernel, DescriptorNotClosed, WebcamInv, StateInv, FaultInv
    <2>4. CASE RequestBuffers
      <3>1. ASSUME NEW n \in 1 .. MaxBuffers, kernel' = [kernel EXCEPT !.granted = n, !.queued = 0]
            PROVE  kernel' \in Kernel
        <4>1. n \in 0 .. MaxBuffers /\ 0 \in 0 .. MaxBuffers
          BY <3>1
        <4> QED BY <1>1, <3>1, <4>1 DEF Kernel
      <3>2. CASE UNCHANGED kernel
        BY <1>1, <3>2
      <3> QED BY <2>4, <3>1, <3>2 DEF RequestBuffers
    <2>5. CASE MapBuffer BY <1>1, <2>5 DEF MapBuffer, Kernel, WebcamInv, StateInv, BufferInv, FaultInv, LostMapping, Device
    <2>6. CASE QueueBuffer BY <1>1, <2>6 DEF QueueBuffer, Kernel, WebcamInv, StateInv, BufferInv, QueueInv, Device
    <2>7. CASE StreamOn BY <1>1, <2>7 DEF StreamOn, Kernel
    <2>8. CASE StartGivesUp BY <1>1, <2>8 DEF StartGivesUp, Kernel
    <2>9. CASE Poll BY <1>1, <2>9 DEF Poll, Kernel
    <2>10. CASE Dequeue BY <1>1, <2>10 DEF Dequeue, Kernel, WebcamInv, StateInv, QueueInv, CallInv, Pulling
    <2>11. CASE Requeue BY <1>1, <2>11 DEF Requeue, Kernel, WebcamInv, StateInv, QueueInv, CallInv, Pulling
    <2>12. CASE PullFails BY <1>1, <2>12 DEF PullFails, Kernel
    <2>13. CASE PullEnds BY <1>1, <2>13 DEF PullEnds, Kernel
    <2>14. CASE StreamOff
      <3>1. CASE kernel' = [kernel EXCEPT !.streaming = FALSE, !.queued = 0]
        <4>1. 0 \in 0 .. MaxBuffers
          OBVIOUS
        <4> QED BY <1>1, <3>1, <4>1 DEF Kernel
      <3>2. CASE UNCHANGED kernel
        BY <1>1, <3>2
      <3> QED BY <2>14, <3>1, <3>2 DEF StreamOff
    <2>15. CASE UnmapBuffer BY <1>1, <2>15 DEF UnmapBuffer, Kernel, WebcamInv, StateInv, FaultInv, LostMapping, Device
    <2>16. CASE NothingAllocated BY <1>1, <2>16 DEF NothingAllocated, Kernel
    <2>17. CASE ReleaseBuffers
      <3>1. CASE kernel' = [kernel EXCEPT !.granted = 0, !.queued = 0]
        <4>1. 0 \in 0 .. MaxBuffers
          OBVIOUS
        <4> QED BY <1>1, <3>1, <4>1 DEF Kernel
      <3>2. CASE UNCHANGED kernel
        BY <1>1, <3>2
      <3> QED BY <2>17, <3>1, <3>2 DEF ReleaseBuffers
    <2>18. CASE CloseDescriptor BY <1>1, <2>18, ClosingSettles DEF CloseDescriptor, Kernel, WebcamInv, StateInv, FaultInv, CallInv, Releasing
    <2>19. CASE CloseFails BY <1>1, <2>19 DEF CloseFails, Kernel, DescriptorNotClosed
    <2> QED BY <2>1, <2>2, <2>3, <2>4, <2>5, <2>6, <2>7, <2>8, <2>9, <2>10, <2>11, <2>12, <2>13, <2>14, <2>15, <2>16, <2>17, <2>18, <2>19 DEF DeviceStep
  <1>4. faults' \subseteq {"close", "streamoff", "munmap", "reqbufs", "requeue"}
    BY <1>1 DEF DeviceStep, TypeOK, DeviceTypeOK, DescriptorClosed, DescriptorNotClosed, OpenDescriptor, Probe, Abandon, RequestBuffers, MapBuffer, QueueBuffer, StreamOn, StartGivesUp, Poll, Dequeue, Requeue, PullFails, PullEnds, StreamOff, UnmapBuffer, NothingAllocated, ReleaseBuffers, CloseDescriptor, CloseFails
  <1>5. pc' \in Places /\ call' \in {"none", "open", "start", "pull", "stop", "close"} /\ ok' \in BOOLEAN
    BY <1>1 DEF DeviceStep, TypeOK, DeviceTypeOK, Places, Leave, Released, OpenDescriptor, Probe, Abandon, RequestBuffers, MapBuffer, QueueBuffer, StreamOn, StartGivesUp, Poll, Dequeue, Requeue, PullFails, PullEnds, StreamOff, UnmapBuffer, NothingAllocated, ReleaseBuffers, CloseDescriptor, CloseFails
  <1>6. time' \in 0 .. PollBudget /\ nextId' \in 0 .. MaxFrames /\ pulled' \in 0 .. PollBudget
    <2> USE <1>1 DEF TypeOK, DeviceTypeOK
    <2>1. CASE UNCHANGED <<nextId, pulled>> /\ time' = 0
      BY <2>1
    <2>2. CASE UNCHANGED <<time, nextId, pulled>>
      BY <2>2
    <2>3. CASE Poll
      BY <2>3 DEF Poll, NewFrame, WebcamInv, StateInv, FrameInv
    <2>4. CASE Dequeue
      BY <2>4 DEF Dequeue, NewFrame, WebcamInv, StateInv, FrameInv
    <2> QED
      BY <2>1, <2>2, <2>3, <2>4 DEF DeviceStep, OpenDescriptor, Probe, Abandon, RequestBuffers,
         MapBuffer, QueueBuffer, StreamOn, StartGivesUp, Requeue, PullFails, PullEnds, StreamOff,
         UnmapBuffer, NothingAllocated, ReleaseBuffers, CloseDescriptor, CloseFails
  <1> QED BY <1>1, <1>2, <1>3, <1>4, <1>5, <1>6 DEF TypeOK, DeviceTypeOK, sessionVars

\* The system calls of the device keep it, whatever the backend waits for.
LEMMA DeviceStepKeeps ==
  ASSUME WebcamInv, DeviceStep, UNCHANGED sessionVars
  PROVE  StateInv'
PROOF
  <1> USE DeviceAssumption, SessionAssumption
      DEF WebcamInv, StateInv, TypeOK, DeviceTypeOK, Device, Kernel, Places, CallInv, BufferInv,
          QueueInv, FaultInv, LostMapping, FrameInv, WaitInv, SessionInv, OpenCvInv,
          Opening, Preparing, Pulling, Releasing, sessionVars
  <1>1. CASE OpenDescriptor
    <2> USE <1>1 DEF OpenDescriptor, Leave
    <2>2. CallInv' OBVIOUS
    <2>3. BufferInv' OBVIOUS
    <2>4. QueueInv' OBVIOUS
    <2>5. FaultInv' BY IdleFields
    <2>6. FrameInv' OBVIOUS
    <2>7. WaitInv' OBVIOUS
    <2>8. SessionInv' OBVIOUS
    <2>9. OpenCvInv' OBVIOUS
    <2> QED BY <2>2, <2>3, <2>4, <2>5, <2>6, <2>7, <2>8, <2>9
  <1>2. CASE Probe
    <2>1. ASSUME NEW method \in Methods, dev' = [Closed EXCEPT !.open = TRUE, !.method = method],
                 Leave(TRUE)
          PROVE  StateInv'
      <3>1. dev'.open = TRUE /\ dev'.buffers = 0 /\ dev'.allocated = FALSE /\ dev'.streaming = FALSE
        BY <2>1 DEF Closed
      <3>2. pc' = "ready" /\ call' = "none" /\ ok' = TRUE
        BY <2>1 DEF Leave
      <3>3. pc = "probe" /\ UNCHANGED <<kernel, time, nextId, pulled, faults>>
        BY <1>2 DEF Probe
      <3>4. kernel.mapped = 0 + LostMapping /\ ~dev.open /\ dev.buffers = 0 /\ ~dev.streaming
        BY <3>3
      <3>5. at = "open" /\ session = {}
        BY <3>3
      <3>10. CallInv' BY <3>1, <3>2, <3>3, <3>4, <3>5
      <3>11. BufferInv' BY <3>1, <3>2, <3>3, <3>4, <3>5
      <3>12. QueueInv' BY <3>1, <3>2, <3>3, <3>4, <3>5
      <3>13. FaultInv' BY <3>1, <3>2, <3>3, <3>4, <3>5
      <3>14. FrameInv' BY <3>1, <3>2, <3>3, <3>4, <3>5
      <3>15. WaitInv' BY <3>1, <3>2, <3>3, <3>4, <3>5
      <3>16. SessionInv' BY <3>1, <3>2, <3>3, <3>4, <3>5
      <3>17. OpenCvInv' BY <3>1, <3>2, <3>3, <3>4, <3>5
      <3> QED BY <3>10, <3>11, <3>12, <3>13, <3>14, <3>15, <3>16, <3>17
    <2>2. CASE pc' = "abandon" /\ UNCHANGED <<dev, call, ok>>
      BY <1>2, <2>2 DEF Probe
    <2> QED BY <1>2, <2>1, <2>2 DEF Probe
  <1>3. CASE Abandon
    <2>1. CASE DescriptorClosed
      BY <1>3, <2>1, ClosingSettles DEF Abandon, Leave
    <2>2. CASE DescriptorNotClosed
      BY <1>3, <2>2 DEF Abandon, DescriptorNotClosed, Leave
    <2> QED BY <1>3, <2>1, <2>2 DEF Abandon
  <1>4. CASE RequestBuffers
    <2>1. pc = "request" /\ UNCHANGED <<time, nextId, pulled, faults>>
      BY <1>4 DEF RequestBuffers
    <2>2. ASSUME NEW n \in 1 .. MaxBuffers, ~kernel.streaming,
                 kernel' = [kernel EXCEPT !.granted = n, !.queued = 0],
                 dev' = [dev EXCEPT !.allocated = TRUE],
                 pc' = "map", UNCHANGED <<call, ok>>
          PROVE  StateInv'
      <3>1. /\ kernel'.granted = n /\ kernel'.queued = 0 /\ kernel'.mapped = kernel.mapped
            /\ kernel'.opened = kernel.opened /\ kernel'.streaming = kernel.streaming
        BY <2>2
      <3>2. /\ dev'.allocated = TRUE /\ dev'.open = dev.open /\ dev'.method = dev.method
            /\ dev'.buffers = dev.buffers /\ dev'.streaming = dev.streaming
        BY <2>2
      <3>3. pc' = "map" /\ UNCHANGED <<call, ok>>
        BY <2>2
      <3>4. /\ dev.open /\ ~dev.streaming /\ ~dev.allocated /\ dev.buffers = 0 /\ dev.method = "mmap"
            /\ kernel.opened > 0
        BY <2>1
      <3>5. n \in Nat /\ n > 0
        OBVIOUS
      <3>10. CallInv' BY <2>1, <3>1, <3>2, <3>3, <3>4, <3>5
      <3>11. BufferInv' BY <2>1, <3>1, <3>2, <3>3, <3>4, <3>5
      <3>12. QueueInv' BY <2>1, <3>1, <3>2, <3>3, <3>4, <3>5
      <3>13. FaultInv' BY <2>1, <3>1, <3>2, <3>3, <3>4, <3>5
      <3>14. FrameInv' BY <2>1, <3>1, <3>2, <3>3, <3>4, <3>5
      <3>15. WaitInv' BY <2>1, <3>1, <3>2, <3>3, <3>4, <3>5
      <3>16. SessionInv' BY <2>1, <3>1, <3>2, <3>3, <3>4, <3>5
      <3>17. OpenCvInv' BY <2>1, <3>1, <3>2, <3>3, <3>4, <3>5
      <3> QED BY <3>10, <3>11, <3>12, <3>13, <3>14, <3>15, <3>16, <3>17
    <2>3. CASE Leave(FALSE) /\ UNCHANGED <<dev, kernel>>
      BY <2>1, <2>3 DEF Leave
    <2> QED BY <1>4, <2>2, <2>3 DEF RequestBuffers
  <1>5. CASE MapBuffer BY <1>5 DEF MapBuffer
  <1>6. CASE QueueBuffer
    <2> USE <1>6 DEF QueueBuffer
    <2>2. CallInv' OBVIOUS
    <2>3. BufferInv' OBVIOUS
    <2>4. QueueInv' OBVIOUS
    <2>5. FaultInv' BY IdleFields
    <2>6. FrameInv' OBVIOUS
    <2>7. WaitInv' OBVIOUS
    <2>8. SessionInv' OBVIOUS
    <2>9. OpenCvInv' OBVIOUS
    <2> QED BY <2>2, <2>3, <2>4, <2>5, <2>6, <2>7, <2>8, <2>9
  <1>7. CASE StreamOn
    <2> USE <1>7 DEF StreamOn, Leave
    <2>2. CallInv' OBVIOUS
    <2>3. BufferInv' OBVIOUS
    <2>4. QueueInv' OBVIOUS
    <2>5. FaultInv' BY IdleFields
    <2>6. FrameInv' OBVIOUS
    <2>7. WaitInv' OBVIOUS
    <2>8. SessionInv' OBVIOUS
    <2>9. OpenCvInv' OBVIOUS
    <2> QED BY <2>2, <2>3, <2>4, <2>5, <2>6, <2>7, <2>8, <2>9
  <1>8. CASE StartGivesUp BY <1>8 DEF StartGivesUp
  <1>9. CASE Poll BY <1>9 DEF Poll, NewFrame
  <1>10. CASE Dequeue BY <1>10 DEF Dequeue, NewFrame
  <1>11. CASE Requeue BY <1>11 DEF Requeue
  <1>12. CASE PullFails
    <2>1. CASE pc = "requeue"
      BY <1>12, <2>1 DEF PullFails, Leave
    <2>2. CASE pc # "requeue"
      BY <1>12, <2>2 DEF PullFails, Leave
    <2> QED BY <2>1, <2>2
  <1>13. CASE PullEnds BY <1>13 DEF PullEnds, Leave
  <1>14. CASE StreamOff
    <2> USE <1>14 DEF StreamOff
    <2>1. CASE ~dev.streaming /\ UNCHANGED <<kernel, ok, faults>>
      BY <2>1
    <2>2. CASE /\ dev.streaming
               /\ kernel' = [kernel EXCEPT !.streaming = FALSE, !.queued = 0]
               /\ UNCHANGED <<ok, faults>>
      BY <2>2, IdleFields
    <2>3. CASE /\ dev.streaming /\ ok' = FALSE
               /\ faults' = faults \cup {"streamoff"}
               /\ UNCHANGED kernel
      BY <2>3
    <2> QED BY <2>1, <2>2, <2>3
  <1>15. CASE UnmapBuffer
    <2> USE <1>15 DEF UnmapBuffer
    <2>1. CASE kernel' = [kernel EXCEPT !.mapped = @ - 1] /\ UNCHANGED <<ok, faults>>
      BY <2>1, IdleFields
    <2>2. CASE /\ "munmap" \notin faults /\ ok' = FALSE
               /\ faults' = faults \cup {"munmap"}
               /\ UNCHANGED kernel
      BY <2>2
    <2> QED BY <2>1, <2>2
  <1>16. CASE NothingAllocated BY <1>16 DEF NothingAllocated, Released
  <1>17. CASE ReleaseBuffers
    <2> USE <1>17 DEF ReleaseBuffers, Released
    <2>1. CASE /\ ~kernel.streaming
               /\ kernel' = [kernel EXCEPT !.granted = 0, !.queued = 0]
               /\ Released(ok)
               /\ UNCHANGED faults
      BY <2>1, IdleFields
    <2>2. CASE /\ Released(FALSE)
               /\ faults' = faults \cup {"reqbufs"}
               /\ UNCHANGED kernel
      BY <2>2
    <2> QED BY <2>1, <2>2
  <1>18. CASE CloseDescriptor
    <2>1. DescriptorClosed /\ kernel.opened > 0 /\ pc = "close"
      BY <1>18 DEF CloseDescriptor
    <2>2. dev' = [open |-> FALSE, method |-> "mmap", buffers |-> 0, allocated |-> FALSE,
                  streaming |-> FALSE]
      BY <1>18 DEF CloseDescriptor, Closed
    <2>3. dev' \in Device
      BY <2>2
    <2>4. pc' = "ready" /\ call' = "none" /\ ok' = ok /\ UNCHANGED <<time, nextId, pulled>>
      BY <1>18 DEF CloseDescriptor, Leave
    <2>5. /\ kernel' \in Kernel
          /\ kernel'.opened = kernel.opened - 1
          /\ kernel'.mapped = kernel.mapped
          /\ kernel'.streaming => kernel.streaming
          /\ kernel'.opened = 0 /\ kernel'.mapped = 0 => Idle(kernel')
          /\ faults' = faults
      BY <2>1, ClosingSettles
    <2>10. CallInv' BY <2>1, <2>2, <2>3, <2>4, <2>5
    <2>11. BufferInv' BY <2>1, <2>2, <2>3, <2>4, <2>5
    <2>12. QueueInv' BY <2>1, <2>2, <2>3, <2>4, <2>5
    <2>13. FaultInv' BY <2>1, <2>2, <2>3, <2>4, <2>5
    <2>14. FrameInv' BY <2>1, <2>2, <2>3, <2>4, <2>5
    <2>15. WaitInv' BY <2>1, <2>2, <2>3, <2>4, <2>5
    <2>6. dev'.open = FALSE /\ dev'.streaming = FALSE
      BY <2>2
    <2>7. at \in {"drop", "close", "destroyClose", "member"}
      BY <2>1
    <2>8. UNCHANGED <<at, session>>
      OBVIOUS
    <2>16. SessionInv'
      <3>1. CASE at = "drop"
        <4>1. ok' /\ session' = {}
          BY <2>1, <2>4, <3>1
        <4>2. at' = "drop" /\ ~dev'.open /\ ~dev'.streaming /\ ~dev'.allocated
          BY <2>2, <2>8, <3>1
        <4> QED BY <2>4, <2>6, <2>8, <3>1, <4>1, <4>2
      <3>2. CASE at = "close"
        <4>1. "connected" \in session /\ "running" \in session /\ "native" \in session
          BY <3>2
        <4> QED BY <2>4, <2>6, <2>8, <3>2, <4>1
      <3>3. CASE at = "destroyClose"
        BY <2>4, <2>6, <2>8, <3>3
      <3>4. CASE at = "member"
        BY <2>4, <2>6, <2>8, <3>4
      <3> QED BY <2>7, <3>1, <3>2, <3>3, <3>4
    <2>17. OpenCvInv' BY <2>1, <2>2, <2>3, <2>4, <2>5
    <2> QED BY <2>10, <2>11, <2>12, <2>13, <2>14, <2>15, <2>16, <2>17
  <1>19. CASE CloseFails
    <2> USE <1>19 DEF CloseFails, DescriptorNotClosed, Leave
    <2>2. CallInv' OBVIOUS
    <2>3. BufferInv' OBVIOUS
    <2>4. QueueInv' OBVIOUS
    <2>5. FaultInv' BY IdleFields
    <2>6. FrameInv' OBVIOUS
    <2>7. WaitInv' OBVIOUS
    <2>8. SessionInv' OBVIOUS
    <2>9. OpenCvInv' OBVIOUS
    <2> QED BY <2>2, <2>3, <2>4, <2>5, <2>6, <2>7, <2>8, <2>9
  <1> QED BY <1>1, <1>2, <1>3, <1>4, <1>5, <1>6, <1>7, <1>8, <1>9, <1>10, <1>11, <1>12, <1>13, <1>14, <1>15, <1>16, <1>17, <1>18, <1>19 DEF DeviceStep

-----------------------------------------------------------------------------

\* A driver that differs from this one in its negotiated values only, with rows about them.
SameStream(k) ==
  /\ k \in Kernel
  /\ k.opened = kernel.opened /\ k.granted = kernel.granted /\ k.mapped = kernel.mapped
  /\ k.queued = kernel.queued /\ k.streaming = kernel.streaming

Outcome(s) == s \in [driver : Kernel, rows : Rows] /\ SameStream(s.driver)

\* A driver with other values.
LEMMA ValuesSet ==
  ASSUME NEW k \in Kernel, SameStream(k), NEW format \in Values, NEW fps \in Values
  PROVE  /\ SameStream([k EXCEPT !.format = format, !.fps = fps])
         /\ SameStream([k EXCEPT !.fps = fps])
PROOF BY DEF SameStream, Kernel

\* A row that is written.
LEMMA RowWritten ==
  ASSUME NEW r \in Rows, NEW key \in {"format", "fps"}, NEW asked \in Values, NEW actual \in Values
  PROVE  /\ [r EXCEPT ![key] = NotConfirmed(asked)] \in Rows
         /\ [r EXCEPT ![key] = ReadBack(asked, actual)] \in Rows
PROOF
  <1>1. NotConfirmed(asked) \in Row /\ ReadBack(asked, actual) \in Row
    BY DEF NotConfirmed, ReadBack, Row
  <1> QED BY <1>1 DEF Rows

\* Setting the pixel format.
LEMMA FormatSetOutcome ==
  ASSUME NEW s, Outcome(s), NEW asked \in Values \cup {"none"}, NEW t \in FormatSet(s, asked)
  PROVE  Outcome(t)
PROOF
  <1>1. s \in [driver : Kernel, rows : Rows] /\ SameStream(s.driver)
    BY DEF Outcome
  <1>2. CASE asked = "none"
    BY <1>2 DEF FormatSet
  <1>3. CASE asked \in Values
    <2>1. asked # "none"
      BY <1>3 DEF Values
    <2>2. CASE t = [s EXCEPT !.rows["format"] = NotConfirmed(asked)]
      <3>1. t = [driver |-> s.driver, rows |-> [s.rows EXCEPT !["format"] = NotConfirmed(asked)]]
        BY <1>1, <2>2
      <3> QED BY <1>1, <1>3, <3>1, RowWritten DEF Outcome
    <2>3. ASSUME NEW v \in [format : Values, fps : Values],
                 t = [driver |-> [s.driver EXCEPT !.format = v.format, !.fps = v.fps],
                      rows |-> [s.rows EXCEPT !["format"] = ReadBack(asked, v.format)]]
          PROVE  Outcome(t)
      <3>1. SameStream([s.driver EXCEPT !.format = v.format, !.fps = v.fps])
        BY <1>1, ValuesSet
      <3>2. [s.rows EXCEPT !["format"] = ReadBack(asked, v.format)] \in Rows
        BY <1>1, <1>3, RowWritten
      <3> QED BY <2>3, <3>1, <3>2 DEF Outcome, SameStream
    <2>4. \/ t = [s EXCEPT !.rows["format"] = NotConfirmed(asked)]
          \/ \E v \in [format : Values, fps : Values] :
               t = [driver |-> [s.driver EXCEPT !.format = v.format, !.fps = v.fps],
                    rows |-> [s.rows EXCEPT !["format"] = ReadBack(asked, v.format)]]
      BY <2>1 DEF FormatSet
    <2> QED BY <2>2, <2>3, <2>4
  <1> QED BY <1>2, <1>3

\* Setting the frame rate.
LEMMA RateSetOutcome ==
  ASSUME NEW s, Outcome(s), NEW asked \in Values \cup {"none"}, NEW t \in RateSet(s, asked)
  PROVE  Outcome(t)
PROOF
  <1>1. s \in [driver : Kernel, rows : Rows] /\ SameStream(s.driver)
    BY DEF Outcome
  <1>2. CASE asked = "none"
    BY <1>2 DEF RateSet
  <1>3. CASE asked \in Values
    <2>1. asked # "none"
      BY <1>3 DEF Values
    <2>2. ASSUME NEW fps \in Values, NEW row \in {NotConfirmed(asked), ReadBack(asked, fps)},
                 t = [driver |-> [s.driver EXCEPT !.fps = fps], rows |-> [s.rows EXCEPT !["fps"] = row]]
          PROVE  Outcome(t)
      <3>1. SameStream([s.driver EXCEPT !.fps = fps])
        BY <1>1, ValuesSet
      <3>2. [s.rows EXCEPT !["fps"] = row] \in Rows
        BY <1>1, <1>3, RowWritten
      <3> QED BY <2>2, <3>1, <3>2 DEF Outcome, SameStream
    <2> QED BY <2>1, <2>2 DEF RateSet
  <1> QED BY <1>2, <1>3

\* Setting the pixel format through OpenCV.
LEMMA OpenCvFormatSetOutcome ==
  ASSUME NEW s, Outcome(s), NEW asked \in Values \cup {"none"}, NEW t \in OpenCvFormatSet(s, asked)
  PROVE  Outcome(t)
PROOF
  <1>1. s \in [driver : Kernel, rows : Rows] /\ SameStream(s.driver)
    BY DEF Outcome
  <1>2. CASE asked = "none"
    BY <1>2 DEF OpenCvFormatSet
  <1>3. CASE asked \in Values /\ t \in FormatSet(s, asked)
    BY <1>3, FormatSetOutcome
  <1>4. CASE asked \in Values /\ t \notin FormatSet(s, asked)
    <2>1. asked # "none"
      BY <1>4 DEF Values
    <2>2. ASSUME NEW v \in [format : Values, fps : Values],
                 t = [driver |-> [s.driver EXCEPT !.format = v.format, !.fps = v.fps],
                      rows |-> [s.rows EXCEPT !["format"] = NotConfirmed(asked)]]
          PROVE  Outcome(t)
      <3>1. SameStream([s.driver EXCEPT !.format = v.format, !.fps = v.fps])
        BY <1>1, ValuesSet
      <3>2. [s.rows EXCEPT !["format"] = NotConfirmed(asked)] \in Rows
        BY <1>1, <1>4, RowWritten
      <3> QED BY <2>2, <3>1, <3>2 DEF Outcome, SameStream
    <2>3. \E v \in [format : Values, fps : Values] :
            t = [driver |-> [s.driver EXCEPT !.format = v.format, !.fps = v.fps],
                 rows |-> [s.rows EXCEPT !["format"] = NotConfirmed(asked)]]
      BY <1>4, <2>1 DEF OpenCvFormatSet
    <2> QED BY <2>2, <2>3
  <1> QED BY <1>2, <1>3, <1>4

\* Negotiating, along either path, leaves the stream alone.
LEMMA NegotiatedOutcome ==
  ASSUME TypeOK
  PROVE  /\ \A outcome \in Negotiated(request) : Outcome(outcome)
         /\ \A outcome \in OpenCvNegotiated : Outcome(outcome)
PROOF
  <1>1. Outcome([driver |-> kernel, rows |-> NoRows])
    BY DEF Outcome, SameStream, TypeOK, DeviceTypeOK, NoRows, Rows, Row
  <1>2. request.format \in Values \cup {"none"} /\ request.fps \in Values \cup {"none"}
    BY DEF TypeOK
  <1>3. \A outcome \in Negotiated(request) : Outcome(outcome)
    BY <1>1, <1>2, FormatSetOutcome, RateSetOutcome DEF Negotiated
  <1>4. \A outcome \in OpenCvNegotiated : Outcome(outcome)
    BY <1>1, <1>2, OpenCvFormatSetOutcome, RateSetOutcome DEF OpenCvNegotiated
  <1> QED BY <1>3, <1>4

\* A method of the backend.
BackendStep ==
  \/ Connect \/ UseNative \/ DropNative \/ DropFails \/ UseOpenCv \/ ConnectFails
  \/ StartNative \/ Started \/ StartOpenCv
  \/ PullNative \/ Pulled \/ PullOpenCv
  \/ StopNative \/ Stopped \/ SessionEnds \/ StopOpenCv
  \/ Destroy \/ DestroyCloses \/ DestroyMember \/ Destroyed

\* What a step that negotiates makes of the driver and of the rows.
LEMMA NegotiatingStep ==
  ASSUME WebcamInv, UseNative \/ DropNative \/ UseOpenCv
  PROVE  /\ SameStream(kernel') /\ kernel' \in Kernel /\ rows' \in Rows /\ stale' \in Rows
         /\ Idle(kernel) => Idle(kernel')
PROOF
  <1>1. TypeOK /\ rows \in Rows /\ stale \in Rows
    BY DEF WebcamInv, TypeOK, Rows, Row
  <1>2. UseNative => SameStream(kernel') /\ kernel' \in Kernel /\ rows' \in Rows /\ stale' \in Rows
    BY <1>1, NegotiatedOutcome DEF UseNative, Outcome, SameStream
  <1>3. DropNative => SameStream(kernel') /\ kernel' \in Kernel /\ rows' \in Rows /\ stale' \in Rows
    BY <1>1, NegotiatedOutcome DEF DropNative, Outcome, SameStream
  <1>4. UseOpenCv => SameStream(kernel') /\ kernel' \in Kernel /\ rows' \in Rows /\ stale' \in Rows
    BY <1>1, NegotiatedOutcome DEF UseOpenCv, Outcome, SameStream
  <1>5. SameStream(kernel') /\ kernel' \in Kernel /\ rows' \in Rows /\ stale' \in Rows
    BY <1>2, <1>3, <1>4
  <1>6. kernel \in Kernel
    BY <1>1 DEF TypeOK, DeviceTypeOK
  <1>7. Idle(kernel) => Idle(kernel')
    BY <1>5, <1>6, IdleFields DEF SameStream
  <1> QED BY <1>5, <1>7

\* Every method of the backend keeps the types.
LEMMA BackendStepTypes ==
  ASSUME WebcamInv, BackendStep
  PROVE  TypeOK'
PROOF
  <1> USE DeviceAssumption, SessionAssumption
  <1>1. TypeOK /\ DeviceTypeOK /\ dev \in Device /\ kernel \in Kernel /\ rows \in Rows
        /\ stale \in Rows
    BY DEF WebcamInv, TypeOK, DeviceTypeOK, Rows, Row
  <1>2. dev' \in Device
    <2>1. Closed \in Device /\ [dev EXCEPT !.buffers = 0, !.allocated = FALSE, !.streaming = FALSE] \in Device
      <3>1. 0 \in 0 .. MaxBuffers
        OBVIOUS
      <3> QED BY <1>1, <3>1 DEF Closed, Device
    <2>2. dev' \in {dev, Closed, [dev EXCEPT !.buffers = 0, !.allocated = FALSE, !.streaming = FALSE]}
      BY DEF BackendStep, Connect, CallOpen, Enter, Decline, OpenCvClosed, UseNative, Back,
         FreshIds, DropNative, DropFails, deviceVars, UseOpenCv, Fallback, ConnectFails,
         StartNative, CallStart, Started, StartOpenCv, PullNative, CallPull, Streaming, Pulled,
         PullOpenCv, StopNative, CallStop, Stopped, CallClose, SessionEnds, NoSession,
         StopOpenCv, Destroy, DestroyCloses, DestroyMember, Destroyed, NoRows
    <2> QED BY <1>1, <2>1, <2>2
  <1>3. kernel' \in Kernel /\ rows' \in Rows /\ stale' \in Rows
    <2>1. NoRows \in Rows
      BY DEF NoRows, Rows, Row
    <2>2. CASE UseNative \/ DropNative \/ UseOpenCv
      BY <2>2, NegotiatingStep
    <2>3. CASE ~(UseNative \/ DropNative \/ UseOpenCv)
      BY <1>1, <2>1, <2>3 DEF BackendStep, Connect, CallOpen, Enter, Decline, OpenCvClosed,
         Back, FreshIds, DropFails, deviceVars, Fallback, ConnectFails, StartNative, CallStart,
         Started, StartOpenCv, PullNative, CallPull, Streaming, Pulled, PullOpenCv, StopNative,
         CallStop, Stopped, CallClose, SessionEnds, NoSession, StopOpenCv, Destroy,
         DestroyCloses, DestroyMember, Destroyed, Closed
    <2> QED BY <2>2, <2>3
  <1>4. pc' \in Places /\ call' \in {"none", "open", "start", "pull", "stop", "close"} /\ ok' \in BOOLEAN
    BY <1>1 DEF BackendStep, Connect, CallOpen, Enter, Decline, OpenCvClosed, UseNative, Back,
       FreshIds, DropNative, DropFails, deviceVars, UseOpenCv, Fallback, ConnectFails,
       StartNative, CallStart, Started, StartOpenCv, PullNative, CallPull, Streaming, Pulled,
       PullOpenCv, StopNative, CallStop, Stopped, CallClose, SessionEnds, NoSession,
       StopOpenCv, Destroy, DestroyCloses, DestroyMember, Destroyed, NoRows, Closed, TypeOK,
       DeviceTypeOK, Places
  <1>5. time' \in 0 .. PollBudget /\ nextId' \in 0 .. MaxFrames /\ pulled' \in 0 .. PollBudget
    BY <1>1 DEF BackendStep, Connect, CallOpen, Enter, Decline, OpenCvClosed, UseNative, Back,
       FreshIds, DropNative, DropFails, deviceVars, UseOpenCv, Fallback, ConnectFails,
       StartNative, CallStart, Started, StartOpenCv, PullNative, CallPull, Streaming, Pulled,
       PullOpenCv, StopNative, CallStop, Stopped, CallClose, SessionEnds, NoSession,
       StopOpenCv, Destroy, DestroyCloses, DestroyMember, Destroyed, NoRows, Closed, TypeOK,
       DeviceTypeOK, WebcamInv, StateInv, FrameInv
  <1>6. delivered' \in 0 .. MaxFrames /\ discarded' \in 0 .. MaxFrames
    BY <1>1 DEF BackendStep, Connect, CallOpen, Enter, Decline, OpenCvClosed, UseNative, Back,
       FreshIds, DropNative, DropFails, deviceVars, UseOpenCv, Fallback, ConnectFails,
       StartNative, CallStart, Started, StartOpenCv, PullNative, CallPull, Streaming, Pulled,
       PullOpenCv, StopNative, CallStop, Stopped, CallClose, SessionEnds, NoSession,
       StopOpenCv, Destroy, DestroyCloses, DestroyMember, Destroyed, NoRows, Closed, TypeOK,
       DeviceTypeOK, WebcamInv, StateInv, FrameInv
  <1>7. faults' \subseteq {"close", "streamoff", "munmap", "reqbufs", "requeue"}
    BY <1>1 DEF BackendStep, Connect, CallOpen, Enter, Decline, OpenCvClosed, UseNative, Back,
       FreshIds, DropNative, DropFails, deviceVars, UseOpenCv, Fallback, ConnectFails,
       StartNative, CallStart, Started, StartOpenCv, PullNative, CallPull, Streaming, Pulled,
       PullOpenCv, StopNative, CallStop, Stopped, CallClose, SessionEnds, NoSession,
       StopOpenCv, Destroy, DestroyCloses, DestroyMember, Destroyed, NoRows, Closed, TypeOK,
       DeviceTypeOK
  <1>8. /\ at' \in {"idle", "open", "drop", "start", "pull", "stop", "close",
               "destroy", "destroyClose", "member"}
        /\ opencv' \in {"absent", "closed", "open"}
    BY <1>1 DEF BackendStep, Connect, CallOpen, Enter, Decline, OpenCvClosed, UseNative, Back,
       FreshIds, DropNative, DropFails, deviceVars, UseOpenCv, Fallback, ConnectFails,
       StartNative, CallStart, Started, StartOpenCv, PullNative, CallPull, Streaming, Pulled,
       PullOpenCv, StopNative, CallStop, Stopped, CallClose, SessionEnds, NoSession,
       StopOpenCv, Destroy, DestroyCloses, DestroyMember, Destroyed, NoRows, Closed, TypeOK
  <1>9. session' \subseteq {"connected", "running", "native"}
    BY <1>1 DEF BackendStep, Connect, CallOpen, Enter, Decline, OpenCvClosed, UseNative, Back,
       FreshIds, DropNative, DropFails, deviceVars, UseOpenCv, Fallback, ConnectFails,
       StartNative, CallStart, Started, StartOpenCv, PullNative, CallPull, Streaming, Pulled,
       PullOpenCv, StopNative, CallStop, Stopped, CallClose, SessionEnds, NoSession,
       StopOpenCv, Destroy, DestroyCloses, DestroyMember, Destroyed, NoRows, Closed, TypeOK
  <1>10. request' \in [format : Values \cup {"none"}, fps : Values \cup {"none"}]
    BY <1>1 DEF BackendStep, Connect, CallOpen, Enter, Decline, OpenCvClosed, UseNative, Back,
       FreshIds, DropNative, DropFails, deviceVars, UseOpenCv, Fallback, ConnectFails,
       StartNative, CallStart, Started, StartOpenCv, PullNative, CallPull, Streaming, Pulled,
       PullOpenCv, StopNative, CallStop, Stopped, CallClose, SessionEnds, NoSession,
       StopOpenCv, Destroy, DestroyCloses, DestroyMember, Destroyed, NoRows, Closed, TypeOK
  <1> QED BY <1>2, <1>3, <1>4, <1>5, <1>6, <1>7, <1>8, <1>9, <1>10 DEF TypeOK, DeviceTypeOK, Rows, Row

\* The methods of the backend keep the rest.
LEMMA BackendStepKeeps ==
  ASSUME WebcamInv, BackendStep
  PROVE  StateInv'
PROOF
  <1> USE DeviceAssumption, SessionAssumption
      DEF WebcamInv, StateInv, TypeOK, DeviceTypeOK, Device, Kernel, Places, CallInv, BufferInv,
          QueueInv, FaultInv, LostMapping, FrameInv, WaitInv, SessionInv, OpenCvInv,
          Opening, Preparing, Pulling, Releasing
  <1>1. CASE Connect
    <2> USE <1>1 DEF Connect, CallOpen, Enter, Decline, OpenCvClosed
    <2>2. CallInv' OBVIOUS
    <2>3. BufferInv' OBVIOUS
    <2>4. QueueInv' OBVIOUS
    <2>5. FaultInv'
      <3>1. CASE Idle(kernel) /\ ~dev.open
        <4>1. kernel.opened = 0 /\ kernel.mapped = 0 /\ ~kernel.streaming
          BY <3>1, IdleFields
        <4>2. dev.buffers = 0 /\ UNCHANGED <<kernel, dev>> /\ pc' = "open" /\ faults' = {}
          BY <3>1
        <4> QED BY <3>1, <4>1, <4>2
      <3>2. CASE UNCHANGED faults
        BY <3>2
      <3> QED BY <3>1, <3>2
    <2>6. FrameInv' OBVIOUS
    <2>7. WaitInv' OBVIOUS
    <2>8. SessionInv' OBVIOUS
    <2>9. OpenCvInv' OBVIOUS
    <2> QED BY <2>2, <2>3, <2>4, <2>5, <2>6, <2>7, <2>8, <2>9
  <1>2. CASE UseNative
    <2> USE <1>2 DEF UseNative, Back, FreshIds
    <2>1. /\ SameStream(kernel') /\ kernel' \in Kernel /\ kernel \in Kernel
          /\ Idle(kernel) => Idle(kernel')
      BY NegotiatingStep
    <2> USE <2>1 DEF SameStream
    <2>2. CallInv' OBVIOUS
    <2>3. BufferInv' OBVIOUS
    <2>4. QueueInv' OBVIOUS
    <2>5. FaultInv' OBVIOUS
    <2>6. FrameInv' OBVIOUS
    <2>7. WaitInv' OBVIOUS
    <2>8. SessionInv' OBVIOUS
    <2>9. OpenCvInv' OBVIOUS
    <2> QED BY <2>2, <2>3, <2>4, <2>5, <2>6, <2>7, <2>8, <2>9
  <1>3. CASE DropNative
    <2> USE <1>3 DEF DropNative, Back
    <2>1. /\ SameStream(kernel') /\ kernel' \in Kernel /\ kernel \in Kernel
          /\ Idle(kernel) => Idle(kernel')
      BY NegotiatingStep
    <2> USE <2>1 DEF SameStream
    <2>2. CallInv' OBVIOUS
    <2>3. BufferInv' OBVIOUS
    <2>4. QueueInv' OBVIOUS
    <2>5. FaultInv' OBVIOUS
    <2>6. FrameInv' OBVIOUS
    <2>7. WaitInv' OBVIOUS
    <2>8. SessionInv' OBVIOUS
    <2>9. OpenCvInv' OBVIOUS
    <2> QED BY <2>2, <2>3, <2>4, <2>5, <2>6, <2>7, <2>8, <2>9
  <1>4. CASE DropFails
    <2> USE <1>4 DEF DropFails, Back, deviceVars
    <2>2. CallInv' OBVIOUS
    <2>3. BufferInv' OBVIOUS
    <2>4. QueueInv' OBVIOUS
    <2>5. FaultInv' OBVIOUS
    <2>6. FrameInv' OBVIOUS
    <2>7. WaitInv' OBVIOUS
    <2>8. SessionInv' OBVIOUS
    <2>9. OpenCvInv' OBVIOUS
    <2> QED BY <2>2, <2>3, <2>4, <2>5, <2>6, <2>7, <2>8, <2>9
  <1>5. CASE UseOpenCv
    <2> USE <1>5 DEF UseOpenCv, Fallback, Back, FreshIds
    <2>1. /\ SameStream(kernel') /\ kernel' \in Kernel /\ kernel \in Kernel
          /\ Idle(kernel) => Idle(kernel')
      BY NegotiatingStep
    <2> USE <2>1 DEF SameStream
    <2>2. CallInv' OBVIOUS
    <2>3. BufferInv' OBVIOUS
    <2>4. QueueInv' OBVIOUS
    <2>5. FaultInv' OBVIOUS
    <2>6. FrameInv' OBVIOUS
    <2>7. WaitInv' OBVIOUS
    <2>8. SessionInv' OBVIOUS
    <2>9. OpenCvInv' OBVIOUS
    <2> QED BY <2>2, <2>3, <2>4, <2>5, <2>6, <2>7, <2>8, <2>9
  <1>6. CASE ConnectFails
    <2> USE <1>6 DEF ConnectFails, Fallback, Back, deviceVars
    <2>2. CallInv' OBVIOUS
    <2>3. BufferInv' OBVIOUS
    <2>4. QueueInv' OBVIOUS
    <2>5. FaultInv' OBVIOUS
    <2>6. FrameInv' OBVIOUS
    <2>7. WaitInv' OBVIOUS
    <2>8. SessionInv' OBVIOUS
    <2>9. OpenCvInv' OBVIOUS
    <2> QED BY <2>2, <2>3, <2>4, <2>5, <2>6, <2>7, <2>8, <2>9
  <1>7. CASE StartNative
    <2> USE <1>7 DEF StartNative, CallStart, Enter, Decline
    <2>2. CallInv' OBVIOUS
    <2>3. BufferInv' OBVIOUS
    <2>4. QueueInv' OBVIOUS
    <2>5. FaultInv' OBVIOUS
    <2>6. FrameInv' OBVIOUS
    <2>7. WaitInv' OBVIOUS
    <2>8. SessionInv' OBVIOUS
    <2>9. OpenCvInv' OBVIOUS
    <2> QED BY <2>2, <2>3, <2>4, <2>5, <2>6, <2>7, <2>8, <2>9
  <1>8. CASE Started
    <2> USE <1>8 DEF Started, Back, deviceVars
    <2>2. CallInv' OBVIOUS
    <2>3. BufferInv' OBVIOUS
    <2>4. QueueInv' OBVIOUS
    <2>5. FaultInv' OBVIOUS
    <2>6. FrameInv' OBVIOUS
    <2>7. WaitInv' OBVIOUS
    <2>8. SessionInv' OBVIOUS
    <2>9. OpenCvInv' OBVIOUS
    <2> QED BY <2>2, <2>3, <2>4, <2>5, <2>6, <2>7, <2>8, <2>9
  <1>9. CASE StartOpenCv
    <2> USE <1>9 DEF StartOpenCv, deviceVars
    <2>2. CallInv' OBVIOUS
    <2>3. BufferInv' OBVIOUS
    <2>4. QueueInv' OBVIOUS
    <2>5. FaultInv' OBVIOUS
    <2>6. FrameInv' OBVIOUS
    <2>7. WaitInv' OBVIOUS
    <2>8. SessionInv' OBVIOUS
    <2>9. OpenCvInv' OBVIOUS
    <2> QED BY <2>2, <2>3, <2>4, <2>5, <2>6, <2>7, <2>8, <2>9
  <1>10. CASE PullNative
    <2> USE <1>10 DEF PullNative, CallPull, Enter, Decline, Streaming
    <2>2. CallInv' OBVIOUS
    <2>3. BufferInv' OBVIOUS
    <2>4. QueueInv' OBVIOUS
    <2>5. FaultInv' OBVIOUS
    <2>6. FrameInv' OBVIOUS
    <2>7. WaitInv' OBVIOUS
    <2>8. SessionInv' OBVIOUS
    <2>9. OpenCvInv' OBVIOUS
    <2> QED BY <2>2, <2>3, <2>4, <2>5, <2>6, <2>7, <2>8, <2>9
  <1>11. CASE Pulled
    <2> USE <1>11 DEF Pulled, Back
    <2>2. CallInv' OBVIOUS
    <2>3. BufferInv' OBVIOUS
    <2>4. QueueInv' OBVIOUS
    <2>5. FaultInv' OBVIOUS
    <2>6. FrameInv' OBVIOUS
    <2>7. WaitInv' OBVIOUS
    <2>8. SessionInv' OBVIOUS
    <2>9. OpenCvInv' OBVIOUS
    <2> QED BY <2>2, <2>3, <2>4, <2>5, <2>6, <2>7, <2>8, <2>9
  <1>12. CASE PullOpenCv
    <2> USE <1>12 DEF PullOpenCv, Streaming
    <2>2. CallInv' OBVIOUS
    <2>3. BufferInv' OBVIOUS
    <2>4. QueueInv' OBVIOUS
    <2>5. FaultInv' OBVIOUS
    <2>6. FrameInv' OBVIOUS
    <2>7. WaitInv' OBVIOUS
    <2>8. SessionInv' OBVIOUS
    <2>9. OpenCvInv' OBVIOUS
    <2> QED BY <2>2, <2>3, <2>4, <2>5, <2>6, <2>7, <2>8, <2>9
  <1>13. CASE StopNative
    <2> USE <1>13 DEF StopNative, CallStop, Enter, Decline
    <2>2. CallInv' OBVIOUS
    <2>3. BufferInv' OBVIOUS
    <2>4. QueueInv' OBVIOUS
    <2>5. FaultInv' OBVIOUS
    <2>6. FrameInv' OBVIOUS
    <2>7. WaitInv' OBVIOUS
    <2>8. SessionInv' OBVIOUS
    <2>9. OpenCvInv' OBVIOUS
    <2> QED BY <2>2, <2>3, <2>4, <2>5, <2>6, <2>7, <2>8, <2>9
  <1>14. CASE Stopped
    <2> USE <1>14 DEF Stopped, CallClose, Enter, Decline, Back
    <2>2. CallInv' OBVIOUS
    <2>3. BufferInv' OBVIOUS
    <2>4. QueueInv' OBVIOUS
    <2>5. FaultInv' OBVIOUS
    <2>6. FrameInv' OBVIOUS
    <2>7. WaitInv' OBVIOUS
    <2>8. SessionInv' OBVIOUS
    <2>9. OpenCvInv' OBVIOUS
    <2> QED BY <2>2, <2>3, <2>4, <2>5, <2>6, <2>7, <2>8, <2>9
  <1>15. CASE SessionEnds
    <2> USE <1>15 DEF SessionEnds, Back, deviceVars, NoSession
    <2>2. CallInv' OBVIOUS
    <2>3. BufferInv' OBVIOUS
    <2>4. QueueInv' OBVIOUS
    <2>5. FaultInv' OBVIOUS
    <2>6. FrameInv' OBVIOUS
    <2>7. WaitInv' OBVIOUS
    <2>8. SessionInv' OBVIOUS
    <2>9. OpenCvInv' OBVIOUS
    <2> QED BY <2>2, <2>3, <2>4, <2>5, <2>6, <2>7, <2>8, <2>9
  <1>16. CASE StopOpenCv
    <2> USE <1>16 DEF StopOpenCv, deviceVars, NoSession, OpenCvClosed
    <2>2. CallInv' OBVIOUS
    <2>3. BufferInv' OBVIOUS
    <2>4. QueueInv' OBVIOUS
    <2>5. FaultInv' OBVIOUS
    <2>6. FrameInv' OBVIOUS
    <2>7. WaitInv' OBVIOUS
    <2>8. SessionInv' OBVIOUS
    <2>9. OpenCvInv' OBVIOUS
    <2> QED BY <2>2, <2>3, <2>4, <2>5, <2>6, <2>7, <2>8, <2>9
  <1>17. CASE Destroy
    <2> USE <1>17 DEF Destroy, CallStop, CallClose, Enter, Decline, OpenCvClosed
    <2>2. CallInv' OBVIOUS
    <2>3. BufferInv' OBVIOUS
    <2>4. QueueInv' OBVIOUS
    <2>5. FaultInv' OBVIOUS
    <2>6. FrameInv' OBVIOUS
    <2>7. WaitInv' OBVIOUS
    <2>8. SessionInv' OBVIOUS
    <2>9. OpenCvInv' OBVIOUS
    <2> QED BY <2>2, <2>3, <2>4, <2>5, <2>6, <2>7, <2>8, <2>9
  <1>18. CASE DestroyCloses
    <2> USE <1>18 DEF DestroyCloses, CallClose, Enter, Decline, Back
    <2>2. CallInv' OBVIOUS
    <2>3. BufferInv' OBVIOUS
    <2>4. QueueInv' OBVIOUS
    <2>5. FaultInv' OBVIOUS
    <2>6. FrameInv' OBVIOUS
    <2>7. WaitInv' OBVIOUS
    <2>8. SessionInv' OBVIOUS
    <2>9. OpenCvInv' OBVIOUS
    <2> QED BY <2>2, <2>3, <2>4, <2>5, <2>6, <2>7, <2>8, <2>9
  <1>19. CASE DestroyMember
    <2> USE <1>19 DEF DestroyMember, CallClose, Enter, Decline, Back
    <2>2. CallInv' OBVIOUS
    <2>3. BufferInv' OBVIOUS
    <2>4. QueueInv' OBVIOUS
    <2>5. FaultInv' OBVIOUS
    <2>6. FrameInv' OBVIOUS
    <2>7. WaitInv' OBVIOUS
    <2>8. SessionInv' OBVIOUS
    <2>9. OpenCvInv' OBVIOUS
    <2> QED BY <2>2, <2>3, <2>4, <2>5, <2>6, <2>7, <2>8, <2>9
  <1>20. CASE Destroyed
    <2> USE <1>20 DEF Destroyed, Back, NoSession, OpenCvClosed, FreshIds, NoRows, Closed
    <2>2. CallInv' OBVIOUS
    <2>3. BufferInv' OBVIOUS
    <2>4. QueueInv' OBVIOUS
    <2>5. FaultInv' OBVIOUS
    <2>6. FrameInv' OBVIOUS
    <2>7. WaitInv' OBVIOUS
    <2>8. SessionInv' OBVIOUS
    <2>9. OpenCvInv' OBVIOUS
    <2> QED BY <2>2, <2>3, <2>4, <2>5, <2>6, <2>7, <2>8, <2>9
  <1> QED
    BY <1>1, <1>2, <1>3, <1>4, <1>5, <1>6, <1>7, <1>8, <1>9, <1>10,
       <1>11, <1>12, <1>13, <1>14, <1>15, <1>16, <1>17, <1>18, <1>19, <1>20 DEF BackendStep

-----------------------------------------------------------------------------

\* The invariant is inductive.
LEMMA WebcamInductive == Spec => []WebcamInv
PROOF
  <1>1. Init => WebcamInv
    <2> SUFFICES ASSUME Init PROVE WebcamInv
      OBVIOUS
    <2> USE DeviceAssumption, SessionAssumption
    <2>1. PICK format \in Values, fps \in Values : kernel = IdleKernel(format, fps)
      BY DEF Init, DeviceInit
    <2>2. kernel \in Kernel /\ dev \in Device
      BY <2>1 DEF IdleKernel, Kernel, Init, DeviceInit, Closed, Device
    <2>3. Idle(kernel) /\ kernel.opened = 0 /\ kernel.mapped = 0 /\ kernel.streaming = FALSE
      BY <2>1 DEF IdleKernel, Idle
    <2>4. TypeOK
      BY <2>2 DEF Init, DeviceInit, TypeOK, DeviceTypeOK, Places, NoRows, Rows, Row, NoSession, Values
    <2>5. StateInv
      BY <2>2, <2>3 DEF Init, DeviceInit, Closed, NoSession, StateInv, CallInv, BufferInv, QueueInv,
         FaultInv, LostMapping, FrameInv, WaitInv, SessionInv, OpenCvInv, Opening, Preparing,
         Pulling, Releasing
    <2> QED BY <2>4, <2>5 DEF WebcamInv
  <1>2. WebcamInv /\ [Next]_vars => WebcamInv'
    <2> SUFFICES ASSUME WebcamInv, [Next]_vars PROVE WebcamInv'
      OBVIOUS
    <2>1. CASE BackendStep
      BY <2>1, BackendStepTypes, BackendStepKeeps DEF WebcamInv
    <2>2. CASE DeviceStep /\ UNCHANGED sessionVars
      BY <2>2, DeviceStepTypes, DeviceStepKeeps DEF WebcamInv
    <2>3. CASE UNCHANGED vars
      BY <2>3 DEF vars, WebcamInv, TypeOK, DeviceTypeOK, StateInv, CallInv, BufferInv, QueueInv,
         FaultInv, LostMapping, FrameInv, WaitInv, SessionInv, OpenCvInv
    <2> QED BY <2>1, <2>2, <2>3 DEF Next, BackendStep
  <1> QED BY <1>1, <1>2, PTL DEF Spec

\* Every variable of the device and of the backend keeps its type: among them, the
\* object never counts more buffers than the driver may grant, the driver's queue never
\* holds more, and no descriptor is opened or mapping lost beyond the bounds.
THEOREM WebcamTypeCorrect == Spec => []TypeOK
PROOF
  <1>1. WebcamInv => TypeOK
    BY DEF WebcamInv
  <1> QED BY <1>1, WebcamInductive, PTL

\* Between calls there is a stream with all its buffers, or none of it (StartStreaming,
\* PullFrames and StopStreaming, at every exit).
THEOREM WebcamStreamBacked == Spec => []StreamBacked
PROOF
  <1>1. WebcamInv => StreamBacked
    BY DeviceAssumption
    DEF WebcamInv, StateInv, StreamBacked, CallInv, BufferInv, QueueInv, FaultInv, LostMapping,
        TypeOK, DeviceTypeOK, Device, Kernel, Pulling, Preparing
  <1> QED BY <1>1, WebcamInductive, PTL

\* release_allocated_buffers and StopStreaming give the buffers back when nothing is
\* mapped and the stream is off, unless the calls to get there have failed.
THEOREM WebcamTeardownInOrder == Spec => []TeardownInOrder
PROOF
  <1>1. WebcamInv => TeardownInOrder
    BY DeviceAssumption
    DEF WebcamInv, StateInv, TeardownInOrder, CallInv, FaultInv, LostMapping, Releasing,
        TypeOK, DeviceTypeOK, Device, Kernel
  <1> QED BY <1>1, WebcamInductive, PTL

\* A closed device leaves the driver free, unless a close or an unmapping has failed.
THEOREM WebcamClosedIsFree == Spec => []ClosedDeviceIsFree
PROOF
  <1>1. WebcamInv => ClosedDeviceIsFree
    BY DeviceAssumption
    DEF WebcamInv, StateInv, ClosedDeviceIsFree, CallInv, BufferInv, FaultInv, LostMapping,
        TypeOK, DeviceTypeOK, Device, Kernel
  <1> QED BY <1>1, WebcamInductive, PTL

\* The flags of the backend, written at the end of Connect, Start and Stop, agree with
\* its device whenever it is in none of its methods.
THEOREM WebcamSessionMatches == Spec => []SessionMatchesDevice
PROOF
  <1>1. WebcamInv => SessionMatchesDevice
    BY DEF WebcamInv, StateInv, SessionMatchesDevice, SessionInv, OpenCvInv
  <1> QED BY <1>1, WebcamInductive, PTL

\* The camera is never captured along both paths, unless a close has failed.
THEOREM WebcamOneCapturePath == Spec => []OneCapturePath
PROOF
  <1>1. WebcamInv => OneCapturePath
    BY DeviceAssumption
    DEF WebcamInv, StateInv, OneCapturePath, SessionInv, OpenCvInv, WaitInv, FaultInv,
        TypeOK, DeviceTypeOK, Device, Kernel, Opening
  <1> QED BY <1>1, WebcamInductive, PTL

\* Frame ids count the frames of a session, across pulls that fail.
THEOREM WebcamFramesAccounted == Spec => []FramesAccounted
PROOF
  <1>1. WebcamInv => FramesAccounted
    BY DEF WebcamInv, StateInv, FramesAccounted, FrameInv, TypeOK, DeviceTypeOK
  <1> QED BY <1>1, WebcamInductive, PTL
-----------------------------------------------------------------------------
(***************************************************************************)
(* The readback rows                                                       *)
(***************************************************************************)

\* A row that says a control was applied, or adjusted, is right about its value.
IsTrue(row, asked, value) ==
  row.status \in {"applied", "adjusted"} =>
    row.asked = asked /\ value = row.actual /\ (row.status = "applied" <=> value = asked)

\* A row is there exactly where something was asked for.
Marks(row, asked) == row.status = "none" <=> asked = "none"

RowInv ==
  /\ "connected" \in session =>
       /\ IsTrue(rows["format"], request.format, kernel.format)
       /\ "native" \in session \/ request.format = "none" =>
            IsTrue(rows["fps"], request.fps, kernel.fps)
       /\ Marks(rows["format"], request.format) /\ Marks(rows["fps"], request.fps)
  /\ \A key \in {"format", "fps"} : request[key] = "none" => stale[key].status = "none"
  /\ at = "open" \/ "native" \in session => stale = NoRows

\* What rows, and the driver that goes with them, say of a control.
Says(t, key, asked) ==
  IsTrue(t.rows[key], asked, t.driver[key]) /\ Marks(t.rows[key], asked)

Silent(t, key) == t.rows[key].status = "none"

\* The rows as they are written are right about the values just read.
LEMMA WrittenRowIsTrue ==
  ASSUME NEW asked, NEW actual
  PROVE  /\ IsTrue(ReadBack(asked, actual), asked, actual)
         /\ IsTrue(NotConfirmed(asked), asked, actual)
         /\ asked # "none" => Marks(ReadBack(asked, actual), asked)
         /\ asked # "none" => Marks(NotConfirmed(asked), asked)
PROOF BY DEF IsTrue, Marks, ReadBack, NotConfirmed

\* A driver and rows with a new pixel format.
WithFormat(s, v, row) ==
  [driver |-> [s.driver EXCEPT !.format = v.format, !.fps = v.fps],
   rows |-> [s.rows EXCEPT !["format"] = row]]

LEMMA FormatRowWritten ==
  ASSUME NEW s, Outcome(s), NEW v \in [format : Values, fps : Values], NEW row,
         NEW t, t = WithFormat(s, v, row)
  PROVE  t.rows["format"] = row /\ t.rows["fps"] = s.rows["fps"] /\ t.driver.format = v.format
PROOF
  <1>1. s.driver \in Kernel /\ s.rows \in Rows
    BY DEF Outcome
  <1> QED BY <1>1 DEF WithFormat, Rows, Kernel

\* Setting the pixel format through V4L2 writes its row, and may change the rate.
LEMMA FormatRow ==
  ASSUME NEW s, Outcome(s), Silent(s, "format"),
         NEW asked \in Values \cup {"none"}, NEW t \in FormatSet(s, asked)
  PROVE  /\ Says(t, "format", asked)
         /\ t.rows["fps"] = s.rows["fps"]
         /\ asked = "none" => t.driver = s.driver
PROOF
  <1>1. s \in [driver : Kernel, rows : Rows]
    BY DEF Outcome
  <1>2. CASE asked = "none"
    BY <1>2 DEF FormatSet, IsTrue, Marks, Says, Silent
  <1>3. CASE asked # "none"
    <2>1. CASE t = [s EXCEPT !.rows["format"] = NotConfirmed(asked)]
      <3>1. t.rows = [s.rows EXCEPT !["format"] = NotConfirmed(asked)]
        BY <1>1, <2>1
      <3>2. t.rows["format"] = NotConfirmed(asked) /\ t.rows["fps"] = s.rows["fps"]
        BY <1>1, <3>1 DEF Rows
      <3> QED BY <1>3, <3>2, WrittenRowIsTrue DEF Says
    <2>2. ASSUME NEW v \in [format : Values, fps : Values],
                 t = WithFormat(s, v, ReadBack(asked, v.format))
          PROVE  Says(t, "format", asked) /\ t.rows["fps"] = s.rows["fps"]
      BY <1>3, <2>2, FormatRowWritten, WrittenRowIsTrue DEF Says
    <2>3. \/ t = [s EXCEPT !.rows["format"] = NotConfirmed(asked)]
          \/ \E v \in [format : Values, fps : Values] :
               t = WithFormat(s, v, ReadBack(asked, v.format))
      BY <1>3 DEF FormatSet, WithFormat
    <2> QED BY <1>3, <2>1, <2>2, <2>3
  <1> QED BY <1>2, <1>3

\* So does setting it through OpenCV, which may leave it unconfirmed.
LEMMA OpenCvFormatRow ==
  ASSUME NEW s, Outcome(s), Silent(s, "format"),
         NEW asked \in Values \cup {"none"}, NEW t \in OpenCvFormatSet(s, asked)
  PROVE  /\ Says(t, "format", asked)
         /\ t.rows["fps"] = s.rows["fps"]
         /\ asked = "none" => t.driver = s.driver
PROOF
  <1>1. CASE asked = "none"
    BY <1>1 DEF OpenCvFormatSet, IsTrue, Marks, Says, Silent
  <1>2. CASE asked # "none" /\ t \in FormatSet(s, asked)
    BY <1>2, FormatRow
  <1>3. CASE asked # "none" /\ t \notin FormatSet(s, asked)
    <2>1. ASSUME NEW v \in [format : Values, fps : Values],
                 t = WithFormat(s, v, NotConfirmed(asked))
          PROVE  Says(t, "format", asked) /\ t.rows["fps"] = s.rows["fps"]
      <3>1. t.rows["format"] = NotConfirmed(asked) /\ t.rows["fps"] = s.rows["fps"]
        BY <2>1, FormatRowWritten
      <3>2. asked # "none"
        BY <1>3
      <3> QED BY <3>1, <3>2, WrittenRowIsTrue DEF Says
    <2>2. \E v \in [format : Values, fps : Values] :
            t = WithFormat(s, v, NotConfirmed(asked))
      BY <1>3 DEF OpenCvFormatSet, WithFormat
    <2> QED BY <1>3, <2>1, <2>2
  <1> QED BY <1>1, <1>2, <1>3

\* Setting the rate writes its row and leaves the pixel format alone.
LEMMA RateRow ==
  ASSUME NEW s, Outcome(s), Silent(s, "fps"),
         NEW asked \in Values \cup {"none"}, NEW t \in RateSet(s, asked)
  PROVE  /\ Says(t, "fps", asked)
         /\ t.rows["format"] = s.rows["format"]
         /\ t.driver.format = s.driver.format
PROOF
  <1>1. s \in [driver : Kernel, rows : Rows]
    BY DEF Outcome
  <1>2. CASE asked = "none"
    BY <1>2 DEF RateSet, IsTrue, Marks, Says, Silent
  <1>3. CASE asked # "none"
    <2>1. ASSUME NEW fps \in Values, NEW row \in {NotConfirmed(asked), ReadBack(asked, fps)},
                 t = [driver |-> [s.driver EXCEPT !.fps = fps], rows |-> [s.rows EXCEPT !["fps"] = row]]
          PROVE  /\ Says(t, "fps", asked)
                 /\ t.rows["format"] = s.rows["format"] /\ t.driver.format = s.driver.format
      <3>1. /\ t.rows["fps"] = row /\ t.rows["format"] = s.rows["format"]
            /\ t.driver.fps = fps /\ t.driver.format = s.driver.format
        BY <1>1, <2>1 DEF Rows, Kernel
      <3> QED BY <1>3, <2>1, <3>1, WrittenRowIsTrue DEF Says
    <2> QED BY <1>3, <2>1 DEF RateSet
  <1> QED BY <1>2, <1>3

\* Negotiating leaves rows that are right; after OpenCV has set a pixel format, the row
\* of the rate need not be.
LEMMA NegotiatedRows ==
  ASSUME TypeOK
  PROVE  /\ \A t \in Negotiated(request) : /\ Says(t, "format", request.format)
                                           /\ Says(t, "fps", request.fps)
         /\ \A t \in OpenCvNegotiated :
              /\ Says(t, "format", request.format)
              /\ Marks(t.rows["fps"], request.fps)
              /\ request.format = "none" => Says(t, "fps", request.fps)
PROOF
  <1> DEFINE fresh == [driver |-> kernel, rows |-> NoRows]
  <1>1. Outcome(fresh) /\ Silent(fresh, "format") /\ Silent(fresh, "fps")
    BY DEF Outcome, SameStream, TypeOK, DeviceTypeOK, NoRows, Rows, Row, Silent
  <1>2. request.format \in Values \cup {"none"} /\ request.fps \in Values \cup {"none"}
    BY DEF TypeOK
  <1> HIDE DEF fresh
  <1>3. ASSUME NEW t \in Negotiated(request)
        PROVE  /\ Says(t, "format", request.format)
               /\ Says(t, "fps", request.fps)
    <2>1. PICK s \in FormatSet(fresh, request.format) : t \in RateSet(s, request.fps)
      BY DEF Negotiated, fresh
    <2>2. /\ Says(s, "format", request.format)
          /\ Silent(s, "fps")
      BY <1>1, <1>2, FormatRow DEF Silent
    <2>3. Outcome(s)
      BY <1>1, <1>2, FormatSetOutcome
    <2> QED BY <1>2, <2>1, <2>2, <2>3, RateRow DEF Says
  <1>4. ASSUME NEW t \in OpenCvNegotiated
        PROVE  /\ Says(t, "format", request.format)
               /\ Marks(t.rows["fps"], request.fps)
               /\ request.format = "none" => Says(t, "fps", request.fps)
    <2>1. PICK s \in RateSet(fresh, request.fps) : t \in OpenCvFormatSet(s, request.format)
      BY DEF OpenCvNegotiated, fresh
    <2>2. /\ Says(s, "fps", request.fps)
          /\ Silent(s, "format")
      BY <1>1, <1>2, RateRow DEF Silent
    <2>3. Outcome(s)
      BY <1>1, <1>2, RateSetOutcome
    <2>4. /\ Says(t, "format", request.format)
          /\ t.rows["fps"] = s.rows["fps"]
          /\ request.format = "none" => t.driver = s.driver
      BY <1>2, <2>1, <2>2, <2>3, OpenCvFormatRow
    <2> QED BY <2>2, <2>4 DEF Says
  <1> QED BY <1>3, <1>4

\* No system call but those that negotiate changes the values.
LEMMA DeviceKeepsValues ==
  ASSUME TypeOK, DeviceStep
  PROVE  kernel'.format = kernel.format /\ kernel'.fps = kernel.fps
PROOF
  <1>0. kernel \in Kernel
    BY DEF TypeOK, DeviceTypeOK
  <1>1. DescriptorClosed => kernel'.format = kernel.format /\ kernel'.fps = kernel.fps
    BY <1>0 DEF DescriptorClosed, Settled, IdleKernel, Kernel
  <1>2. CASE Abandon \/ CloseDescriptor \/ CloseFails
    BY <1>1, <1>2 DEF Abandon, CloseDescriptor, CloseFails, DescriptorNotClosed
  <1>3. CASE OpenDescriptor
    <2>1. CASE kernel' = [kernel EXCEPT !.opened = @ + 1]
      BY <1>0, <2>1 DEF Kernel
    <2>2. CASE UNCHANGED kernel
      BY <2>2
    <2> QED BY <1>3, <2>1, <2>2 DEF OpenDescriptor
  <1>4. CASE Probe
    BY <1>4 DEF Probe
  <1>7. CASE RequestBuffers
    <2>1. ASSUME NEW n \in 1 .. MaxBuffers, kernel' = [kernel EXCEPT !.granted = n, !.queued = 0]
          PROVE  kernel'.format = kernel.format /\ kernel'.fps = kernel.fps
      BY <1>0, <2>1 DEF Kernel
    <2>2. CASE UNCHANGED kernel
      BY <2>2
    <2> QED BY <1>7, <2>1, <2>2 DEF RequestBuffers
  <1>8. CASE MapBuffer \/ QueueBuffer \/ StreamOn \/ StartGivesUp
    BY <1>0, <1>8 DEF MapBuffer, QueueBuffer, StreamOn, StartGivesUp, Kernel
  <1>5. CASE Poll \/ Dequeue \/ Requeue \/ PullFails \/ PullEnds
    BY <1>0, <1>5 DEF Poll, Dequeue, Requeue, PullFails, PullEnds, Kernel
  <1>6. CASE StreamOff \/ UnmapBuffer \/ NothingAllocated \/ ReleaseBuffers
    BY <1>0, <1>6 DEF StreamOff, UnmapBuffer, NothingAllocated, ReleaseBuffers, Kernel
  <1> QED BY <1>2, <1>3, <1>4, <1>5, <1>6, <1>7, <1>8 DEF DeviceStep

\* The rows stay right.
LEMMA RowsKept ==
  ASSUME WebcamInv, RowInv, [Next]_vars
  PROVE  RowInv'
PROOF
  <1>0. TypeOK /\ SessionInv
    BY DEF WebcamInv, StateInv
  <1> USE DEF RowInv
  <1>1. CASE Connect
    <2>1. \A key \in {"format", "fps"} : stale'[key].status = "none"
      BY <1>1 DEF Connect, NoRows
    <2>2. "native" \notin session' /\ "connected" \notin session' /\ stale' = NoRows
      BY <1>1 DEF Connect
    <2> QED BY <2>1, <2>2
  <1>2. CASE UseNative
    <2>1. PICK t \in Negotiated(request) : kernel' = t.driver /\ rows' = t.rows
      BY <1>2 DEF UseNative
    <2>2. request' = request /\ stale' = stale /\ stale = NoRows
      BY <1>2 DEF UseNative, Back
    <2> QED BY <1>0, <2>1, <2>2, NegotiatedRows DEF Says
  <1>3. CASE UseOpenCv
    <2>1. PICK t \in OpenCvNegotiated : kernel' = t.driver /\ rows' = t.rows
      BY <1>3 DEF UseOpenCv
    <2>2. request' = request /\ session' = session \cup {"connected"} /\ "native" \notin session
          /\ stale' = stale /\ at' = "idle"
      BY <1>0, <1>3 DEF UseOpenCv, Fallback, Back, SessionInv
    <2> QED BY <1>0, <2>1, <2>2, NegotiatedRows DEF Says
  <1>4. CASE DropNative
    <2>1. PICK t \in Negotiated(request) : stale' = t.rows
      BY <1>4 DEF DropNative
    <2>2. /\ Marks(stale'["format"], request.format)
          /\ Marks(stale'["fps"], request.fps)
      BY <1>0, <2>1, NegotiatedRows DEF Says
    <2>3. session' = {} /\ request' = request /\ at' = "drop"
      BY <1>0, <1>4 DEF DropNative, Back, SessionInv
    <2> QED BY <2>2, <2>3 DEF Marks
  <1>5. CASE DropFails \/ ConnectFails \/ StartOpenCv \/ PullOpenCv \/ Pulled \/ SessionEnds
             \/ StopOpenCv \/ Destroyed
    BY <1>5 DEF DropFails, ConnectFails, StartOpenCv, PullOpenCv, Pulled, SessionEnds,
                StopOpenCv, Destroyed, deviceVars, NoSession, NoRows
  <1>6. CASE Started
    BY <1>6 DEF Started, deviceVars
  <1>7. CASE StartNative \/ PullNative \/ StopNative \/ Stopped \/ DestroyCloses \/ DestroyMember
    BY <1>7 DEF StartNative, PullNative, StopNative, Stopped, DestroyCloses, DestroyMember,
                CallStart, CallPull, CallStop, CallClose, Decline
  <1>8. CASE Destroy
    BY <1>8 DEF Destroy, CallStop, CallClose, Decline
  <1>9. CASE DeviceStep /\ UNCHANGED sessionVars
    BY <1>0, <1>9, DeviceKeepsValues DEF sessionVars
  <1>10. CASE UNCHANGED vars
    BY <1>10 DEF vars
  <1> QED
    BY <1>1, <1>2, <1>3, <1>4, <1>5, <1>6, <1>7, <1>8, <1>9, <1>10 DEF Next

\* The last row of config_verify.json about a control tells what the driver captures
\* with, until the session ends, whatever a driver makes of a request and whichever call
\* fails; and rows of a dropped device come before it in an OpenCV session only.
THEOREM WebcamRowsTellTruth == Spec => []RowsTellTruth
PROOF
  <1>1. Init => RowInv
    BY DEF Init, RowInv, NoSession, NoRows
  <1>2. WebcamInv /\ RowInv /\ [Next]_vars => RowInv'
    BY RowsKept
  <1>3. WebcamInv /\ RowInv => RowsTellTruth
    <2> SUFFICES ASSUME WebcamInv, RowInv, at = "idle", "connected" \in session
                 PROVE  /\ \A key \in KeysReadLast : IsTrue(LastRow(key), request[key], kernel[key])
                        /\ "native" \in session => stale = NoRows
      BY DEF RowsTellTruth, IsTrue
    <2>1. \A key \in {"format", "fps"} :
            rows[key].status = "none" => LastRow(key).status = "none"
      BY DEF RowInv, Marks, LastRow
    <2>2. \A key \in {"format", "fps"} :
            IsTrue(rows[key], request[key], kernel[key])
              => IsTrue(LastRow(key), request[key], kernel[key])
      BY <2>1 DEF IsTrue, LastRow
    <2>3. \A key \in KeysReadLast : IsTrue(rows[key], request[key], kernel[key])
      BY DEF RowInv, KeysReadLast
    <2> QED BY <2>2, <2>3 DEF RowInv, KeysReadLast
  <1> QED BY WebcamInductive, <1>1, <1>2, <1>3, PTL DEF Spec
=============================================================================
