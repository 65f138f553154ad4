------------------------- MODULE RunLifecycleProofs -------------------------
(***************************************************************************)
(* What holds of RunLifecycle for every duration, retry budget, number of  *)
(* runs and kind of failure.                                               *)
(***************************************************************************)
EXTENDS RunLifecycle, TLAPS

\* RunLifecycle's constants, on which every lemma below rests.
USE LifecycleAssumption DEF LifecycleAssumption

-----------------------------------------------------------------------------
(***************************************************************************)
(* Types                                                                   *)
(***************************************************************************)

\* A run in progress has a number; where frames of a chunk are outstanding, time
\* remains; only a real backend is ever part of the way through.
Clock ==
  /\ pc # "idle" => runs \in 1 .. MaxRuns
  /\ pc \in {"pull", "emit"} => run.done < Duration
  /\ run.kind # "real" => run.done \in {0, Duration}

TypeInv == TypeOK /\ Clock

\* Whatever a camera call leaves is a camera.
LEMMA CameraResults ==
  ASSUME NEW c \in Camera
  PROVE  Connected(c) \cup NotConnected(c) \cup Started(c) \cup NotStarted(c)
           \cup Stopped(c) \cup NotStopped(c) \cup Detached(c) \subseteq Camera
<1>1. Connected(c) \subseteq Camera /\ NotConnected(c) \subseteq Camera
  BY DEF Connected, NotConnected, Camera
<1>2. Started(c) \subseteq Camera /\ NotStarted(c) \subseteq Camera
  BY DEF Started, NotStarted, Camera
<1>3. Stopped(c) \subseteq Camera /\ NotStopped(c) \subseteq Camera
  BY DEF Stopped, NotStopped, Camera
<1>4. Detached(c) \subseteq Camera
  BY DEF Detached, Camera
<1> QED BY <1>1, <1>2, <1>3, <1>4

\* What the fields of a run's context may hold.
LEMMA RunFields ==
  ASSUME NEW r \in Run
  PROVE  /\ r.kind \in {"sim", "webcam", "real"}
         /\ r.done \in 0 .. Duration
         /\ r.used \in 0 .. RetryLimit
         /\ r.ending \in Endings
         /\ r.health \in {"good", "failed"}
  BY DEF Run

\* A step that records a failure changes nothing else of the context.
LEMMA SetHealth ==
  ASSUME NEW r \in Run, NEW h \in {"good", "failed"}
  PROVE  LET q == [r EXCEPT !.health = h]
         IN  /\ q \in Run
             /\ q.kind = r.kind /\ q.done = r.done
             /\ q.used = r.used /\ q.ending = r.ending
  BY DEF Run

\* Nor does one that decides how the run ends,
LEMMA SetEnding ==
  ASSUME NEW r \in Run, NEW e \in Endings
  PROVE  LET q == [r EXCEPT !.ending = e]
         IN  /\ q \in Run
             /\ q.kind = r.kind /\ q.done = r.done
             /\ q.used = r.used /\ q.ending = e
  BY DEF Run

\* one that counts collected time,
LEMMA SetDone ==
  ASSUME NEW r \in Run, NEW d \in 0 .. Duration
  PROVE  LET q == [r EXCEPT !.done = d]
         IN  /\ q \in Run
             /\ q.kind = r.kind /\ q.done = d
             /\ q.used = r.used /\ q.ending = r.ending
  BY DEF Run

\* or one that counts an attempt.
LEMMA SetUsed ==
  ASSUME NEW r \in Run, NEW u \in 0 .. RetryLimit
  PROVE  LET q == [r EXCEPT !.used = u]
         IN  /\ q \in Run
             /\ q.kind = r.kind /\ q.done = r.done
             /\ q.used = u /\ q.ending = r.ending
  BY DEF Run

\* What the steps write into a bundle leaves a bundle.
LEMMA BundleUpdates ==
  ASSUME NEW b \in Bundle, NEW n \in 1 .. MaxRuns, NEW e \in Endings,
         NEW span \in 0 .. Duration
  PROVE  /\ [b EXCEPT !.events = @ \cup {n}] \in Bundle
         /\ [b EXCEPT !.stopped = [run |-> n, reason |-> e]] \in Bundle
         /\ [b EXCEPT !.runJson = n] \in Bundle
         /\ [b EXCEPT !.metrics = [run |-> n, span |-> span]] \in Bundle
         /\ [b EXCEPT !.manifest = n] \in Bundle
<1>1. [b EXCEPT !.events = @ \cup {n}] \in Bundle
  <2>1. b.events \cup {n} \in SUBSET (1 .. MaxRuns)
    BY DEF Bundle
  <2> QED BY <2>1 DEF Bundle
<1>2. [b EXCEPT !.stopped = [run |-> n, reason |-> e]] \in Bundle
  <2>1. [run |-> n, reason |-> e] \in [run : 0 .. MaxRuns, reason : Endings \cup {"none"}]
    OBVIOUS
  <2> QED BY <2>1 DEF Bundle
<1>3. [b EXCEPT !.runJson = n] \in Bundle
  BY DEF Bundle
<1>4. [b EXCEPT !.metrics = [run |-> n, span |-> span]] \in Bundle
  <2>1. [run |-> n, span |-> span] \in [run : 0 .. MaxRuns, span : 0 .. Duration]
    OBVIOUS
  <2> QED BY <2>1 DEF Bundle
<1>5. [b EXCEPT !.manifest = n] \in Bundle
  BY DEF Bundle
<1> QED BY <1>1, <1>2, <1>3, <1>4, <1>5

\* So does an event.
LEMMA EventInBundle ==
  ASSUME TypeOK, Clock, pc # "idle"
  PROVE  WithEvent \in Bundle
<1>1. "completed" \in Endings /\ 0 \in 0 .. Duration /\ bundle \in Bundle
  BY DEF Endings, TypeOK
<1> QED BY <1>1, BundleUpdates DEF WithEvent, Clock

\* A run begins with nothing done, and an empty bundle is a bundle.
LEMMA Beginnings ==
  /\ EmptyBundle \in Bundle
  /\ \A kind \in {"sim", "webcam", "real"}, impairment \in {"asked", "none"} :
       LET r == NewRun(kind, impairment)
       IN  /\ r \in Run
           /\ r.kind = kind /\ r.done = 0 /\ r.used = 0 /\ r.ending = "completed"
<1>1. EmptyBundle \in Bundle
  BY DEF EmptyBundle, Bundle
<1>2. ASSUME NEW kind \in {"sim", "webcam", "real"}, NEW impairment \in {"asked", "none"}
      PROVE  LET r == NewRun(kind, impairment)
             IN  /\ r \in Run
                 /\ r.kind = kind /\ r.done = 0 /\ r.used = 0 /\ r.ending = "completed"
  BY DEF NewRun, Run, Endings
<1> QED BY <1>1, <1>2

\* Every step keeps the host's types: those that leave the host alone, and the others.
LEMMA HostTypes ==
  ASSUME HostOK, [Next]_vars
  PROVE  HostOK'
<1> USE DEF HostOK, host, Opened, Shut
<1>1. CASE UNCHANGED host
  BY <1>1
<1>2. ASSUME NEW kind \in Kinds, NEW impairment \in {"asked", "none"},
             Begin(kind, impairment)
      PROVE  HostOK'
  BY <1>2 DEF Begin
<1>3. CASE Setup
  <2>1. CASE TakeLock
    BY <2>1 DEF TakeLock
  <2>2. CASE LockFails
    BY <2>2 DEF LockFails
  <2>3. CASE Connect \/ ConnectFails
    BY <2>3 DEF Connect, ConnectFails
  <2>4. CASE ApplyNetem
    BY <2>4 DEF ApplyNetem, Impaired
  <2>5. CASE Prepare \/ Configure \/ Describe \/ Start \/ StartFails \/ Announce \/ SetupFails
    BY <1>1, <2>5 DEF Prepare, Configure, Describe, Start, StartFails, Announce, SetupFails
  <2> QED BY <1>3, <2>1, <2>2, <2>3, <2>4, <2>5 DEF Setup
<1>4. CASE Stream
  <2>1. CASE StreamFails \/ Stop \/ StopFails
    BY <2>1 DEF StreamFails, StopAndAbort, Stop, StopFails
  <2>2. CASE ~(StreamFails \/ Stop \/ StopFails)
    BY <1>1, <1>4, <2>2
       DEF Stream, Poll, Pull, Emit, LoseDevice, RecordDisconnect, Reconnect, Restart,
           GiveUpDevice, RecordStop
  <2> QED BY <2>1, <2>2
<1>5. CASE Finalize
  BY <1>1, <1>5 DEF Finalize, WriteRunJson, WriteMetrics, WriteReports, WriteManifest,
                    FinalizeFails, Conclude
<1>6. CASE Teardown
  <2>1. CASE DestroyGuard
    BY <2>1 DEF DestroyGuard
  <2>2. CASE DestroyBackend
    BY <2>2 DEF DestroyBackend
  <2>3. CASE DestroyLock
    BY <2>3 DEF DestroyLock
  <2> QED BY <1>6, <2>1, <2>2, <2>3 DEF Teardown
<1>7. CASE RaiseSignal \/ UNCHANGED vars
  BY <1>1, <1>7 DEF RaiseSignal, vars
<1>8. CASE Kill
  BY <1>8 DEF Kill
<1> QED BY <1>2, <1>3, <1>4, <1>5, <1>6, <1>7, <1>8 DEF Next, Step

\* Every step keeps the types.
LEMMA TypeStep ==
  ASSUME TypeInv, [Next]_vars
  PROVE  TypeInv'
<1>h. HostOK'
  BY HostTypes DEF TypeInv, TypeOK
<1> USE <1>h DEF TypeInv, TypeOK, Clock, Stages, Handled
<1>a. camera \in Camera /\ run \in Run /\ runs \in 0 .. MaxRuns /\ bundle \in Bundle
  OBVIOUS
<1>b. /\ Connected(camera) \cup NotConnected(camera) \subseteq Camera
      /\ Started(camera) \cup NotStarted(camera) \subseteq Camera
      /\ Stopped(camera) \cup NotStopped(camera) \subseteq Camera
      /\ Detached(camera) \subseteq Camera
  BY CameraResults, <1>a
<1>c. pc # "idle" => WithEvent \in Bundle
  BY EventInBundle
<1>d. \A h \in {"good", "failed"} :
        LET q == [run EXCEPT !.health = h]
        IN  q \in Run /\ q.kind = run.kind /\ q.done = run.done
  BY <1>a, SetHealth
<1>1. ASSUME NEW kind \in Kinds, NEW impairment \in {"asked", "none"},
             Begin(kind, impairment)
      PROVE  TypeInv'
  <2>1. kind \in {"sim", "webcam", "real"}
    OBVIOUS
  <2>2. bundle' \in Bundle
    BY <1>a, <1>1, Beginnings DEF Begin
  <2>3. run' \in Run /\ run'.done = 0
    BY <1>1, <2>1, Beginnings DEF Begin
  <2> QED BY <1>1, <2>2, <2>3 DEF Begin
<1>2. CASE Setup
  <2>1. CASE TakeLock
    BY <2>1 DEF TakeLock
  <2>12. CASE LockFails
    BY <1>d, <2>12 DEF LockFails, Abort, Return
  <2>2. CASE Prepare
    BY <2>2 DEF Prepare
  <2>3. CASE SetupFails
    BY <1>d, <2>3 DEF SetupFails, Abort, Return
  <2>4. CASE Configure
    BY <1>c, <2>4 DEF Configure
  <2>5. CASE Describe
    BY <1>c, <2>5 DEF Describe
  <2>6. CASE Announce
    BY <1>c, <2>6 DEF Announce
  <2>7. CASE Connect
    BY <1>b, <2>7 DEF Connect
  <2>8. CASE ConnectFails
    <3>1. [bundle EXCEPT !.runJson = runs] \in Bundle
      <4>1. "completed" \in Endings /\ 0 \in 0 .. Duration
        BY DEF Endings
      <4> QED BY <1>a, <2>8, <4>1, BundleUpdates DEF ConnectFails
    <3> QED BY <1>b, <1>d, <2>8, <3>1 DEF ConnectFails, Return
  <2>9. CASE ApplyNetem
    BY <2>9 DEF ApplyNetem, Impaired
  <2>10. CASE Start
    BY <1>b, <2>10 DEF Start
  <2>11. CASE StartFails
    BY <1>b, <1>d, <2>11 DEF StartFails, Abort, Return
  <2> QED BY <1>2, <2>1, <2>2, <2>3, <2>4, <2>5, <2>6, <2>7, <2>8, <2>9, <2>10, <2>11, <2>12
          DEF Setup
<1>3. CASE Stream
  <2>a. \A e \in Endings :
          LET q == [run EXCEPT !.ending = e]
          IN  q \in Run /\ q.kind = run.kind /\ q.done = run.done
    BY <1>a, SetEnding
  <2>b. "signal_interrupt" \in Endings /\ "device_disconnect" \in Endings
    BY DEF Endings
  <2>1. CASE Poll
    <3>1. run.done \in 0 .. Duration
      BY <1>a, RunFields
    <3>2. CASE run' = run
      BY <2>1, <3>1, <3>2 DEF Poll
    <3>3. CASE run' = [run EXCEPT !.ending = "signal_interrupt"] /\ pc' = "stop"
      BY <2>1, <2>a, <2>b, <3>3 DEF Poll
    <3> QED BY <2>1, <3>2, <3>3 DEF Poll
  <2>2. CASE Pull
    BY <2>2 DEF Pull
  <2>3. CASE Emit
    <3>1. run.done + Span \in 0 .. Duration
          /\ (run.kind # "real" => run.done + Span = Duration)
      BY <1>a, <2>3, RunFields DEF Emit, Span
    <3>2. run' \in Run /\ run'.kind = run.kind /\ run'.done = run.done + Span
      BY <1>a, <2>3, <3>1, SetDone DEF Emit
    <3>3. bundle' \in Bundle
      BY <1>a, <1>c, <2>3 DEF Emit
    <3> QED BY <2>3, <3>1, <3>2, <3>3 DEF Emit
  <2>4. CASE StreamFails
    BY <1>b, <1>d, <2>4 DEF StreamFails, StopAndAbort, Abort, Return
  <2>5. CASE LoseDevice
    <3>1. run' \in Run /\ run'.kind = run.kind /\ run'.done = run.done
      <4>1. (IF "running" \in camera' THEN "failed" ELSE run.health) \in {"good", "failed"}
        BY <1>a DEF Run
      <4> QED
        BY <1>a, <1>d, <2>5, <4>1 DEF LoseDevice
    <3> QED BY <1>b, <2>5, <3>1 DEF LoseDevice
  <2>6. CASE RecordDisconnect
    BY <1>c, <2>6 DEF RecordDisconnect
  <2>7. CASE Reconnect
    <3>1. run.used + 1 \in 0 .. RetryLimit
      BY <1>a, <2>7, RunFields DEF Reconnect
    <3>2. run' \in Run /\ run'.kind = run.kind /\ run'.done = run.done
      BY <1>a, <2>7, <3>1, SetUsed DEF Reconnect, Counted
    <3> QED BY <1>b, <2>7, <3>2 DEF Reconnect
  <2>8. CASE Restart
    <3>1. \A d \in NotStarted(camera) : Stopped(d) \cup NotStopped(d) \subseteq Camera
      BY <1>b, CameraResults
    <3> QED BY <1>b, <2>8, <3>1 DEF Restart
  <2>9. CASE GiveUpDevice
    BY <2>9, <2>a, <2>b DEF GiveUpDevice
  <2>10. CASE Stop
    BY <1>b, <2>10 DEF Stop
  <2>11. CASE StopFails
    BY <1>b, <1>d, <2>11 DEF StopFails, Abort, Return
  <2>12. CASE RecordStop
    <3>1. bundle' = [WithEvent EXCEPT !.stopped = [run |-> runs, reason |-> run.ending]]
      BY <2>12 DEF RecordStop
    <3>2. WithEvent \in Bundle /\ runs \in 1 .. MaxRuns /\ run.ending \in Endings
          /\ 0 \in 0 .. Duration
      BY <1>a, <1>c, <2>12, RunFields DEF RecordStop
    <3>3. bundle' \in Bundle
      BY <3>1, <3>2, BundleUpdates
    <3> QED BY <2>12, <3>3 DEF RecordStop
  <2> QED BY <1>3, <2>1, <2>2, <2>3, <2>4, <2>5, <2>6, <2>7, <2>8, <2>9, <2>10, <2>11, <2>12
          DEF Stream
<1>4. CASE Finalize
  <2>a. /\ "completed" \in Endings /\ 0 \in 0 .. Duration
        /\ MetricsSpan \in 0 .. Duration
    BY <1>a, RunFields DEF Endings, MetricsSpan
  <2>b. pc # "idle" =>
          /\ [bundle EXCEPT !.runJson = runs] \in Bundle
          /\ [bundle EXCEPT !.metrics = [run |-> runs, span |-> MetricsSpan]] \in Bundle
          /\ [bundle EXCEPT !.manifest = runs] \in Bundle
    BY <1>a, <2>a, BundleUpdates
  <2>1. CASE WriteRunJson
    BY <2>1, <2>b DEF WriteRunJson
  <2>2. CASE WriteManifest
    BY <2>2, <2>b DEF WriteManifest
  <2>3. CASE WriteMetrics
    BY <2>3, <2>b DEF WriteMetrics
  <2>4. CASE WriteReports
    BY <1>c, <2>4 DEF WriteReports
  <2>5. CASE FinalizeFails
    BY <1>d, <2>5 DEF FinalizeFails, Abort, Return
  <2>6. CASE Conclude
    BY <2>6 DEF Conclude, Verdicts, Return
  <2> QED BY <1>4, <2>1, <2>2, <2>3, <2>4, <2>5, <2>6 DEF Finalize
<1>5. Released \in Camera
  BY DEF Released, Camera
<1>6. CASE Teardown
  <2>1. CASE DestroyGuard
    BY <2>1 DEF DestroyGuard
  <2>2. CASE DestroyBackend
    BY <1>5, <2>2 DEF DestroyBackend
  <2>3. CASE DestroyLock
    BY <2>3 DEF DestroyLock
  <2> QED BY <1>6, <2>1, <2>2, <2>3 DEF Teardown
<1>7. CASE RaiseSignal
  BY <1>7 DEF RaiseSignal
<1>8. CASE Kill
  BY <1>5, <1>8 DEF Kill
<1>9. CASE UNCHANGED vars
  BY <1>9 DEF vars, host
<1> QED BY <1>1, <1>2, <1>3, <1>4, <1>6, <1>7, <1>8, <1>9 DEF Next, Step

\* Types and clock are invariant.
LEMMA LifecycleTypes == Spec => []TypeInv
<1>1. Init => TypeInv
  <2> SUFFICES ASSUME Init PROVE TypeInv
    OBVIOUS
  <2>1. bundle \in Bundle /\ run \in Run /\ run.done = 0
    BY Beginnings DEF Init
  <2>2. camera \in Camera
    BY DEF Init, Released, Camera
  <2>3. TypeOK
    <3>1. /\ pc \in Stages
          /\ guard \in {"idle", "armed"} /\ signal \in BOOLEAN
          /\ HostOK
      BY DEF Init, Stages, Handled, HostOK
    <3>2. runs \in 0 .. MaxRuns /\ exit = "none"
      BY DEF Init
    <3> QED BY <2>1, <2>2, <3>1, <3>2 DEF TypeOK
  <2>4. Clock
    BY <2>1 DEF Init, Clock
  <2> QED BY <2>3, <2>4 DEF TypeInv
<1>2. TypeInv /\ [Next]_vars => TypeInv'
  BY TypeStep
<1> QED BY <1>1, <1>2, PTL DEF Spec

\* Every reachable state is well typed: no run uses more attempts than its budget
\* or counts more time than it was asked for.
THEOREM LifecycleTypeCorrect == Spec => []TypeOK
<1>1. TypeInv => TypeOK
  BY DEF TypeInv
<1> QED BY <1>1, LifecycleTypes, PTL

-----------------------------------------------------------------------------
(***************************************************************************)
(* The host: lock, camera, impairment                                      *)
(***************************************************************************)

\* From the lock to the end of the run's own code.
Working ==
  Handled \cup {"prepare", "configure", "connect", "describe", "netem", "start", "announce",
                "runJson", "metrics", "reports", "manifest", "verdict"}

\* Where nothing has been opened yet, or everything is released; where no
\* impairment has been applied yet, or it has been removed.
Closed == {"idle", "lock", "prepare", "configure", "connect", "unlock"}
Unimpaired == {"idle", "lock", "prepare", "configure", "connect", "describe", "netem",
               "release", "unlock"}

\* Where the stream runs.
Streaming == {"announce", "poll", "pull", "emit"}

\* What a run has taken it still means to give back, or could not.
OwedInv ==
  /\ netem = "on" => guard = "armed" \/ "impairment" \in lapses
  /\ lock = "stale" => "lock" \in lapses
  /\ device = "open" /\ (pc \in Closed \/ run.kind # "webcam") => "camera" \in lapses

HostInv ==
  /\ lock = "held" => pc \notin {"idle", "lock"}
  /\ pc \in Working /\ run.kind \in Locked => lock = "held"
  /\ LockOutlivesCamera
  /\ guard \in {"idle", "armed"}
  /\ pc \in Unimpaired => guard = "idle"
  /\ pc \in Closed => camera = Released
  /\ OwedInv
  /\ pc \in Streaming => {"connected", "running"} \subseteq camera

\* What a run begins with, and what it writes into its context, leaves the backend
\* it was given.
LEMMA KindKept ==
  ASSUME run \in Run, Step
  PROVE  run'.kind = run.kind
<1> USE DEF Run
<1>1. CASE Setup
  BY <1>1 DEF Setup, TakeLock, LockFails, Prepare, Configure, Connect, ConnectFails,
              Describe, ApplyNetem, Start, StartFails, Announce, SetupFails, Abort
<1>2. CASE Stream
  BY <1>2 DEF Stream, Poll, Pull, Emit, StreamFails, LoseDevice, RecordDisconnect,
              Reconnect, Restart, GiveUpDevice, Stop, StopFails, RecordStop, StopAndAbort,
              Abort
<1>3. CASE Finalize
  BY <1>3 DEF Finalize, WriteRunJson, WriteMetrics, WriteReports, WriteManifest,
              FinalizeFails, Conclude, Abort
<1>4. CASE Teardown
  BY <1>4 DEF Teardown, DestroyGuard, DestroyBackend, DestroyLock
<1> QED BY <1>1, <1>2, <1>3, <1>4 DEF Step

\* Every step keeps lock, camera and impairment in step with where the run is.
LEMMA HostStep ==
  ASSUME TypeInv, HostInv, [Next]_vars
  PROVE  HostInv'
<1> USE DEF HostInv, OwedInv, LockOutlivesCamera, Working, Handled, Closed, Unimpaired,
            Streaming, host, Opened, Shut
<1>r. run \in Run
  BY DEF TypeInv, TypeOK
<1>1. ASSUME NEW kind \in Kinds, NEW impairment \in {"asked", "none"},
             Begin(kind, impairment)
      PROVE  HostInv'
  BY <1>1 DEF Begin
<1>2. CASE Setup
  <2>1. run'.kind = run.kind
    BY <1>2, <1>r, KindKept DEF Step
  <2>2. CASE TakeLock
    BY <2>1, <2>2 DEF TakeLock
  <2>10. CASE LockFails
    BY <2>1, <2>10 DEF LockFails, Abort, Return
  <2>3. CASE Prepare \/ Configure \/ Describe \/ Announce
    BY <2>1, <2>3 DEF Prepare, Configure, Describe, Announce
  <2>4. CASE SetupFails
    BY <2>1, <2>4 DEF SetupFails, Abort, Return
  <2>5. CASE Connect
    BY <2>1, <2>5 DEF Connect
  <2>6. CASE ConnectFails
    BY <2>1, <2>6 DEF ConnectFails, Return
  <2>7. CASE ApplyNetem
    BY <2>1, <2>7 DEF ApplyNetem, Impaired
  <2>8. CASE Start
    <3>1. {"connected", "running"} \subseteq camera'
      BY <2>8 DEF Start, Started, StartRefused
    <3> QED BY <2>1, <2>8, <3>1 DEF Start
  <2>9. CASE StartFails
    BY <2>1, <2>9 DEF StartFails, Abort, Return
  <2> QED BY <1>2, <2>2, <2>3, <2>4, <2>5, <2>6, <2>7, <2>8, <2>9, <2>10
          DEF Setup
<1>3. CASE Stream
  <2>1. run'.kind = run.kind
    BY <1>3, <1>r, KindKept DEF Step
  <2>2. CASE Poll \/ Pull \/ Emit \/ RecordDisconnect \/ GiveUpDevice \/ RecordStop
    BY <2>1, <2>2 DEF Poll, Pull, Emit, RecordDisconnect, GiveUpDevice, RecordStop
  <2>3. CASE StreamFails
    BY <2>1, <2>3 DEF StreamFails, StopAndAbort, Abort, Return
  <2>4. CASE LoseDevice
    BY <2>1, <2>4 DEF LoseDevice
  <2>5. CASE Reconnect
    BY <2>1, <2>5 DEF Reconnect
  <2>6. CASE Restart
    <3>1. CASE pc' = "poll"
      <4>1. {"connected", "running"} \subseteq camera'
        BY <2>6, <3>1 DEF Restart, Started, StartRefused
      <4> QED BY <2>1, <2>6, <3>1, <4>1 DEF Restart
    <3>2. CASE pc' = "reconnect"
      BY <2>1, <2>6, <3>2 DEF Restart
    <3> QED BY <2>6, <3>1, <3>2 DEF Restart
  <2>7. CASE Stop \/ StopFails
    BY <2>1, <2>7 DEF Stop, StopFails, Abort, Return
  <2> QED BY <1>3, <2>2, <2>3, <2>4, <2>5, <2>6, <2>7 DEF Stream
<1>4. CASE Finalize
  <2>1. run'.kind = run.kind
    BY <1>4, <1>r, KindKept DEF Step
  <2> QED BY <1>4, <2>1 DEF Finalize, WriteRunJson, WriteMetrics, WriteReports,
                            WriteManifest, FinalizeFails, Conclude, Abort, Return
<1>5. CASE Teardown
  <2>1. CASE DestroyGuard
    BY <2>1 DEF DestroyGuard
  <2>2. CASE DestroyBackend
    BY <2>2 DEF DestroyBackend
  <2>3. CASE DestroyLock
    BY <2>3 DEF DestroyLock
  <2> QED BY <1>5, <2>1, <2>2, <2>3 DEF Teardown
<1>6. CASE RaiseSignal
  BY <1>6 DEF RaiseSignal
<1>7. CASE Kill
  BY <1>7 DEF Kill
<1>8. CASE UNCHANGED vars
  BY <1>8 DEF vars
<1> QED BY <1>1, <1>2, <1>3, <1>4, <1>5, <1>6, <1>7, <1>8 DEF Next, Step

\* The two invariants that the theorems below rest on hold together.
THEOREM LifecycleHost == Spec => [](TypeInv /\ HostInv)
<1>1. Init => HostInv
  BY DEF Init, HostInv, OwedInv, LockOutlivesCamera, Working, Handled, Closed, Unimpaired,
         Streaming, Released
<1>2. HostInv /\ TypeInv /\ [Next]_vars => HostInv'
  BY HostStep
<1>3. Spec => []TypeInv
  BY LifecycleTypes
<1> QED BY <1>1, <1>2, <1>3, PTL DEF Spec

\* Whatever way a run ends, it has tried to give back all it took: what remains on the
\* host between runs is only what a release that failed, or a kill, has left there.
THEOREM LifecycleLeaksNothing == Spec => []NothingLeaks
<1>1. TypeInv /\ HostInv => NothingLeaks
  <2> SUFFICES ASSUME TypeInv, HostInv, pc = "idle"
               PROVE  /\ lock # "held" /\ camera = Released /\ guard = "idle"
                      /\ Remains \subseteq lapses
    BY DEF NothingLeaks
  <2>1. lock # "held" /\ camera = Released /\ guard = "idle"
    BY DEF HostInv, Closed, Unimpaired
  <2>2. netem = "on" => "impairment" \in lapses
    BY <2>1 DEF HostInv, OwedInv
  <2>3. device = "open" => "camera" \in lapses
    BY DEF HostInv, OwedInv, Closed
  <2>4. lock # "free" => "lock" \in lapses
    BY <2>1 DEF TypeInv, TypeOK, HostOK, HostInv, OwedInv
  <2> QED BY <2>1, <2>2, <2>3, <2>4 DEF Remains
<1> QED BY <1>1, LifecycleHost, PTL

\* A camera that needs the lock is open only while the lock is held, and so is
\* the impairment of its run.
THEOREM LifecycleLockOutlivesCamera == Spec => []LockOutlivesCamera
<1>1. HostInv => LockOutlivesCamera
  BY DEF HostInv
<1> QED BY <1>1, LifecycleHost, PTL

\* However often the device was lost and found, frames are pulled only from a
\* connected camera that streams.
THEOREM LifecyclePullsFromStream == Spec => []PullsFromStream
<1>1. HostInv => PullsFromStream
  BY DEF HostInv, PullsFromStream, Streaming
<1> QED BY <1>1, LifecycleHost, PTL

-----------------------------------------------------------------------------
(***************************************************************************)
(* The bundle and the exit code                                            *)
(***************************************************************************)

Ended == {"guard", "release", "unlock", "idle"}

\* Until the loop has been left, nothing has been decided about the run.
Undecided ==
  {"lock", "prepare", "configure", "connect", "describe", "netem", "start", "announce",
   "poll", "pull", "emit", "disconnect", "reconnect", "restart"}

\* The stages after the manifest, after the metrics, after run.json, after the
\* STREAM_STOPPED event, and after the loop.
Sealed == {"verdict"}
Measured == Sealed \cup {"reports", "manifest"}
Registered == Measured \cup {"metrics"}
Recorded == Registered \cup {"runJson"}
Decided == Recorded \cup {"stop", "stopped"}

\* The run got to Conclude: an error return gives other codes, and marks the run.
Concluded ==
  /\ pc \in Ended
  /\ exit \notin {"none", "killed"}
  /\ exit \in {"success", "thresholdsFailed"} \/ run.health = "good"

\* How the run ended is what the loop saw.
EndingInv ==
  /\ pc \in Undecided => run.ending = "completed"
  /\ run.ending = "device_disconnect" => run.used = RetryLimit
  /\ pc \in Decided /\ run.ending = "completed" => run.done = Duration

\* Each artifact is this run's from the step that writes it to the run's end.
ArtifactInv ==
  /\ pc \in Recorded =>
       /\ runs \in bundle.events
       /\ bundle.stopped = [run |-> runs, reason |-> run.ending]
  /\ pc \in Registered => bundle.runJson = runs
  /\ pc \in Measured => bundle.metrics = [run |-> runs, span |-> run.done]
  /\ pc \in Sealed => bundle.manifest = runs

\* The exit code speaks of the bundle the run leaves.
ExitInv ==
  /\ exit = "running" <=> pc \notin Ended
  /\ exit \in {"none", "running", "success", "failure", "connectFailed",
               "thresholdsFailed", "killed"}
  /\ exit = "connectFailed" => run.health = "failed"
  /\ exit = "none" => run.ending = "completed"
  /\ Concluded =>
       /\ Documented
       /\ run.ending = "completed" => run.done = Duration
       /\ exit \in {"success", "thresholdsFailed"} <=> run.ending = "completed"

DocInv == EndingInv /\ ArtifactInv /\ ExitInv

\* What the steps write into a bundle changes one artifact of it.
LEMMA SetArtifact ==
  ASSUME NEW b \in Bundle, NEW n
  PROVE  /\ LET a == [b EXCEPT !.events = @ \cup {n}]
            IN  /\ n \in a.events
                /\ b.events \subseteq a.events
                /\ a.stopped = b.stopped /\ a.runJson = b.runJson
                /\ a.metrics = b.metrics /\ a.manifest = b.manifest
         /\ LET a == [b EXCEPT !.runJson = n]
            IN  /\ a.events = b.events /\ a.stopped = b.stopped
                /\ a.runJson = n
         /\ LET a == [b EXCEPT !.metrics = n]
            IN  /\ a.events = b.events /\ a.stopped = b.stopped /\ a.runJson = b.runJson
                /\ a.metrics = n
         /\ LET a == [b EXCEPT !.manifest = n]
            IN  /\ a.events = b.events /\ a.stopped = b.stopped /\ a.runJson = b.runJson
                /\ a.metrics = b.metrics /\ a.manifest = n
         /\ LET a == [b EXCEPT !.stopped = n]
            IN  a.events = b.events /\ a.stopped = n
  BY DEF Bundle

\* An error return marks the run, and leaves how it ended and what it used.
LEMMA AbortStep ==
  ASSUME run \in Run, run' = [run EXCEPT !.health = "failed"], EndingInv, ArtifactInv,
         ExitInv, pc \notin Ended, pc' = "guard", exit' \in {"failure", "connectFailed"}
  PROVE  DocInv'
<1>1. run'.health = "failed" /\ run'.ending = run.ending /\ run'.used = run.used
  BY DEF Run
<1>2. EndingInv'
  BY <1>1 DEF EndingInv, Undecided, Decided, Recorded, Registered, Measured, Sealed
<1>3. ArtifactInv'
  BY DEF ArtifactInv, Recorded, Registered, Measured, Sealed
<1>4. ExitInv'
  BY <1>1 DEF ExitInv, Concluded, Ended
<1> QED BY <1>2, <1>3, <1>4 DEF DocInv

\* Every step keeps ending, artifacts and exit code in step with where the run is.
LEMMA DocStep ==
  ASSUME TypeInv, DocInv, [Next]_vars
  PROVE  DocInv'
<1> USE DEF DocInv, EndingInv, ArtifactInv, ExitInv, Concluded, Ended, Undecided, Decided,
            Recorded, Registered, Measured, Sealed, host
<1>r. run \in Run /\ bundle \in Bundle
  BY DEF TypeInv, TypeOK
<1>e. /\ runs \in WithEvent.events
      /\ WithEvent.stopped = bundle.stopped /\ WithEvent.runJson = bundle.runJson
      /\ WithEvent.metrics = bundle.metrics /\ WithEvent.manifest = bundle.manifest
  BY <1>r, SetArtifact DEF WithEvent
<1>1. ASSUME NEW kind \in Kinds, NEW impairment \in {"asked", "none"},
             Begin(kind, impairment)
      PROVE  DocInv'
  <2>1. run'.ending = "completed"
    BY <1>1 DEF Begin, NewRun
  <2> QED BY <1>1, <2>1 DEF Begin
<1>2. CASE Setup
  <2>1. CASE TakeLock \/ Prepare \/ ApplyNetem
    BY <2>1 DEF TakeLock, Prepare, ApplyNetem
  <2>2. CASE Configure \/ Describe \/ Announce
    BY <2>2 DEF Configure, Describe, Announce
  <2>3. CASE Connect \/ Start
    BY <2>3 DEF Connect, Start
  <2>4. CASE LockFails \/ SetupFails \/ StartFails \/ ConnectFails
    BY <1>r, <2>4, AbortStep DEF LockFails, SetupFails, StartFails, ConnectFails, Abort, Return
  <2> QED BY <1>2, <2>1, <2>2, <2>3, <2>4 DEF Setup
<1>3. CASE Stream
  <2>1. CASE Poll
    <3>1. CASE run' = run /\ (pc' = "stop" => run.done = Duration) /\ pc' \in {"stop", "pull"}
      BY <2>1, <3>1 DEF Poll
    <3>2. CASE run' = [run EXCEPT !.ending = "signal_interrupt"] /\ pc' = "stop"
      <4>1. run'.ending = "signal_interrupt"
        BY <1>r, <3>2 DEF Run
      <4> QED BY <2>1, <3>2, <4>1 DEF Poll
    <3> QED BY <2>1, <3>1, <3>2 DEF Poll
  <2>2. CASE Pull \/ Restart
    BY <2>2 DEF Pull, Restart
  <2>3. CASE Emit
    <3>1. run'.ending = run.ending /\ run'.used = run.used
      BY <1>r, <2>3 DEF Emit, Run
    <3> QED BY <2>3, <3>1 DEF Emit
  <2>4. CASE StreamFails \/ StopFails
    BY <1>r, <2>4, AbortStep DEF StreamFails, StopFails, StopAndAbort, Abort, Return
  <2>5. CASE LoseDevice
    <3>1. run'.ending = run.ending /\ run'.used = run.used
      BY <1>r, <2>5 DEF LoseDevice, Run
    <3> QED BY <2>5, <3>1 DEF LoseDevice
  <2>6. CASE RecordDisconnect
    BY <2>6 DEF RecordDisconnect
  <2>7. CASE Reconnect
    <3>1. run'.ending = run.ending
      BY <1>r, <2>7 DEF Reconnect, Run
    <3> QED BY <2>7, <3>1 DEF Reconnect
  <2>8. CASE GiveUpDevice
    <3>1. run'.ending = "device_disconnect" /\ run'.used = run.used
      BY <1>r, <2>8 DEF GiveUpDevice, Run
    <3> QED BY <2>8, <3>1 DEF GiveUpDevice
  <2>9. CASE Stop
    BY <2>9 DEF Stop
  <2>10. CASE RecordStop
    <3>1. bundle' = [WithEvent EXCEPT !.stopped = [run |-> runs, reason |-> run.ending]]
      BY <2>10 DEF RecordStop
    <3>2. WithEvent \in Bundle
      BY <2>10, EventInBundle DEF RecordStop, TypeInv
    <3>3. /\ runs \in bundle'.events
          /\ bundle'.stopped = [run |-> runs, reason |-> run.ending]
      BY <1>e, <3>1, <3>2, SetArtifact
    <3> QED BY <2>10, <3>3 DEF RecordStop
  <2> QED BY <1>3, <2>1, <2>2, <2>3, <2>4, <2>5, <2>6, <2>7, <2>8, <2>9, <2>10 DEF Stream
<1>4. CASE Finalize
  <2>1. CASE WriteRunJson
    <3>1. /\ bundle'.events = bundle.events /\ bundle'.stopped = bundle.stopped
          /\ bundle'.runJson = runs
      BY <1>r, <2>1, SetArtifact DEF WriteRunJson
    <3> QED BY <2>1, <3>1 DEF WriteRunJson
  <2>2. CASE WriteMetrics
    <3>1. /\ bundle'.events = bundle.events /\ bundle'.stopped = bundle.stopped
          /\ bundle'.runJson = bundle.runJson
          /\ bundle'.metrics = [run |-> runs, span |-> MetricsSpan]
      BY <1>r, <2>2, SetArtifact DEF WriteMetrics
    <3>2. MetricsSpan = run.done
      BY <2>2 DEF WriteMetrics, MetricsSpan
    <3> QED BY <2>2, <3>1, <3>2 DEF WriteMetrics
  <2>3. CASE WriteReports
    BY <1>e, <2>3 DEF WriteReports
  <2>4. CASE WriteManifest
    <3>1. /\ bundle'.events = bundle.events /\ bundle'.stopped = bundle.stopped
          /\ bundle'.runJson = bundle.runJson /\ bundle'.metrics = bundle.metrics
          /\ bundle'.manifest = runs
      BY <1>r, <2>4, SetArtifact DEF WriteManifest
    <3> QED BY <2>4, <3>1 DEF WriteManifest
  <2>5. CASE FinalizeFails
    BY <1>r, <2>5, AbortStep DEF FinalizeFails, Abort, Return
  <2>6. CASE Conclude
    BY <2>6 DEF Conclude, Verdicts, Return, Documented
  <2> QED BY <1>4, <2>1, <2>2, <2>3, <2>4, <2>5, <2>6 DEF Finalize
<1>5. CASE Teardown
  BY <1>5 DEF Teardown, DestroyGuard, DestroyBackend, DestroyLock, Documented
<1>6. CASE RaiseSignal
  BY <1>6 DEF RaiseSignal, Handled
<1>7. CASE Kill
  BY <1>7 DEF Kill
<1>8. CASE UNCHANGED vars
  BY <1>8 DEF vars, Documented
<1> QED BY <1>1, <1>2, <1>3, <1>4, <1>5, <1>6, <1>7, <1>8 DEF Next, Step

\* Ending, artifacts and exit code agree in every reachable state.
THEOREM LifecycleDocuments == Spec => []DocInv
<1>1. Init => DocInv
  BY DEF Init, NewRun, DocInv, EndingInv, ArtifactInv, ExitInv, Concluded, Ended,
         Undecided, Decided, Recorded, Registered, Measured, Sealed
<1>2. DocInv /\ TypeInv /\ [Next]_vars => DocInv'
  BY DocStep
<1> QED BY <1>1, <1>2, LifecycleTypes, PTL DEF Spec

\* Exit code 0, and the code of failed thresholds, are given only to runs that
\* collected the whole duration and left a complete bundle of their own, even in
\* a directory that holds an earlier run's.
THEOREM LifecycleExitTellsTruth == Spec => []ExitTellsTruth
<1>1. DocInv => ExitTellsTruth
  BY DEF DocInv, ExitInv, Concluded, Ended, ExitTellsTruth
<1> QED BY <1>1, LifecycleDocuments, PTL

\* A run that is interrupted, or that gives its device up after every attempt, still
\* ends with a complete bundle that says so, unless a write or a camera call failed,
\* too.
THEOREM LifecyclePartialRunDocumented == Spec => []PartialRunDocumented
<1>1. DocInv => PartialRunDocumented
  <2>1. SUFFICES ASSUME DocInv, pc = "idle", exit # "killed",
                        run.ending # "completed", run.health = "good"
                 PROVE  /\ exit = "failure" /\ Documented
                        /\ run.ending = "device_disconnect" => run.used = RetryLimit
    BY DEF PartialRunDocumented
  <2>2. exit # "none"
    BY <2>1 DEF DocInv, ExitInv
  <2> QED BY <2>1, <2>2 DEF DocInv, EndingInv, ExitInv, Concluded, Ended
<1> QED BY <1>1, LifecycleDocuments, PTL
=============================================================================
