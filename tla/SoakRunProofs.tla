--------------------------- MODULE SoakRunProofs ---------------------------
(***************************************************************************)
(* What SoakRun guarantees for every duration, interval, frame rate and    *)
(* number of faults: the types and the order of publication first, then    *)
(* what a bundle keeps through any number of deaths, failed writes and     *)
(* resumptions.                                                            *)
(*                                                                         *)
(*   DurableInv  needs SafeStorage only: resuming from any checkpoint file *)
(*               and publishing by remove+rename are covered               *)
(*   SealInv     also needs a rename that overwrites, and operators who    *)
(*               resume from soak_checkpoint.json                          *)
(*   PausedInv   needs SafeStorage                                         *)
(*   RateInv     needs operators who resume from soak_checkpoint.json, and *)
(*               speaks of runs without faults                             *)
(*   SurvivalInv needs nothing, and speaks of runs with one fault          *)
(***************************************************************************)
EXTENDS SoakRun, TLAPS

USE SoakAssumption DEF SoakAssumption

-----------------------------------------------------------------------------
(***************************************************************************)
(* Types                                                                   *)
(***************************************************************************)

\* A chunk in hand never reaches past the duration of the run.
SpanFits == pc \in {"emit", "cache"} => ctx.completed + ctx.span <= Duration

TypeInv == TypeOK /\ SpanFits

\* What a publish can leave in a checkpoint file is a checkpoint.
LEMMA SnapshotType ==
  ASSUME TypeOK, NEW s \in {"running", "paused", "completed"}
  PROVE  Snapshot(s) \in Checkpoint /\ Corrupt(ctx.index) \in Checkpoint
  BY DEF TypeOK, Snapshot, Corrupt, Checkpoint, Status, Context

\* An append keeps the cache well typed.
LEMMA WrittenType ==
  ASSUME TypeOK, NEW n \in Nat, NEW f \in {"none", "part", "whole"}, Written(n, f)
  PROVE  /\ lines' \in Nat
         /\ tail' \in {"absent", "clean", "unterminated", "broken"}
  BY DEF TypeOK, Written, Ending

\* So does an append that stops before its last line.
LEMMA ShortenedType ==
  ASSUME TypeOK, Shortened
  PROVE  /\ lines' \in Nat
         /\ tail' \in {"absent", "clean", "unterminated", "broken"}
<1>1. PICK n \in 0 .. ctx.batch - 1, f \in {"none"} \cup FragmentKinds : Written(n, f)
  BY DEF Shortened
<1>2. n \in Nat /\ f \in {"none", "part", "whole"}
  BY DEF TypeOK
<1> QED
  BY <1>1, <1>2, WrittenType

\* Counting a chunk in hand does not pass the duration.
LEMMA AdvancedType ==
  ASSUME TypeInv, pc = "cache"
  PROVE  Advanced \in Context
  BY DEF TypeInv, TypeOK, SpanFits, Context, Advanced

\* A process that leaves takes its context with it.
LEMMA LeaveType ==
  ASSUME NEW how \in {"paused", "completed", "failed", "killed"}, Leave(how)
  PROVE  /\ pc' = "idle"
         /\ ctx' \in Context
         /\ signal' \in BOOLEAN
         /\ outcome' \in {"none", "running", "paused", "completed", "failed", "killed"}
<1>1. signal' \in BOOLEAN
  BY Zenon DEF Leave
<1> QED
  BY <1>1 DEF Leave, NoRun, Context

\* So does one that dies, and its fault is within the bound.
LEMMA DieType ==
  ASSUME TypeOK, NEW how \in {"failed", "killed"}, Die(how)
  PROVE  /\ pc' = "idle"
         /\ ctx' \in Context
         /\ signal' \in BOOLEAN
         /\ outcome' \in {"none", "running", "paused", "completed", "failed", "killed"}
         /\ faults' \in 0 .. MaxFaults
  BY LeaveType DEF TypeOK, Die

\* Publishing soak_checkpoint.json keeps the types.
LEMMA PublishLatestType ==
  ASSUME TypeInv, NEW s \in {"running", "paused", "completed"},
         NEW a, NEW b \in {"publishHistory", "pauseHistory", "finalHistory"},
         PublishLatest(s, a, b)
  PROVE  TypeInv'
<1>1. latest' \in Checkpoint /\ faults' \in 0 .. MaxFaults
  BY SnapshotType DEF TypeInv, TypeOK, PublishLatest, Published
<1> QED
  BY <1>1 DEF TypeInv, TypeOK, SpanFits, PublishLatest, Stages, Streaming

\* Publishing a history file keeps the types.
LEMMA PublishHistoryType ==
  ASSUME TypeInv, NEW s \in {"running", "paused", "completed"},
         NEW a, NEW b \in {"boundary", "pauseStop", "stop"},
         PublishHistory(s, a, b)
  PROVE  TypeInv'
<1>1. history' \subseteq Checkpoint /\ faults' \in 0 .. MaxFaults
  BY SnapshotType
  DEF TypeInv, TypeOK, PublishHistory, Published, HistoryWith, HistoryAt
<1> QED
  BY <1>1 DEF TypeInv, TypeOK, SpanFits, PublishHistory, Stages, Streaming

\* The type invariant holds at the start.
LEMMA TypeInit == Init => TypeInv
<1> SUFFICES ASSUME Init PROVE TypeInv
  OBVIOUS
<1>1. signal \in BOOLEAN /\ stopFile \in BOOLEAN
  BY Zenon DEF Init
<1>2. metrics \in [written : BOOLEAN, frames : Nat]
  BY DEF Init, NotWritten
<1>3. Absent \in Checkpoint
  BY DEF Absent, Checkpoint, Status
<1> QED
  BY <1>1, <1>2, <1>3
  DEF Init, TypeInv, TypeOK, SpanFits, NoRun, Context, NoManifest, Stages, Streaming

\* Every step of a live process keeps it.
LEMMA StepType ==
  ASSUME TypeInv, Step
  PROVE  TypeInv'
<1> USE DEF TypeInv, TypeOK, SpanFits, Stages, Streaming
<1>1. CASE StartStream
  <2>1. signal' \in BOOLEAN
    BY <1>1, Zenon DEF StartStream
  <2> QED
    BY <1>1, <2>1 DEF StartStream
<1>2. CASE PullChunk
  <2>1. PICK k \in 0 .. Rate * ChunkSpan :
           ctx' = [ctx EXCEPT !.span = ChunkSpan, !.batch = k]
    BY <1>2 DEF PullChunk
  <2>2. ctx' = [completed |-> ctx.completed, interval |-> ctx.interval,
                index |-> ctx.index, frames |-> ctx.frames,
                span |-> ChunkSpan, batch |-> k]
    BY <2>1, Zenon DEF Context
  <2>3. ChunkSpan \in 0 .. Duration /\ ctx.completed + ChunkSpan <= Duration
    BY DEF ChunkSpan, Remaining, Context
  <2>4. Rate * ChunkSpan \in Nat
    BY <2>3
  <2>5. k \in Nat
    BY <2>4
  <2> QED
    BY <1>2, <2>2, <2>3, <2>5 DEF PullChunk, Context
<1>3. CASE EmitFrameEvents
  BY <1>3 DEF EmitFrameEvents, FrameEvents, Context
<1>16. CASE EmitLostOnClose
  BY <1>16 DEF EmitLostOnClose, Context
<1>4. CASE AppendFrameCache
  <2>1. ctx' \in Context
    BY <1>4, AdvancedType DEF AppendFrameCache
  <2>2. lines' \in Nat /\ tail' \in {"absent", "clean", "unterminated", "broken"}
    BY <1>4, WrittenType DEF AppendFrameCache, Context
  <2> QED
    BY <1>4, <2>1, <2>2 DEF AppendFrameCache
<1>5. CASE AppendLostOnClose
  <2>1. ctx' \in Context
    BY <1>5, AdvancedType DEF AppendLostOnClose
  <2> QED
    BY <1>5, <2>1, ShortenedType DEF AppendLostOnClose
<1>6. CASE CheckpointLatest \/ PauseLatest \/ FinalLatest
  BY <1>6, PublishLatestType DEF CheckpointLatest, PauseLatest, FinalLatest
<1>7. CASE CheckpointHistory \/ PauseHistory \/ FinalHistory
  BY <1>7, PublishHistoryType DEF CheckpointHistory, PauseHistory, FinalHistory
<1>8. CASE RemoveLatest
  BY <1>8 DEF RemoveLatest, RenameFails, Absent, Checkpoint, Status
<1>9. CASE RemoveHistory
  BY <1>9 DEF RemoveHistory, RenameFails
<1>10. CASE Boundary
  BY <1>10 DEF Boundary, Context
<1>11. CASE PauseStop
  BY <1>11 DEF PauseStop
<1>12. CASE PauseManifest \/ PauseManifestRefused
  BY <1>12, LeaveType DEF PauseManifest, PauseManifestRefused, Artifacts
<1>13. CASE StopStream
  <2>1. signal' \in BOOLEAN
    BY <1>13, Zenon DEF StopStream
  <2> QED
    BY <1>13, <2>1 DEF StopStream
<1>14. CASE WriteMetrics
  BY <1>14 DEF WriteMetrics, Context
<1>15. CASE WriteManifest
  BY <1>15, LeaveType DEF WriteManifest, Artifacts
<1> QED
  BY <1>1, <1>2, <1>3, <1>4, <1>5, <1>6, <1>7, <1>8, <1>9, <1>10, <1>11, <1>12,
     <1>13, <1>14, <1>15, <1>16 DEF Step

\* Every step of the program and of its environment keeps it.
LEMMA TypeStep == TypeInv /\ [Next]_vars => TypeInv'
<1> SUFFICES ASSUME TypeInv, [Next]_vars PROVE TypeInv'
  OBVIOUS
<1> USE DEF TypeInv, TypeOK, SpanFits, Stages, Streaming
<1>1. CASE Begin
  BY <1>1 DEF Begin, NoRun, Context
<1>2. CASE Resume
  <2>1. PICK c \in ResumeSources, i \in Intervals :
           ctx' = [ResumedFrom(c) EXCEPT !.interval = i]
    BY <1>2 DEF Resume
  <2>2. c \in Checkpoint
    BY <2>1 DEF ResumeSources
  <2>3. ctx' = [completed |-> c.completed, interval |-> i, index |-> c.index,
                frames |-> Reloaded, span |-> 0, batch |-> 0]
    BY <2>1, Zenon DEF ResumedFrom, NoRun
  <2>4. ctx' \in Context
    BY <2>2, <2>3 DEF Checkpoint, Context, Reloaded
  <2> QED
    BY <1>2, <2>4 DEF Resume
<1>3. CASE Step
  BY <1>3, StepType
<1>4. CASE Faults
  <2>1. PICK how \in {"failed", "killed"} :
           \/ DieBetweenWrites(how) \/ EmitCutShort(how) \/ AppendCutShort(how)
           \/ PublishRefused
    BY <1>4 DEF Faults
  <2>2. CASE DieBetweenWrites(how)
    BY <2>2, DieType DEF DieBetweenWrites
  <2>3. CASE EmitCutShort(how)
    BY <2>3, DieType DEF EmitCutShort
  <2>4. CASE AppendCutShort(how)
    BY <2>4, DieType, ShortenedType DEF AppendCutShort
  <2>5. CASE PublishRefused
    BY <2>5, DieType DEF PublishRefused, Absent, Checkpoint, Status
  <2> QED
    BY <2>1, <2>2, <2>3, <2>4, <2>5
<1>5. CASE RaiseSignal
  BY <1>5 DEF RaiseSignal
<1>6. CASE ToggleStopFile
  BY <1>6 DEF ToggleStopFile
<1>7. CASE UNCHANGED vars
  BY <1>7 DEF vars
<1> QED
  BY <1>1, <1>2, <1>3, <1>4, <1>5, <1>6, <1>7 DEF Next

\* Every reachable state is well typed, and no chunk runs past the duration.
THEOREM TypeCorrect == Spec => []TypeOK
<1>1. Spec => []TypeInv
  BY TypeInit, TypeStep, PTL DEF Spec
<1> QED
  BY <1>1, PTL DEF TypeInv

-----------------------------------------------------------------------------
(***************************************************************************)
(* The event log covers the frame cache                                    *)
(***************************************************************************)

\* While a chunk waits to be cached, its events are already in the log.
CoverInv ==
  /\ lines <= events
  /\ pc = "cache" => lines + ctx.batch <= events

\* An append adds at most one readable frame per line it tries to write.
LEMMA WrittenBound ==
  ASSUME TypeOK, NEW n \in Nat, NEW f \in {"none", "part", "whole"}, Written(n, f)
  PROVE  /\ f = "whole" => lines' <= lines + n + 1
         /\ f # "whole" => lines' <= lines + n
  BY DEF TypeOK, Written, Ending

\* An append cut short adds no more frames than the chunk has.
LEMMA ShortenedBound ==
  ASSUME TypeOK, Shortened
  PROVE  lines' <= lines + ctx.batch
<1>1. PICK n \in 0 .. ctx.batch - 1, f \in {"none"} \cup FragmentKinds : Written(n, f)
  BY DEF Shortened
<1>2. /\ n \in Nat /\ n + 1 <= ctx.batch /\ lines \in Nat /\ ctx.batch \in Nat
      /\ f \in {"none", "part", "whole"}
  BY DEF TypeOK, Context
<1>3. lines' \in Nat
  BY <1>1, <1>2, WrittenType
<1> QED
  BY <1>1, <1>2, <1>3, WrittenBound

\* The events stay ahead of the cache, a chunk on its way included.
LEMMA CoverStep ==
  ASSUME ~SilentLoss
  PROVE  TypeInv /\ CoverInv /\ [Next]_vars => CoverInv'
<1> SUFFICES ASSUME TypeInv, CoverInv, [Next]_vars PROVE CoverInv'
  OBVIOUS
<1>0. /\ TypeOK
      /\ lines \in Nat /\ events \in Nat /\ ctx.batch \in Nat
  BY DEF TypeInv, TypeOK, Context
<1>1. TypeInv'
  BY TypeStep
<1>2. lines' \in Nat /\ events' \in Nat
  BY <1>1 DEF TypeInv, TypeOK
<1> USE DEF CoverInv
<1>3. CASE Begin \/ Resume
  BY <1>3, <1>0 DEF Begin, Resume
<1>4. CASE EmitFrameEvents
  <2>1. ctx'.batch = ctx.batch
    BY <1>4, <1>0 DEF EmitFrameEvents, TypeOK, Context
  <2> QED
    BY <1>4, <1>0, <2>1 DEF EmitFrameEvents, FrameEvents
<1>5. CASE AppendFrameCache
  <2>1. lines' <= lines + ctx.batch
    BY <1>5, <1>0, WrittenBound DEF AppendFrameCache
  <2> QED
    BY <1>5, <1>0, <1>2, <2>1 DEF AppendFrameCache
<1>6. CASE EmitLostOnClose \/ AppendLostOnClose
  BY <1>6 DEF EmitLostOnClose, AppendLostOnClose
<1>7. CASE StartStream \/ PullChunk \/ Boundary \/ StopStream \/ WriteMetrics
  BY <1>7, <1>0 DEF StartStream, PullChunk, Boundary, StopStream, WriteMetrics
<1>8. CASE CheckpointLatest \/ PauseLatest \/ FinalLatest
  BY <1>8, <1>0 DEF CheckpointLatest, PauseLatest, FinalLatest, PublishLatest
<1>9. CASE CheckpointHistory \/ PauseHistory \/ FinalHistory
  BY <1>9, <1>0 DEF CheckpointHistory, PauseHistory, FinalHistory, PublishHistory
<1>10. CASE RemoveLatest \/ RemoveHistory
  BY <1>10, <1>0 DEF RemoveLatest, RemoveHistory
<1>11. CASE PauseStop \/ PauseManifest \/ PauseManifestRefused \/ WriteManifest
  BY <1>11, <1>0 DEF PauseStop, PauseManifest, PauseManifestRefused, WriteManifest, Leave
<1>12. CASE Faults
  <2>1. PICK how \in {"failed", "killed"} :
           \/ DieBetweenWrites(how) \/ EmitCutShort(how) \/ AppendCutShort(how)
           \/ PublishRefused
    BY <1>12 DEF Faults
  <2>2. CASE DieBetweenWrites(how)
    BY <2>2, <1>0 DEF DieBetweenWrites, Die, Leave
  <2>3. CASE EmitCutShort(how)
    BY <2>3, <1>0, <1>2 DEF EmitCutShort, Die, Leave
  <2>4. CASE AppendCutShort(how)
    BY <2>4, <1>0, <1>2, ShortenedBound DEF AppendCutShort, Die, Leave
  <2>5. CASE PublishRefused
    BY <2>5, <1>0 DEF PublishRefused, Die, Leave
  <2> QED
    BY <2>1, <2>2, <2>3, <2>4, <2>5
<1>13. CASE RaiseSignal \/ ToggleStopFile \/ UNCHANGED vars
  BY <1>13, <1>0 DEF RaiseSignal, ToggleStopFile, vars
<1> QED
  BY <1>3, <1>4, <1>5, <1>6, <1>7, <1>8, <1>9, <1>10, <1>11, <1>12, <1>13
  DEF Next, Step

\* On storage that keeps what was written, no frame is ever counted from the
\* cache that the event log does not show, however cache lines are cut short,
\* files are published and runs are resumed.
THEOREM EventsAlwaysCoverCache ==
  ASSUME ~SilentLoss
  PROVE  Spec => []EventsCoverCache
<1>1. Init => CoverInv
  BY DEF Init, CoverInv
<1>2. Spec => []TypeInv
  BY TypeInit, TypeStep, PTL DEF Spec
<1>3. TypeInv /\ CoverInv /\ [Next]_vars => CoverInv'
  BY CoverStep
<1>4. CoverInv => EventsCoverCache
  BY DEF CoverInv, EventsCoverCache
<1> QED
  BY <1>1, <1>2, <1>3, <1>4, PTL DEF Spec

-----------------------------------------------------------------------------
Reliable == SafeStorage /\ RenameOverwrites /\ ~ResumeFromHistory

-----------------------------------------------------------------------------
(***************************************************************************)
(* Captured evidence is durable                                            *)
(***************************************************************************)

\* Nothing is on disk before the first process.
Fresh ==
  outcome = "none" => pc = "idle" /\ lines = 0 /\ tail = "absent" /\ latest = Absent

\* Only a process that died or failed leaves the frame cache inside a line.
CacheTail ==
  /\ tail # "unterminated"
  /\ tail = "broken" => pc = "idle" /\ outcome \in {"failed", "killed"}

\* A process holds in memory the frames of the cache, and those of its chunk.
FramesInHand ==
  /\ pc \notin {"idle", "cache"} => ctx.frames = lines
  /\ pc = "cache" => ctx.frames = lines + ctx.batch

\* Every frame a checkpoint claims is a whole line of the cache.
Covered == \A c \in history \cup {latest} : c.frames <= lines

DurableInv == Fresh /\ CacheTail /\ FramesInHand /\ Covered

\* What is covered is taken over: a cache that loads gives back all its lines.
LEMMA DurableSuffices == DurableInv => EvidenceDurable
  BY DEF DurableInv, CacheTail, Covered, EvidenceDurable, CanResume, CacheLoads,
         ResumedFrom, Reloaded, NoRun

\* An append to a cache that ends with its line adds exactly its lines.
LEMMA WrittenWhole ==
  ASSUME TypeOK, tail \notin {"unterminated", "broken"},
         NEW n \in Nat, NEW f \in {"none", "part"}, Written(n, f)
  PROVE  /\ lines' = lines + n
         /\ f = "none" => tail' = "clean"
         /\ f = "part" => tail' = "broken"
  BY DEF TypeOK, Written, Ending

\* An append cut short leaves every line it found readable.
LEMMA ShortenedWhole ==
  ASSUME TypeOK, SafeStorage, tail \notin {"unterminated", "broken"}, Shortened
  PROVE  lines <= lines' /\ tail' \in {"clean", "broken"}
<1>1. PICK n \in 0 .. ctx.batch - 1, f \in {"none"} \cup FragmentKinds : Written(n, f)
  BY DEF Shortened
<1>2. n \in Nat /\ lines \in Nat
  BY DEF TypeOK, Context
<1>3. f \in {"none", "part"}
  BY DEF SafeStorage
<1> QED
  BY <1>1, <1>2, <1>3, WrittenWhole

\* The durability invariant holds at the start.
LEMMA DurableInit == Init => DurableInv
  BY DEF Init, DurableInv, Fresh, CacheTail, FramesInHand, Covered, Absent

\* A published soak_checkpoint.json claims the frames in hand.
LEMMA DurablePublishLatest ==
  ASSUME SafeStorage, TypeInv, DurableInv, NEW s, NEW a, NEW b,
         a \notin {"idle", "cache"}, b \notin {"idle", "cache"}, PublishLatest(s, a, b)
  PROVE  DurableInv'
<1> USE DEF DurableInv, Fresh, CacheTail, FramesInHand, Covered
<1>1. latest'.frames = ctx.frames
  BY DEF PublishLatest, Published, Snapshot, SafeStorage
<1>2. ctx.frames = lines /\ lines \in Nat /\ pc # "idle"
  BY DEF PublishLatest, TypeInv, TypeOK
<1> QED
  BY <1>1, <1>2 DEF PublishLatest

\* So does a published history file.
LEMMA DurablePublishHistory ==
  ASSUME SafeStorage, TypeInv, DurableInv, NEW s, NEW a, NEW b,
         a \notin {"idle", "cache"}, b \notin {"idle", "cache"}, PublishHistory(s, a, b)
  PROVE  DurableInv'
<1> USE DEF DurableInv, Fresh, CacheTail, FramesInHand, Covered
<1>1. history' \subseteq history \cup {Snapshot(s)}
  BY DEF PublishHistory, Published, HistoryWith, SafeStorage
<1>2. ctx.frames = lines /\ lines \in Nat /\ pc # "idle"
  BY DEF PublishHistory, TypeInv, TypeOK
<1>3. Snapshot(s).frames = lines
  BY <1>2 DEF Snapshot
<1> QED
  BY <1>1, <1>2, <1>3 DEF PublishHistory

\* A death leaves the cache no shorter and no less readable than its steps did.
LEMMA DurableFaults ==
  ASSUME SafeStorage, TypeInv, DurableInv, Faults
  PROVE  DurableInv'
<1> USE DEF DurableInv, Fresh, CacheTail, FramesInHand, Covered, Die, Leave
<1>1. PICK how \in {"failed", "killed"} :
         \/ DieBetweenWrites(how) \/ EmitCutShort(how) \/ AppendCutShort(how)
         \/ PublishRefused
  BY DEF Faults
<1>2. outcome' \in {"failed", "killed"} /\ pc' = "idle" /\ pc # "idle"
  BY <1>1 DEF DieBetweenWrites, EmitCutShort, AppendCutShort, PublishRefused
<1>3. CASE DieBetweenWrites(how) \/ EmitCutShort(how)
  BY <1>2, <1>3 DEF DieBetweenWrites, EmitCutShort
<1>4. CASE AppendCutShort(how)
  <2>1. lines <= lines' /\ tail' \in {"clean", "broken"}
    BY <1>2, <1>4, ShortenedWhole DEF AppendCutShort, TypeInv
  <2>2. \A c \in history \cup {latest} : c.frames \in Nat
    BY DEF TypeInv, TypeOK, Checkpoint
  <2>3. lines \in Nat /\ lines' \in Nat
    BY <1>4, ShortenedType DEF AppendCutShort, TypeInv, TypeOK
  <2>4. \A c \in history \cup {latest} : c.frames <= lines'
    BY <2>1, <2>2, <2>3
  <2> QED
    BY <1>2, <1>4, <2>1, <2>4 DEF AppendCutShort
<1>5. CASE PublishRefused
  <2>1. lines \in Nat
    BY DEF TypeInv, TypeOK
  <2> QED
    BY <1>2, <1>5, <2>1 DEF PublishRefused, Absent
<1> QED
  BY <1>1, <1>3, <1>4, <1>5

\* Every step keeps every checkpoint covered by the cache.
LEMMA DurableStep ==
  ASSUME SafeStorage
  PROVE  TypeInv /\ DurableInv /\ [Next]_vars => DurableInv'
<1> SUFFICES ASSUME TypeInv, DurableInv, [Next]_vars PROVE DurableInv'
  OBVIOUS
<1>0. /\ TypeOK
      /\ lines \in Nat /\ ctx.batch \in Nat /\ ctx.frames \in Nat
      /\ ctx \in Context
      /\ \A c \in history \cup {latest} : c.frames \in Nat
  BY DEF TypeInv, TypeOK, Context, Checkpoint
<1> USE DEF DurableInv, Fresh, CacheTail, FramesInHand, Covered
<1>1. CASE Begin
  BY <1>1 DEF Begin, NoRun
<1>2. CASE Resume
  BY <1>2 DEF Resume, CanResume, CacheLoads, ResumedFrom, Reloaded, NoRun
<1>3. CASE StartStream
  BY <1>3 DEF StartStream
<1>4. CASE PullChunk
  <2>1. ctx'.frames = ctx.frames
    BY <1>4, <1>0 DEF PullChunk, Context
  <2> QED
    BY <1>4, <2>1 DEF PullChunk
<1>5. CASE EmitFrameEvents
  <2>1. ctx'.frames = ctx.frames + ctx.batch /\ ctx'.batch = ctx.batch
    BY <1>5, <1>0 DEF EmitFrameEvents, Context
  <2> QED
    BY <1>5, <2>1 DEF EmitFrameEvents
<1>6. CASE AppendFrameCache
  <2>1. lines' = lines + ctx.batch /\ tail' \in {tail, "clean"}
    <3>1. CASE ctx.batch = 0
      BY <1>6, <3>1, <1>0 DEF AppendFrameCache
    <3>2. CASE ctx.batch # 0
      BY <1>6, <3>2, <1>0, WrittenWhole DEF AppendFrameCache
    <3> QED
      BY <3>1, <3>2
  <2>2. ctx'.frames = ctx.frames
    BY <1>6 DEF AppendFrameCache, Advanced
  <2>3. \A c \in history \cup {latest} : c.frames <= lines'
    BY <1>0, <2>1
  <2> QED
    BY <1>6, <2>1, <2>2, <2>3 DEF AppendFrameCache
<1>7. CASE EmitLostOnClose \/ AppendLostOnClose
  BY <1>7 DEF EmitLostOnClose, AppendLostOnClose, SafeStorage
<1>8. CASE CheckpointLatest \/ PauseLatest \/ FinalLatest
  BY <1>8, DurablePublishLatest DEF CheckpointLatest, PauseLatest, FinalLatest
<1>9. CASE CheckpointHistory \/ PauseHistory \/ FinalHistory
  BY <1>9, DurablePublishHistory DEF CheckpointHistory, PauseHistory, FinalHistory
<1>10. CASE RemoveLatest
  BY <1>10, <1>0 DEF RemoveLatest, Absent
<1>11. CASE RemoveHistory
  BY <1>11 DEF RemoveHistory
<1>12. CASE Boundary
  <2>1. ctx'.frames = ctx.frames
    BY <1>12, <1>0 DEF Boundary, Context
  <2> QED
    BY <1>12, <2>1 DEF Boundary
<1>13. CASE PauseStop \/ StopStream \/ WriteMetrics
  BY <1>13 DEF PauseStop, StopStream, WriteMetrics
<1>14. CASE PauseManifest \/ PauseManifestRefused \/ WriteManifest
  BY <1>14 DEF PauseManifest, PauseManifestRefused, WriteManifest, Leave
<1>15. CASE Faults
  BY <1>15, DurableFaults
<1>16. CASE RaiseSignal \/ ToggleStopFile \/ UNCHANGED vars
  BY <1>16 DEF RaiseSignal, ToggleStopFile, vars
<1> QED
  BY <1>1, <1>2, <1>3, <1>4, <1>5, <1>6, <1>7, <1>8, <1>9, <1>10, <1>11, <1>12,
     <1>13, <1>14, <1>15, <1>16 DEF Next, Step

\* On storage that keeps what was written, every frame a checkpoint file claims is
\* a whole line of the frame cache, and only a death or a failure inside an append
\* makes the cache unreadable: from whichever file the run is resumed, --resume
\* takes over every frame claimed, or is refused.
THEOREM EvidenceIsDurable ==
  ASSUME SafeStorage
  PROVE  Spec => []EvidenceDurable
<1>1. Spec => []TypeInv
  BY TypeInit, TypeStep, PTL DEF Spec
<1>2. TypeInv /\ DurableInv /\ [Next]_vars => DurableInv'
  BY DurableStep
<1> QED
  BY DurableInit, DurableSuffices, <1>1, <1>2, PTL DEF Spec

-----------------------------------------------------------------------------
(***************************************************************************)
(* Progress, and the seal over a finished run                              *)
(***************************************************************************)

\* The newest checkpoint is never ahead of the process; the last one is written
\* when the duration is reached.
Progress ==
  /\ pc # "idle" => latest.completed <= ctx.completed
  /\ pc \in {"finalLatest", "finalHistory"} => ctx.completed = Duration

\* Between the completed checkpoint and the end of the process there are only
\* the steps that close the bundle, and nothing resumes it afterwards.
Closing == {"finalHistory", "stop", "metrics", "manifest"}

Completion ==
  /\ pc \in Closing => latest.status = "completed"
  /\ latest.status = "completed" => pc \in Closing \cup {"idle"} /\ latest.completed = Duration

Sealed ==
  metrics.written => /\ latest.status = "completed"
                     /\ pc \in {"manifest", "idle"}
                     /\ metrics.frames = lines

SealInv == Progress /\ Completion /\ Sealed

\* The seal invariant holds at the start.
LEMMA SealInit == Init => SealInv
  BY DEF Init, SealInv, Progress, Completion, Sealed, Closing, Absent, NotWritten

\* The three publishes of soak_checkpoint.json keep the seal invariant.
LEMMA SealPublishLatest ==
  ASSUME Reliable, TypeInv, SealInv,
         \/ CheckpointLatest \/ PauseLatest \/ FinalLatest
  PROVE  SealInv'
<1> USE DEF SealInv, Progress, Completion, Sealed, Closing
<1>1. PICK s \in {"running", "paused", "completed"} :
         /\ latest' = Snapshot(s)
         /\ s = "completed" <=> pc = "finalLatest"
         /\ pc \in {"publishLatest", "pauseLatest", "finalLatest"}
  BY DEF CheckpointLatest, PauseLatest, FinalLatest, PublishLatest, Published,
         Reliable, SafeStorage
<1>2. latest'.completed = ctx.completed /\ latest'.status = s
  BY <1>1 DEF Snapshot
<1>3. ctx' = ctx /\ metrics' = metrics /\ lines' = lines
  BY DEF CheckpointLatest, PauseLatest, FinalLatest, PublishLatest
<1>4. pc' = CASE pc = "publishLatest" -> "publishHistory"
              [] pc = "pauseLatest" -> "pauseHistory"
              [] pc = "finalLatest" -> "finalHistory"
  BY DEF CheckpointLatest, PauseLatest, FinalLatest, PublishLatest
<1>5. ctx.completed \in Nat
  BY DEF TypeInv, TypeOK, Context
<1>6. ~metrics.written
  BY <1>1
<1> QED
  BY <1>1, <1>2, <1>3, <1>4, <1>5, <1>6

\* So does every other step.
LEMMA SealStep ==
  ASSUME Reliable
  PROVE  TypeInv /\ DurableInv /\ SealInv /\ [Next]_vars => SealInv'
<1> SUFFICES ASSUME TypeInv, DurableInv, SealInv, [Next]_vars PROVE SealInv'
  OBVIOUS
<1>0. /\ TypeOK
      /\ ctx \in Context /\ ctx.completed \in Nat /\ ctx.span \in Nat
      /\ latest \in Checkpoint /\ latest.completed \in 0 .. Duration
  BY DEF TypeInv, TypeOK, Context, Checkpoint
<1> USE DEF SealInv, Progress, Completion, Sealed, Closing
<1>1. CASE Begin
  BY <1>1, <1>0 DEF Begin, NoRun, DurableInv, Fresh, Absent
<1>2. CASE Resume
  <2>1. CanResume(latest) /\ ctx'.completed = latest.completed
    BY <1>2 DEF Resume, ResumeSources, ResumedFrom, NoRun, Reliable
  <2>2. latest.status # "completed"
    BY <2>1 DEF CanResume
  <2> QED
    BY <1>2, <1>0, <2>1, <2>2 DEF Resume
<1>3. CASE StartStream
  BY <1>3 DEF StartStream
<1>4. CASE PullChunk
  <2>1. ctx'.completed = ctx.completed
    BY <1>4, <1>0 DEF PullChunk, Context
  <2> QED
    BY <1>4, <2>1 DEF PullChunk
<1>5. CASE EmitFrameEvents
  <2>1. ctx'.completed = ctx.completed
    BY <1>5, <1>0 DEF EmitFrameEvents, Context
  <2> QED
    BY <1>5, <2>1 DEF EmitFrameEvents
<1>6. CASE AppendFrameCache
  <2>1. latest.completed <= ctx'.completed
    BY <1>6, <1>0 DEF AppendFrameCache, Advanced
  <2> QED
    BY <1>6, <2>1 DEF AppendFrameCache
<1>7. CASE EmitLostOnClose \/ AppendLostOnClose
  BY <1>7 DEF EmitLostOnClose, AppendLostOnClose, Reliable, SafeStorage
<1>8. CASE CheckpointLatest \/ PauseLatest \/ FinalLatest
  BY <1>8, SealPublishLatest
<1>9. CASE CheckpointHistory \/ PauseHistory \/ FinalHistory
  BY <1>9 DEF CheckpointHistory, PauseHistory, FinalHistory, PublishHistory
<1>10. CASE RemoveLatest \/ RemoveHistory
  BY <1>10, <1>0 DEF RemoveLatest, RemoveHistory, Absent
<1>12. CASE Boundary
  <2>1. ctx'.completed = ctx.completed
    BY <1>12, <1>0 DEF Boundary, Context
  <2>2. pc' = "finalLatest" => ctx.completed = Duration
    BY <1>12, <1>0 DEF Boundary, Remaining
  <2> QED
    BY <1>12, <2>1, <2>2 DEF Boundary
<1>13. CASE PauseStop \/ StopStream
  BY <1>13 DEF PauseStop, StopStream
<1>14. CASE WriteMetrics
  BY <1>14 DEF WriteMetrics, DurableInv, FramesInHand
<1>15. CASE PauseManifest \/ PauseManifestRefused \/ WriteManifest
  BY <1>15 DEF PauseManifest, PauseManifestRefused, WriteManifest, Leave
<1>16. CASE Faults
  <2>1. PICK how \in {"failed", "killed"} :
           \/ DieBetweenWrites(how) \/ EmitCutShort(how) \/ AppendCutShort(how)
           \/ PublishRefused
    BY <1>16 DEF Faults
  <2>2. CASE DieBetweenWrites(how) \/ EmitCutShort(how)
    BY <2>2 DEF DieBetweenWrites, EmitCutShort, Die, Leave
  <2>3. CASE AppendCutShort(how)
    BY <2>3 DEF AppendCutShort, Die, Leave
  <2>4. CASE PublishRefused
    BY <2>4 DEF PublishRefused, Die, Leave, Absent
  <2> QED
    BY <2>1, <2>2, <2>3, <2>4
<1>17. CASE RaiseSignal \/ ToggleStopFile \/ UNCHANGED vars
  BY <1>17 DEF RaiseSignal, ToggleStopFile, vars
<1> QED
  BY <1>1, <1>2, <1>3, <1>4, <1>5, <1>6, <1>7, <1>8, <1>9, <1>10, <1>12,
     <1>13, <1>14, <1>15, <1>16, <1>17 DEF Next, Step

\* The inductive invariant of a run on reliable storage: types, durability, seal.
LEMMA SealInvariant ==
  ASSUME Reliable
  PROVE  Spec => [](TypeInv /\ DurableInv /\ SealInv)
<1>1. TypeInv /\ DurableInv /\ [Next]_vars => DurableInv'
  BY DurableStep DEF Reliable
<1>2. TypeInv /\ DurableInv /\ SealInv /\ [Next]_vars => SealInv'
  BY SealStep
<1> QED
  BY TypeInit, TypeStep, DurableInit, SealInit, <1>1, <1>2, PTL DEF Spec

\* Final metrics belong to a completed run and count exactly the frames of the
\* frame cache.
THEOREM MetricsSealCache ==
  ASSUME Reliable
  PROVE  Spec => []MetricsMatchCache
<1>1. SealInv => MetricsMatchCache
  BY DEF SealInv, Sealed, MetricsMatchCache
<1> QED
  BY SealInvariant, <1>1, PTL

-----------------------------------------------------------------------------
(***************************************************************************)
(* What a single step can do to a bundle                                   *)
(***************************************************************************)

Publishing == {"publishLatest", "pauseLatest", "finalLatest"}

Publishes ==
  /\ pc \in Publishing
  /\ latest'.completed = ctx.completed /\ latest'.frames = ctx.frames
  /\ UNCHANGED <<lines, events, metrics>>

Emits == pc = "emit" /\ UNCHANGED <<latest, lines, metrics>>

Caches == pc = "cache" /\ lines <= lines' /\ UNCHANGED <<latest, events, metrics>>

Seals ==
  /\ pc = "metrics"
  /\ metrics' = [written |-> TRUE, frames |-> ctx.frames]
  /\ UNCHANGED <<latest, lines, events>>

Withdraws == pc \in Publishing /\ latest' = Absent /\ UNCHANGED <<lines, events, metrics>>

Rests == UNCHANGED <<latest, lines, events, metrics>>

\* Every step of the program and of its environment is of one of these kinds.
LEMMA StepKinds ==
  ASSUME Reliable, TypeInv, DurableInv, [Next]_vars
  PROVE  Publishes \/ Emits \/ Caches \/ Seals \/ Withdraws \/ Rests
<1> USE DEF Publishes, Emits, Caches, Seals, Withdraws, Rests, Publishing
<1>0. /\ TypeOK
      /\ lines \in Nat /\ ctx.batch \in Nat
      /\ pc = "cache" => tail \notin {"unterminated", "broken"}
  BY DEF TypeInv, TypeOK, Context, DurableInv, CacheTail
<1>1. CASE Begin \/ Resume
  BY <1>1 DEF Begin, Resume
<1>2. CASE StartStream \/ PullChunk \/ Boundary \/ PauseStop \/ StopStream
  BY <1>2 DEF StartStream, PullChunk, Boundary, PauseStop, StopStream
<1>3. CASE EmitFrameEvents
  BY <1>3 DEF EmitFrameEvents
<1>4. CASE AppendFrameCache
  <2>1. lines <= lines'
    <3>1. CASE ctx.batch = 0
      BY <1>4, <3>1, <1>0 DEF AppendFrameCache
    <3>2. CASE ctx.batch # 0
      BY <1>4, <3>2, <1>0, WrittenWhole DEF AppendFrameCache
    <3> QED
      BY <3>1, <3>2
  <2> QED
    BY <1>4, <2>1 DEF AppendFrameCache
<1>5. CASE EmitLostOnClose \/ AppendLostOnClose
  BY <1>5 DEF EmitLostOnClose, AppendLostOnClose, Reliable, SafeStorage
<1>6. CASE CheckpointLatest \/ PauseLatest \/ FinalLatest
  BY <1>6 DEF CheckpointLatest, PauseLatest, FinalLatest, PublishLatest, Published,
              Snapshot, Reliable, SafeStorage
<1>7. CASE CheckpointHistory \/ PauseHistory \/ FinalHistory
  BY <1>7 DEF CheckpointHistory, PauseHistory, FinalHistory, PublishHistory
<1>8. CASE RemoveLatest \/ RemoveHistory
  BY <1>8 DEF RemoveLatest, RemoveHistory
<1>9. CASE PauseManifest \/ PauseManifestRefused \/ WriteManifest
  BY <1>9 DEF PauseManifest, PauseManifestRefused, WriteManifest, Leave
<1>10. CASE WriteMetrics
  BY <1>10 DEF WriteMetrics
<1>11. CASE Faults
  <2>1. PICK how \in {"failed", "killed"} :
           \/ DieBetweenWrites(how) \/ EmitCutShort(how) \/ AppendCutShort(how)
           \/ PublishRefused
    BY <1>11 DEF Faults
  <2>2. CASE DieBetweenWrites(how)
    BY <2>2 DEF DieBetweenWrites
  <2>3. CASE EmitCutShort(how)
    BY <2>3 DEF EmitCutShort
  <2>4. CASE AppendCutShort(how)
    BY <2>4, <1>0, ShortenedWhole DEF AppendCutShort, Reliable
  <2>5. CASE PublishRefused
    BY <2>5 DEF PublishRefused
  <2> QED
    BY <2>1, <2>2, <2>3, <2>4, <2>5
<1>12. CASE RaiseSignal \/ ToggleStopFile \/ UNCHANGED vars
  BY <1>12 DEF RaiseSignal, ToggleStopFile, vars
<1> QED
  BY <1>1, <1>2, <1>3, <1>4, <1>5, <1>6, <1>7, <1>8, <1>9, <1>10, <1>11, <1>12
  DEF Next, Step

\* A completed checkpoint is the last word: it, the cache and the frame events
\* never change again.
THEOREM CompletedStaysFinal ==
  ASSUME Reliable
  PROVE  Spec => CompletedIsFinal
<1>1. ASSUME TypeInv, DurableInv, SealInv, [Next]_vars
      PROVE  [latest.status = "completed" =>
                latest' = latest /\ lines' = lines /\ events' = events]_vars
  <2>1. latest.status = "completed" => pc \notin Publishing \cup {"emit", "cache"}
    BY <1>1 DEF SealInv, Completion, Closing, Publishing
  <2> QED
    BY <1>1, <2>1, StepKinds DEF Publishes, Emits, Caches, Seals, Withdraws, Rests
<1> QED
  BY SealInvariant, <1>1, PTL DEF Spec, CompletedIsFinal

-----------------------------------------------------------------------------
(***************************************************************************)
(* The bundle implements the evidence ledger                               *)
(***************************************************************************)

\* soak_checkpoint.json exists from the first publish on, except while it is
\* replaced: a process with no checkpoint behind it has counted none.
Numbered ==
  /\ latest # Absent => latest.index >= 1
  /\ pc \in {"configure", "pull", "emit", "cache"} => (latest = Absent <=> ctx.index = 0)
  /\ pc \notin {"idle", "configure", "pull", "emit", "cache"} => ctx.index >= 1
  /\ pc = "publishLatest" /\ ctx.index = 1 => latest = Absent
  /\ pc \in {"publishHistory", "boundary", "pauseHistory", "pauseStop", "pauseManifest"}
           \cup Closing => latest # Absent

\* Every step keeps it.
LEMMA NumberedStep ==
  ASSUME Reliable
  PROVE  TypeInv /\ DurableInv /\ Numbered /\ [Next]_vars => Numbered'
<1> SUFFICES ASSUME TypeInv, DurableInv, Numbered, [Next]_vars PROVE Numbered'
  OBVIOUS
<1>0. /\ ctx \in Context /\ ctx.index \in Nat /\ pc \in Stages
      /\ latest.index \in Nat
  BY DEF TypeInv, TypeOK, Context, Checkpoint
<1> USE DEF Numbered, Closing
<1>1. CASE Begin
  BY <1>1 DEF Begin, NoRun, DurableInv, Fresh
<1>2. CASE Resume
  <2>1. CanResume(latest) /\ ctx'.index = latest.index
    BY <1>2 DEF Resume, ResumeSources, ResumedFrom, NoRun, Reliable
  <2>2. latest # Absent
    BY <2>1 DEF CanResume, Absent
  <2> QED
    BY <1>2, <1>0, <2>1, <2>2 DEF Resume
<1>3. CASE StartStream \/ PullChunk \/ EmitFrameEvents
  <2>1. ctx'.index = ctx.index
    BY <1>3, <1>0 DEF StartStream, PullChunk, EmitFrameEvents, Context
  <2> QED
    BY <1>3, <2>1 DEF StartStream, PullChunk, EmitFrameEvents
<1>4. CASE AppendFrameCache
  <2>1. ctx'.index = ctx.index + 1
    BY <1>4 DEF AppendFrameCache, Advanced
  <2> QED
    BY <1>4, <1>0, <2>1 DEF AppendFrameCache
<1>5. CASE EmitLostOnClose \/ AppendLostOnClose
  BY <1>5 DEF EmitLostOnClose, AppendLostOnClose, Reliable, SafeStorage
<1>6. CASE CheckpointLatest \/ PauseLatest \/ FinalLatest
  <2>1. PICK s \in {"running", "paused", "completed"} :
          /\ latest' = Snapshot(s) /\ ctx' = ctx
          /\ pc \in {"publishLatest", "pauseLatest", "finalLatest"}
          /\ pc' \in {"publishHistory", "pauseHistory", "finalHistory"}
    BY <1>6 DEF CheckpointLatest, PauseLatest, FinalLatest, PublishLatest, Published,
                Reliable, SafeStorage
  <2>2. Snapshot(s) # Absent /\ Snapshot(s).index = ctx.index
    BY DEF Snapshot, Absent
  <2> QED
    BY <2>1, <2>2
<1>7. CASE CheckpointHistory \/ PauseHistory \/ FinalHistory
  BY <1>7 DEF CheckpointHistory, PauseHistory, FinalHistory, PublishHistory
<1>8. CASE RemoveLatest \/ RemoveHistory
  BY <1>8 DEF RemoveLatest, RemoveHistory
<1>9. CASE Boundary
  <2>1. ctx'.index \in {ctx.index, ctx.index + 1}
    BY <1>9, <1>0 DEF Boundary, Context
  <2> QED
    BY <1>9, <1>0, <2>1 DEF Boundary
<1>10. CASE PauseStop \/ StopStream \/ WriteMetrics
  BY <1>10 DEF PauseStop, StopStream, WriteMetrics
<1>11. CASE PauseManifest \/ PauseManifestRefused \/ WriteManifest
  BY <1>11 DEF PauseManifest, PauseManifestRefused, WriteManifest, Leave
<1>12. CASE Faults
  <2>1. pc' = "idle" /\ latest' \in {latest, Absent}
    BY <1>12 DEF Faults, DieBetweenWrites, EmitCutShort, AppendCutShort, PublishRefused,
                 Die, Leave
  <2> QED
    BY <2>1
<1>13. CASE RaiseSignal \/ ToggleStopFile \/ UNCHANGED vars
  BY <1>13 DEF RaiseSignal, ToggleStopFile, vars
<1> QED
  BY <1>1, <1>2, <1>3, <1>4, <1>5, <1>6, <1>7, <1>8, <1>9, <1>10, <1>11, <1>12,
     <1>13 DEF Next, Step

LedgerInv == TypeInv /\ DurableInv /\ SealInv /\ Numbered

\* The inductive invariant of the refinement.
LEMMA LedgerInvariant ==
  ASSUME Reliable
  PROVE  Spec => []LedgerInv
<1>1. Init => Numbered
  BY DEF Init, Numbered, Closing
<1>2. TypeInv /\ DurableInv /\ Numbered /\ [Next]_vars => Numbered'
  BY NumberedStep
<1> QED
  BY SealInvariant, <1>1, <1>2, PTL DEF Spec, LedgerInv

\* What the refinement uses of the invariant while a process is at work: the cache
\* loads, and claims no less than the checkpoint.
LEMMA InHand ==
  ASSUME LedgerInv
  PROVE  /\ lines \in Nat /\ Reloaded \in Nat
         /\ latest.completed \in 0 .. Duration /\ latest.frames \in Nat
         /\ ctx.completed \in 0 .. Duration /\ ctx.frames \in Nat /\ ctx.index \in Nat
         /\ latest.frames <= lines
         /\ pc # "idle" => /\ CacheLoads /\ Reloaded = lines /\ Open
                           /\ latest.completed <= ctx.completed
         /\ pc \in Publishing => ctx.frames = lines /\ ~metrics.written
<1>1. TypeOK
  BY DEF LedgerInv, TypeInv
<1>2. /\ lines \in Nat /\ Reloaded \in Nat
      /\ latest.completed \in 0 .. Duration /\ latest.frames \in Nat
      /\ ctx.completed \in 0 .. Duration /\ ctx.frames \in Nat /\ ctx.index \in Nat
  BY <1>1 DEF TypeOK, Checkpoint, Context, Reloaded
<1>3. latest.frames <= lines
  BY DEF LedgerInv, DurableInv, Covered
<1>4. pc # "idle" => CacheLoads /\ Reloaded = lines /\ Open
  BY DEF LedgerInv, DurableInv, CacheTail, CacheLoads, Reloaded, Open
<1>5. pc # "idle" => latest.completed <= ctx.completed
  BY DEF LedgerInv, SealInv, Progress
<1>6. pc \in Publishing => ctx.frames = lines /\ ~metrics.written
  BY DEF LedgerInv, DurableInv, FramesInHand, SealInv, Sealed, Publishing
<1> QED
  BY <1>2, <1>3, <1>4, <1>5, <1>6

\* The claim on either side of a replacement is between those of the two files.
LEMMA ClaimBounds ==
  ASSUME LedgerInv
  PROVE  /\ Claim \in Ledger!Claims
         /\ Claim.frames <= lines
         /\ pc # "idle" => Claim.completed <= ctx.completed
         /\ ~BeingReplaced => Claim.completed = latest.completed /\ Claim.frames = latest.frames
         /\ BeingReplaced => Claim.completed = ctx.completed /\ Claim.frames = ctx.frames
<1>1. BeingReplaced => pc \in Publishing
  BY DEF BeingReplaced, Publishing
<1> QED
  BY <1>1, InHand DEF Claim, Ledger!Claims

\* A step that leaves cache, checkpoint and metrics alone, and the process at the
\* same side of a publish, leaves the ledger alone.
LEMMA LedgerRests ==
  ASSUME UNCHANGED <<lines, tail, latest, metrics>>, ~BeingReplaced, ~BeingReplaced',
         Open' = Open
  PROVE  UNCHANGED Ledger!vars
<1>1. Reloaded' = Reloaded
  BY DEF Reloaded, CacheLoads
<1>2. Claim' = Claim
  BY DEF Claim
<1> QED
  BY <1>1, <1>2 DEF Ledger!vars

\* A process that leaves without touching cache, metrics and checkpoint leaves the
\* ledger open as it was, or closes it; a removed checkpoint is lost with it.
LEMMA LedgerLeaves ==
  ASSUME LedgerInv, LedgerInv', UNCHANGED <<lines, tail, metrics>>, pc # "idle",
         pc' = "idle", outcome' # "none",
         latest' = latest \/ (pc \in Publishing /\ latest' = Absent)
  PROVE  [Ledger!Next]_(Ledger!vars)
<1>1. Reloaded' = Reloaded /\ Open
  BY InHand DEF Reloaded, CacheLoads
<1>2. ~BeingReplaced'
  BY DEF BeingReplaced
<1>3. Open' \in BOOLEAN
  BY DEF Open
<1>4. CASE latest' = latest /\ ~BeingReplaced
  <2>1. Claim' = Claim
    BY <1>2, <1>4 DEF Claim
  <2>2. CASE Open'
    BY <1>1, <2>1, <2>2 DEF Ledger!vars, Open
  <2>3. CASE ~Open'
    BY <1>1, <2>1, <2>3 DEF Ledger!Next, Ledger!Close
  <2> QED
    BY <2>2, <2>3
<1>5. CASE pc \in Publishing /\ latest' = Absent
  <2>1. ~Open'
    BY <1>5 DEF Open, CanResume, Absent
  <2>2. Claim' = Ledger!Nothing
    BY <1>2, <1>5 DEF Claim, Absent, Ledger!Nothing
  <2>3. ~metrics.written
    BY <1>5, InHand
  <2> QED
    BY <1>1, <2>1, <2>2, <2>3 DEF Ledger!Next, Ledger!Close
<1>6. BeingReplaced /\ latest' = latest => pc \in Publishing /\ latest' = Absent
  BY DEF BeingReplaced, Publishing
<1> QED
  BY <1>4, <1>5, <1>6

\* Every step of a soak run is a step of the ledger or leaves it alone.
LEMMA LedgerStep ==
  ASSUME Reliable, LedgerInv, LedgerInv', [Next]_vars
  PROVE  [Ledger!Next]_(Ledger!vars)
<1>1. CASE Begin
  <2>1. ~BeingReplaced /\ ~BeingReplaced' /\ Open' = Open
    BY <1>1 DEF Begin, BeingReplaced, Open
  <2> QED
    BY <1>1, <2>1, LedgerRests DEF Begin
<1>2. CASE Resume
  <2>1. CanResume(latest)
    BY <1>2 DEF Resume, ResumeSources, Reliable
  <2>2. ~BeingReplaced /\ ~BeingReplaced' /\ Open' = Open
    BY <1>2, <2>1 DEF Resume, BeingReplaced, Open
  <2> QED
    BY <1>2, <2>2, LedgerRests DEF Resume
<1>3. CASE StartStream \/ PullChunk \/ EmitFrameEvents
  <2>1. ~BeingReplaced /\ ~BeingReplaced' /\ Open' = Open
    BY <1>3 DEF StartStream, PullChunk, EmitFrameEvents, BeingReplaced, Open
  <2> QED
    BY <1>3, <2>1, LedgerRests DEF StartStream, PullChunk, EmitFrameEvents
<1>4. CASE AppendFrameCache
  <2>1. ~BeingReplaced
    BY <1>4 DEF AppendFrameCache, BeingReplaced
  <2>2. ~BeingReplaced'
    <3>1. ctx'.index = ctx.index + 1
      BY <1>4 DEF AppendFrameCache, Advanced
    <3>2. pc = "cache" /\ pc' = "publishLatest" /\ latest' = latest
      BY <1>4 DEF AppendFrameCache
    <3>3. latest = Absent => ctx.index = 0
      BY <3>2 DEF LedgerInv, Numbered
    <3> QED
      BY <3>1, <3>2, <3>3 DEF BeingReplaced
  <2>3. Claim' = Claim
    BY <1>4, <2>1, <2>2 DEF Claim, AppendFrameCache
  <2>4. lines <= lines' /\ metrics' = metrics /\ pc # "idle" /\ pc' # "idle"
    <3>1. pc = "cache" /\ pc' = "publishLatest" /\ metrics' = metrics
      BY <1>4 DEF AppendFrameCache
    <3>2. Caches \/ Rests
      BY <3>1, StepKinds DEF Publishes, Emits, Seals, Withdraws, Publishing, LedgerInv
    <3> QED
      BY <3>1, <3>2, InHand DEF Caches, Rests
  <2>5. Reloaded = lines /\ Reloaded' = lines' /\ Reloaded' \in Nat
    BY <2>4, InHand DEF LedgerInv, DurableInv, CacheTail, CacheLoads, Reloaded, TypeInv, TypeOK
  <2>6. Open /\ Open'
    BY <2>4 DEF Open
  <2>7. ~metrics.written
    BY <1>4 DEF AppendFrameCache, LedgerInv, SealInv, Sealed
  <2> QED
    BY <2>3, <2>4, <2>5, <2>6, <2>7 DEF Ledger!Next, Ledger!Collect, Ledger!Grows, Open
<1>5. CASE EmitLostOnClose \/ AppendLostOnClose
  BY <1>5 DEF EmitLostOnClose, AppendLostOnClose, Reliable, SafeStorage
<1>6. CASE CheckpointLatest \/ PauseLatest \/ FinalLatest \/ RemoveLatest
  <2>1. /\ pc \in Publishing /\ pc' # "idle" /\ ctx' = ctx
        /\ UNCHANGED <<lines, tail, metrics>>
    BY <1>6 DEF CheckpointLatest, PauseLatest, FinalLatest, PublishLatest, RemoveLatest,
                Publishing
  <2>2. Claim'.completed = ctx.completed /\ Claim'.frames = ctx.frames
    <3>1. CASE RemoveLatest
      <4>1. BeingReplaced'
        BY <3>1, InHand DEF RemoveLatest, BeingReplaced, LedgerInv, Numbered
      <4> QED
        BY <2>1, <4>1, ClaimBounds DEF Claim
    <3>2. CASE CheckpointLatest \/ PauseLatest \/ FinalLatest
      <4>1. PICK s \in {"running", "paused", "completed"} : latest' = Snapshot(s)
        BY <3>2 DEF CheckpointLatest, PauseLatest, FinalLatest, PublishLatest, Published,
                    Reliable, SafeStorage
      <4>2. latest' # Absent
        BY <4>1 DEF Snapshot, Absent
      <4>3. ~BeingReplaced'
        BY <4>2 DEF BeingReplaced
      <4> QED
        BY <4>1, <4>3 DEF Claim, Snapshot
    <3> QED
      BY <1>6, <3>1, <3>2
  <2>3. Claim' \in Ledger!Claims
    BY DEF LedgerInv, TypeInv, TypeOK, Checkpoint, Context, Claim, Ledger!Claims
  <2>4. Reloaded' = Reloaded /\ Reloaded = lines /\ pc # "idle"
    BY <2>1, InHand DEF Reloaded, CacheLoads, Publishing
  <2>5. Open /\ Open'
    BY <2>1, <2>4 DEF Open
  <2>6. Claim.completed <= Claim'.completed /\ Claim.frames <= Claim'.frames
    BY <2>1, <2>2, <2>4, ClaimBounds, InHand
  <2>7. Claim'.frames <= Reloaded /\ ~metrics.written
    BY <2>1, <2>2, <2>4, InHand
  <2> QED
    BY <2>1, <2>3, <2>4, <2>5, <2>6, <2>7 DEF Ledger!Next, Ledger!Secure, Open
<1>7. CASE CheckpointHistory \/ PauseHistory \/ FinalHistory \/ RemoveHistory
  <2>1. ~BeingReplaced /\ ~BeingReplaced' /\ Open' = Open
    BY <1>7 DEF CheckpointHistory, PauseHistory, FinalHistory, PublishHistory, RemoveHistory,
                BeingReplaced, Open
  <2> QED
    BY <1>7, <2>1, LedgerRests
    DEF CheckpointHistory, PauseHistory, FinalHistory, PublishHistory, RemoveHistory
<1>8. CASE Boundary
  <2>1. pc = "boundary" /\ pc' # "idle" /\ latest' = latest
    BY <1>8 DEF Boundary
  <2>2. latest # Absent
    BY <2>1 DEF LedgerInv, Numbered
  <2>3. ~BeingReplaced /\ ~BeingReplaced' /\ Open' = Open
    BY <2>1, <2>2 DEF BeingReplaced, Open
  <2> QED
    BY <1>8, <2>3, LedgerRests DEF Boundary
<1>9. CASE PauseStop \/ StopStream
  <2>1. ~BeingReplaced /\ ~BeingReplaced' /\ Open' = Open
    BY <1>9 DEF PauseStop, StopStream, BeingReplaced, Open
  <2> QED
    BY <1>9, <2>1, LedgerRests DEF PauseStop, StopStream
<1>10. CASE WriteMetrics
  <2>1. /\ pc = "metrics" /\ pc' = "manifest"
        /\ UNCHANGED <<lines, tail, latest>>
        /\ metrics' = [written |-> TRUE, frames |-> ctx.frames]
    BY <1>10 DEF WriteMetrics
  <2>2. ~BeingReplaced /\ ~BeingReplaced' /\ Open /\ Open'
    BY <2>1 DEF BeingReplaced, Open
  <2>3. Claim' = Claim /\ Reloaded' = Reloaded
    BY <2>1, <2>2 DEF Claim, Reloaded, CacheLoads
  <2>4. ctx.frames = lines /\ Reloaded = lines
    BY <2>1, InHand DEF LedgerInv, DurableInv, FramesInHand
  <2>5. Claim.completed = Duration /\ ~metrics.written
    BY <2>1, <2>2 DEF Claim, LedgerInv, SealInv, Sealed, Completion, Closing
  <2> QED
    BY <2>1, <2>2, <2>3, <2>4, <2>5 DEF Ledger!Next, Ledger!Seal, Open
<1>11. CASE PauseManifest \/ PauseManifestRefused \/ WriteManifest
  <2>1. /\ pc # "idle" /\ pc' = "idle" /\ outcome' # "none"
        /\ UNCHANGED <<lines, tail, metrics, latest>>
    BY <1>11 DEF PauseManifest, PauseManifestRefused, WriteManifest, Leave
  <2> QED
    BY <2>1, LedgerLeaves
<1>12. CASE Faults
  <2>1. PICK how \in {"failed", "killed"} :
           \/ DieBetweenWrites(how) \/ EmitCutShort(how) \/ AppendCutShort(how)
           \/ PublishRefused
    BY <1>12 DEF Faults
  <2>2. pc # "idle" /\ pc' = "idle" /\ outcome' # "none" /\ metrics' = metrics
    BY <2>1 DEF DieBetweenWrites, EmitCutShort, AppendCutShort, PublishRefused, Die, Leave
  <2>3. CASE DieBetweenWrites(how) \/ EmitCutShort(how) \/ PublishRefused
    <3>1. /\ UNCHANGED <<lines, tail>>
          /\ latest' = latest \/ (pc \in Publishing /\ latest' = Absent)
      BY <2>3 DEF DieBetweenWrites, EmitCutShort, PublishRefused, Publishing
    <3> QED
      BY <2>2, <3>1, LedgerLeaves
  <2>4. CASE AppendCutShort(how)
    <3>1. pc = "cache" /\ latest' = latest /\ Shortened
      BY <2>4 DEF AppendCutShort
    <3>2. lines <= lines' /\ lines' \in Nat
      <4>1. TypeOK /\ tail \notin {"unterminated", "broken"}
        BY <3>1 DEF LedgerInv, TypeInv, DurableInv, CacheTail
      <4> QED
        BY <3>1, <4>1, ShortenedWhole, ShortenedType DEF Reliable
    <3>3. ~BeingReplaced /\ ~BeingReplaced'
      BY <2>2, <3>1 DEF BeingReplaced
    <3>4. Claim' = Claim
      BY <3>1, <3>3 DEF Claim
    <3>5. Reloaded = lines /\ Open /\ ~metrics.written
      BY <2>2, <3>1, InHand DEF LedgerInv, SealInv, Sealed
    <3>6. CASE CacheLoads'
      <4>1. Reloaded' = lines'
        BY <3>6 DEF Reloaded
      <4>2. CASE Open'
        BY <2>2, <3>2, <3>4, <3>5, <4>1, <4>2
        DEF Ledger!Next, Ledger!Collect, Ledger!Grows, Open
      <4>3. CASE ~Open'
        BY <2>2, <3>2, <3>4, <3>5, <4>1, <4>3
        DEF Ledger!Next, Ledger!Close, Ledger!Grows
      <4> QED
        BY <4>2, <4>3
    <3>7. CASE ~CacheLoads'
      <4>1. Reloaded' = 0
        BY <3>7 DEF Reloaded
      <4>2. ~Open'
        BY <2>2, <3>7 DEF Open, CanResume, CacheLoads
      <4> QED
        BY <2>2, <3>4, <3>5, <4>1, <4>2 DEF Ledger!Next, Ledger!Close
    <3> QED
      BY <3>6, <3>7
  <2> QED
    BY <2>1, <2>3, <2>4
<1>13. CASE RaiseSignal \/ ToggleStopFile \/ UNCHANGED vars
  <2>1. UNCHANGED <<pc, ctx, outcome, lines, tail, latest, metrics>>
    BY <1>13 DEF RaiseSignal, ToggleStopFile, vars
  <2>2. Reloaded' = Reloaded /\ Open' = Open /\ Claim' = Claim
    BY <2>1 DEF Reloaded, CacheLoads, Open, CanResume, Claim, BeingReplaced
  <2> QED
    BY <2>1, <2>2 DEF Ledger!vars
<1> QED
  BY <1>1, <1>2, <1>3, <1>4, <1>5, <1>6, <1>7, <1>8, <1>9, <1>10, <1>11, <1>12,
     <1>13 DEF Next, Step

\* On reliable storage a soak run implements the abstract ledger: while it can go
\* on, evidence is only added, and claims follow it and never go back; the metrics
\* seal the whole stock once, at the end; and a failure that ends the run for good
\* costs the use of the cache or the checkpoint, never both.
THEOREM BundleKeepsLedger ==
  ASSUME Reliable
  PROVE  Spec => KeepsLedger
<1>1. Init => Ledger!Init
  BY DEF Init, Ledger!Init, Ledger!Nothing, Absent, NotWritten, Reloaded, CacheLoads, Claim,
         BeingReplaced, Open
<1>2. LedgerInv /\ LedgerInv' /\ [Next]_vars => [Ledger!Next]_(Ledger!vars)
  BY LedgerStep
<1> QED
  BY LedgerInvariant, <1>1, <1>2, PTL DEF Spec, KeepsLedger, Ledger!Spec

\* As long as the run can go on, the progress and the frames its newest checkpoint
\* claims never go back, whatever fails and however often it is resumed.
THEOREM ProgressIsKept ==
  ASSUME Reliable
  PROVE  Spec => ProgressKept
<1>1. ASSUME LedgerInv, LedgerInv', [Next]_vars
      PROVE  [Open' => /\ Claim.completed <= Claim'.completed
                       /\ Claim.frames <= Claim'.frames]_vars
  <2>1. [Ledger!Next]_(Ledger!vars)
    BY <1>1, LedgerStep
  <2>2. Claim.completed \in Nat /\ Claim.frames \in Nat
    BY <1>1, ClaimBounds DEF Ledger!Claims
  <2>3. Open' => /\ Claim.completed <= Claim'.completed
                 /\ Claim.frames <= Claim'.frames
    <3>1. CASE Ledger!Close
      BY <3>1 DEF Ledger!Close
    <3>2. CASE Ledger!Secure
      BY <3>2 DEF Ledger!Secure
    <3>3. CASE Ledger!Collect \/ Ledger!Seal \/ UNCHANGED Ledger!vars
      <4>1. Claim' = Claim
        BY <3>3, Zenon DEF Ledger!Collect, Ledger!Seal, Ledger!vars
      <4> QED
        BY <2>2, <4>1
    <3> QED
      BY <2>1, <3>1, <3>2, <3>3 DEF Ledger!Next
  <2> QED
    BY <2>3
<1> QED
  BY LedgerInvariant, <1>1, PTL DEF Spec, ProgressKept

-----------------------------------------------------------------------------
(***************************************************************************)
(* The manifest                                                            *)
(***************************************************************************)

\* A run that reports a pause or a success has hashed its artifacts as they are:
\* the manifest is the last write of the process, and nothing writes to a bundle
\* until --resume takes it over.  No assumption on the storage is needed.
THEOREM ManifestIsCurrent == Spec => []ManifestCurrent
<1> USE DEF ManifestCurrent
<1>1. Init => ManifestCurrent
  BY DEF Init
<1>2. ManifestCurrent /\ [Next]_vars => ManifestCurrent'
  <2> SUFFICES ASSUME ManifestCurrent, [Next]_vars PROVE ManifestCurrent'
    OBVIOUS
  <2>1. CASE Begin \/ Resume
    BY <2>1 DEF Begin, Resume
  <2>2. CASE StartStream \/ PullChunk \/ EmitFrameEvents \/ EmitLostOnClose
    BY <2>2 DEF StartStream, PullChunk, EmitFrameEvents, EmitLostOnClose
  <2>3. CASE AppendFrameCache \/ AppendLostOnClose
    BY <2>3 DEF AppendFrameCache, AppendLostOnClose
  <2>4. CASE CheckpointLatest \/ PauseLatest \/ FinalLatest
    BY <2>4 DEF CheckpointLatest, PauseLatest, FinalLatest, PublishLatest
  <2>5. CASE CheckpointHistory \/ PauseHistory \/ FinalHistory
    BY <2>5 DEF CheckpointHistory, PauseHistory, FinalHistory, PublishHistory
  <2>6. CASE RemoveLatest \/ RemoveHistory
    BY <2>6 DEF RemoveLatest, RemoveHistory
  <2>7. CASE Boundary \/ PauseStop \/ StopStream \/ WriteMetrics
    BY <2>7 DEF Boundary, PauseStop, StopStream, WriteMetrics
  <2>8. CASE PauseManifest \/ WriteManifest
    BY <2>8 DEF PauseManifest, WriteManifest, Artifacts
  <2>9. CASE PauseManifestRefused
    BY <2>9 DEF PauseManifestRefused, Leave
  <2>10. CASE Faults
    BY <2>10 DEF Faults, DieBetweenWrites, EmitCutShort, AppendCutShort, PublishRefused,
                 Die, Leave
  <2>11. CASE RaiseSignal \/ ToggleStopFile \/ UNCHANGED vars
    BY <2>11 DEF RaiseSignal, ToggleStopFile, vars, Artifacts, Streaming
  <2> QED
    BY <2>1, <2>2, <2>3, <2>4, <2>5, <2>6, <2>7, <2>8, <2>9, <2>10, <2>11
    DEF Next, Step
<1> QED
  BY <1>1, <1>2, PTL DEF Spec

-----------------------------------------------------------------------------
(***************************************************************************)
(* A pause can be resumed                                                  *)
(***************************************************************************)

Pausing == {"pauseHistory", "pauseStop", "pauseManifest"}

\* Once the paused checkpoint is published, it claims the frames of the cache,
\* and there is run time left to resume for.
PausedInv ==
  /\ pc = "pauseLatest" => ctx.completed < Duration
  /\ pc \in Pausing => /\ latest.status = "paused"
                       /\ latest.completed < Duration
                       /\ latest.frames = lines
  /\ PausedIsResumable

\* Every step keeps it, on storage that keeps what was written.
LEMMA PausedStep ==
  ASSUME SafeStorage
  PROVE  TypeInv /\ DurableInv /\ PausedInv /\ [Next]_vars => PausedInv'
<1> SUFFICES ASSUME TypeInv, DurableInv, PausedInv, [Next]_vars PROVE PausedInv'
  OBVIOUS
<1>0. ctx.completed \in Nat /\ pc \in Stages
  BY DEF TypeInv, TypeOK, Context
<1> USE DEF PausedInv, Pausing, PausedIsResumable
<1>1. CASE Begin \/ Resume
  BY <1>1 DEF Begin, Resume
<1>2. CASE StartStream \/ PullChunk \/ EmitFrameEvents
  BY <1>2 DEF StartStream, PullChunk, EmitFrameEvents
<1>3. CASE EmitLostOnClose \/ AppendLostOnClose
  BY <1>3 DEF EmitLostOnClose, AppendLostOnClose, SafeStorage
<1>4. CASE AppendFrameCache
  BY <1>4 DEF AppendFrameCache
<1>5. CASE CheckpointLatest \/ FinalLatest
  BY <1>5 DEF CheckpointLatest, FinalLatest, PublishLatest
<1>6. CASE PauseLatest
  <2>1. latest' = Snapshot("paused") /\ pc' = "pauseHistory" /\ lines' = lines
    BY <1>6 DEF PauseLatest, PublishLatest, Published, SafeStorage
  <2>2. pc = "pauseLatest" /\ ctx.frames = lines
    BY <1>6 DEF PauseLatest, PublishLatest, DurableInv, FramesInHand
  <2> QED
    BY <2>1, <2>2 DEF Snapshot
<1>7. CASE CheckpointHistory \/ PauseHistory \/ FinalHistory
  BY <1>7 DEF CheckpointHistory, PauseHistory, FinalHistory, PublishHistory
<1>8. CASE RemoveLatest \/ RemoveHistory
  BY <1>8 DEF RemoveLatest, RemoveHistory
<1>9. CASE Boundary
  BY <1>9, <1>0 DEF Boundary, PauseDue, Remaining
<1>10. CASE PauseStop \/ StopStream \/ WriteMetrics
  BY <1>10 DEF PauseStop, StopStream, WriteMetrics
<1>11. CASE PauseManifest
  <2>1. CacheLoads'
    BY <1>11 DEF PauseManifest, CacheLoads, DurableInv, CacheTail
  <2> QED
    BY <1>11, <2>1 DEF PauseManifest, Leave, CanResume
<1>12. CASE PauseManifestRefused \/ WriteManifest
  BY <1>12 DEF PauseManifestRefused, WriteManifest, Leave
<1>13. CASE Faults
  BY <1>13 DEF Faults, DieBetweenWrites, EmitCutShort, AppendCutShort, PublishRefused,
               Die, Leave
<1>14. CASE RaiseSignal \/ ToggleStopFile \/ UNCHANGED vars
  BY <1>14 DEF RaiseSignal, ToggleStopFile, vars, Streaming, CanResume, CacheLoads
<1> QED
  BY <1>1, <1>2, <1>3, <1>4, <1>5, <1>6, <1>7, <1>8, <1>9, <1>10, <1>11, <1>12,
     <1>13, <1>14 DEF Next, Step

\* A run that reports a pause can be resumed, and its checkpoint claims exactly
\* what the cache holds, on storage that keeps what was written.
THEOREM PauseCanBeResumed ==
  ASSUME SafeStorage
  PROVE  Spec => []PausedIsResumable
<1>1. Init => PausedInv
  BY DEF Init, PausedInv, Pausing, PausedIsResumable
<1>2. TypeInv /\ DurableInv /\ [Next]_vars => DurableInv'
  BY DurableStep
<1>3. TypeInv /\ DurableInv /\ PausedInv /\ [Next]_vars => PausedInv'
  BY PausedStep
<1>4. PausedInv => PausedIsResumable
  BY DEF PausedInv
<1> QED
  BY TypeInit, TypeStep, DurableInit, <1>1, <1>2, <1>3, <1>4, PTL DEF Spec

-----------------------------------------------------------------------------
(***************************************************************************)
(* Claimed frames and claimed time                                         *)
(***************************************************************************)

\* Where the newest checkpoint has the progress of the process.
Settled == {"pauseHistory", "pauseStop", "pauseManifest", "finalHistory",
               "stop", "metrics", "manifest"}

\* While nothing has failed, the frames in memory, in the cache and in the
\* checkpoint are bounded by the time each of them stands for.
Unfailed ==
  /\ tail \in {"absent", "clean"}
  /\ latest.frames <= Rate * latest.completed
  /\ metrics.frames <= Rate * Duration
  /\ pc \notin {"idle", "cache"} =>
       ctx.frames = lines /\ ctx.frames <= Rate * ctx.completed
  /\ pc = "emit" => ctx.batch <= Rate * ctx.span
  /\ pc = "cache" => /\ ctx.frames = lines + ctx.batch
                     /\ ctx.frames <= Rate * (ctx.completed + ctx.span)
  /\ pc \in Settled => latest.completed = ctx.completed
  /\ pc = "idle" => lines <= Rate * latest.completed

RateInv == Fresh /\ (faults = 0 => Unfailed)

\* What is used of the product with the frame rate.
LEMMA RateLinear ==
  ASSUME NEW a \in Nat, NEW b \in Nat
  PROVE  /\ Rate * (a + b) = Rate * a + Rate * b
         /\ a <= b => Rate * a <= Rate * b
         /\ Rate * 0 = 0
         /\ Rate * a \in Nat
<1>1. a <= b => Rate * a <= Rate * b
  <2> SUFFICES ASSUME a <= b PROVE Rate * a <= Rate * b
    OBVIOUS
  <2>1. b = a + (b - a) /\ b - a \in Nat
    OBVIOUS
  <2>2. Rate * b = Rate * a + Rate * (b - a)
    BY <2>1
  <2>3. Rate * (b - a) >= 0
    BY <2>1
  <2> QED
    BY <2>2, <2>3
<1> QED
  BY <1>1

\* Every step that is no fault keeps it, when runs are resumed from
\* soak_checkpoint.json; a fault ends what it says.
LEMMA RateStep ==
  ASSUME ~ResumeFromHistory
  PROVE  TypeInv /\ RateInv /\ [Next]_vars => RateInv'
<1> SUFFICES ASSUME TypeInv, RateInv, [Next]_vars PROVE RateInv'
  OBVIOUS
<1>0. /\ TypeOK
      /\ ctx \in Context /\ ctx.completed \in Nat /\ ctx.span \in Nat
      /\ ctx.frames \in Nat /\ ctx.batch \in Nat /\ lines \in Nat /\ Rate \in Nat
      /\ ctx.completed <= Duration /\ Duration \in Nat
      /\ faults \in Nat /\ pc \in Stages
  BY DEF TypeInv, TypeOK, Context
<1>m. /\ Rate * (ctx.completed + ctx.span) = Rate * ctx.completed + Rate * ctx.span
      /\ Rate * ctx.completed <= Rate * Duration
      /\ Rate * 0 = 0
  BY <1>0, RateLinear
<1> USE DEF RateInv, Fresh, Unfailed, Settled
<1>1. CASE Begin
  BY <1>1, <1>m DEF Begin, NoRun, Absent
<1>2. CASE Resume
  <2>1. ctx'.completed = latest.completed /\ ctx'.frames = lines
    BY <1>2 DEF Resume, ResumeSources, CanResume, ResumedFrom, Reloaded, NoRun
  <2> QED
    BY <1>2, <2>1 DEF Resume
<1>3. CASE StartStream
  BY <1>3 DEF StartStream
<1>4. CASE PullChunk
  <2>1. /\ ctx'.frames = ctx.frames /\ ctx'.completed = ctx.completed
        /\ ctx'.batch <= Rate * ctx'.span
    BY <1>4, <1>0 DEF PullChunk, Context
  <2> QED
    BY <1>4, <2>1 DEF PullChunk
<1>5. CASE EmitFrameEvents
  <2>1. ctx' = [ctx EXCEPT !.frames = @ + ctx.batch] /\ pc = "emit" /\ pc' = "cache"
    BY <1>5 DEF EmitFrameEvents
  <2>2. /\ ctx'.frames = ctx.frames + ctx.batch /\ ctx'.batch = ctx.batch
        /\ ctx'.completed = ctx.completed /\ ctx'.span = ctx.span
    BY <2>1, <1>0 DEF Context
  <2>3. faults = 0 => ctx'.frames <= Rate * (ctx'.completed + ctx'.span)
    BY <2>1, <2>2, <1>0, <1>m
  <2> QED
    BY <1>5, <2>1, <2>2, <2>3 DEF EmitFrameEvents
<1>6. CASE EmitLostOnClose
  BY <1>6, <1>0 DEF EmitLostOnClose
<1>7. CASE AppendFrameCache
  <2>1. ctx'.frames = ctx.frames /\ ctx'.completed = ctx.completed + ctx.span
    BY <1>7 DEF AppendFrameCache, Advanced
  <2>2. faults = 0 => lines' = lines + ctx.batch /\ tail' \in {"absent", "clean"}
    <3>1. CASE ctx.batch = 0
      BY <1>7, <3>1, <1>0 DEF AppendFrameCache
    <3>2. CASE ctx.batch # 0
      BY <1>7, <3>2, <1>0, WrittenWhole DEF AppendFrameCache
    <3> QED
      BY <3>1, <3>2
  <2> QED
    BY <1>7, <2>1, <2>2 DEF AppendFrameCache
<1>8. CASE AppendLostOnClose
  BY <1>8, <1>0 DEF AppendLostOnClose
<1>9. CASE CheckpointLatest \/ PauseLatest \/ FinalLatest
  <2>1. PICK s \in {"running", "paused", "completed"},
             next \in {"publishHistory", "pauseHistory", "finalHistory"} :
          /\ pc' = next /\ pc \in Publishing
          /\ latest' = Snapshot(s) \/ faults' = faults + 1
          /\ faults' \in {faults, faults + 1}
          /\ UNCHANGED <<ctx, outcome, lines, tail, metrics>>
    BY <1>9 DEF CheckpointLatest, PauseLatest, FinalLatest, PublishLatest, Published,
                Publishing
  <2>2. Snapshot(s).completed = ctx.completed /\ Snapshot(s).frames = ctx.frames
    BY DEF Snapshot
  <2>3. outcome # "none"
    BY <2>1 DEF Publishing
  <2> QED
    BY <2>1, <2>2, <2>3, <1>0 DEF Publishing
<1>10. CASE CheckpointHistory \/ PauseHistory \/ FinalHistory
  <2>1. /\ faults' \in {faults, faults + 1}
        /\ \/ pc = "publishHistory" /\ pc' = "boundary"
           \/ pc = "pauseHistory" /\ pc' = "pauseStop"
           \/ pc = "finalHistory" /\ pc' = "stop"
        /\ UNCHANGED <<ctx, outcome, latest, lines, tail, metrics>>
    BY <1>10 DEF CheckpointHistory, PauseHistory, FinalHistory, PublishHistory, Published
  <2> QED
    BY <2>1, <1>0
<1>11. CASE RemoveLatest
  BY <1>11, <1>0, <1>m DEF RemoveLatest, RenameFails, Absent
<1>12. CASE RemoveHistory
  BY <1>12, <1>0 DEF RemoveHistory, RenameFails
<1>13. CASE Boundary
  <2>1. ctx'.completed = ctx.completed /\ ctx'.frames = ctx.frames
    BY <1>13, <1>0 DEF Boundary, Context
  <2> QED
    BY <1>13, <2>1 DEF Boundary
<1>14. CASE PauseStop \/ StopStream
  BY <1>14 DEF PauseStop, StopStream
<1>15. CASE WriteMetrics
  <2>1. faults = 0 => ctx.frames <= Rate * Duration
    BY <1>15, <1>0, <1>m DEF WriteMetrics
  <2> QED
    BY <1>15, <2>1 DEF WriteMetrics
<1>16. CASE PauseManifest \/ PauseManifestRefused \/ WriteManifest
  BY <1>16 DEF PauseManifest, PauseManifestRefused, WriteManifest, Leave
<1>17. CASE Faults
  <2>1. faults' = faults + 1 /\ outcome' # "none"
    BY <1>17 DEF Faults, DieBetweenWrites, EmitCutShort, AppendCutShort, PublishRefused,
                 Die, Leave
  <2> QED
    BY <2>1, <1>0
<1>18. CASE RaiseSignal \/ ToggleStopFile \/ UNCHANGED vars
  BY <1>18 DEF RaiseSignal, ToggleStopFile, vars
<1> QED
  BY <1>1, <1>2, <1>3, <1>4, <1>5, <1>6, <1>7, <1>8, <1>9, <1>10, <1>11, <1>12,
     <1>13, <1>14, <1>15, <1>16, <1>17, <1>18 DEF Next, Step

\* A run nothing failed in, paused and resumed any number of times, claims no
\* more frames than the camera can deliver in the time it claims.
THEOREM ClaimsFitTheRate ==
  ASSUME ~ResumeFromHistory
  PROVE  Spec => []NeverOverRate
<1>1. Init => RateInv
  BY RateLinear DEF Init, RateInv, Fresh, Unfailed, Settled, Absent, NotWritten
<1>2. TypeInv /\ RateInv /\ [Next]_vars => RateInv'
  BY RateStep
<1>3. RateInv => NeverOverRate
  BY DEF RateInv, Unfailed, NeverOverRate
<1> QED
  BY TypeInit, TypeStep, <1>1, <1>2, <1>3, PTL DEF Spec
-----------------------------------------------------------------------------
(***************************************************************************)
(* One fault                                                               *)
(***************************************************************************)

Loadable(c) == c.status \notin {"absent", "corrupt"}

InLatest == Loadable(latest)

InHistory == \E c \in history : Loadable(c)

OnLatest == {"publishLatest", "pauseLatest", "finalLatest"}

OnHistory == {"publishHistory", "pauseHistory", "finalHistory"}

\* Past the SOAK_CHECKPOINT event of a chunk of this process.
AfterBoundary == {"pauseLatest", "pauseHistory", "pauseStop", "pauseManifest", "finalLatest",
                  "finalHistory", "stop", "metrics", "manifest"}

\* How far events.jsonl has come, for a process past its start, and between
\* processes as long as nothing failed.
MarksFollow ==
  /\ pc \notin {"idle", "configure"} => marks >= 1
  /\ pc \in AfterBoundary => marks >= 2
  /\ faults = 0 /\ pc = "idle" /\ outcome # "none" => marks >= 2
  /\ faults = 0 /\ pc = "configure" => marks = 0 \/ marks >= 2

\* Without a fault, a file that is not being replaced can be loaded.
BothLoad ==
  /\ pc \in OnHistory => InLatest
  /\ pc = "boundary" \/ marks >= 2 => /\ pc \notin OnLatest => InLatest
                                      /\ pc \notin OnHistory => InHistory

\* After one, one of the files can be, except while the other is replaced: what
\* that leaves is decided by a step that cannot fail again.
OneLoads ==
  pc \notin OnLatest \cup OnHistory =>
    (pc = "boundary" \/ marks >= 2 \/ (pc = "configure" /\ marks >= 1) =>
       InLatest \/ InHistory)

SurvivalInv ==
  /\ outcome = "none" => pc = "idle" /\ marks = 0
  /\ MarksFollow
  /\ faults = 0 => BothLoad
  /\ faults = 1 => OneLoads

\* Publishing soak_checkpoint.json.
LEMMA SurvivesLatest ==
  ASSUME TypeInv, SurvivalInv, CheckpointLatest \/ PauseLatest \/ FinalLatest
  PROVE  SurvivalInv'
<1> USE DEF SurvivalInv, MarksFollow, BothLoad, OneLoads, OnLatest, OnHistory, AfterBoundary
<1>0. marks \in Nat /\ faults \in Nat
  BY DEF TypeInv, TypeOK
<1>1. PICK s \in {"running", "paused", "completed"} :
        /\ \/ latest' = Snapshot(s) /\ faults' = faults
           \/ faults' = faults + 1
        /\ \/ pc = "publishLatest" /\ pc' = "publishHistory"
           \/ pc = "pauseLatest" /\ pc' = "pauseHistory"
           \/ pc = "finalLatest" /\ pc' = "finalHistory"
        /\ UNCHANGED <<outcome, history, marks>>
  BY DEF CheckpointLatest, PauseLatest, FinalLatest, PublishLatest, Published
<1>2. Loadable(Snapshot(s))
  BY DEF Loadable, Snapshot
<1>3. faults' = faults => InLatest'
  BY <1>0, <1>1, <1>2 DEF InLatest
<1> QED
  BY <1>0, <1>1, <1>3

\* Publishing a history file.
LEMMA SurvivesHistory ==
  ASSUME TypeInv, SurvivalInv, CheckpointHistory \/ PauseHistory \/ FinalHistory
  PROVE  SurvivalInv'
<1> USE DEF SurvivalInv, MarksFollow, BothLoad, OneLoads, OnLatest, OnHistory, AfterBoundary
<1>0. marks \in Nat /\ faults \in Nat
  BY DEF TypeInv, TypeOK
<1>1. PICK s \in {"running", "paused", "completed"} :
        /\ \/ history' = HistoryWith(Snapshot(s)) /\ faults' = faults
           \/ faults' = faults + 1
        /\ \/ pc = "publishHistory" /\ pc' = "boundary"
           \/ pc = "pauseHistory" /\ pc' = "pauseStop"
           \/ pc = "finalHistory" /\ pc' = "stop"
        /\ UNCHANGED <<outcome, latest, marks>>
  BY DEF CheckpointHistory, PauseHistory, FinalHistory, PublishHistory, Published
<1>2. Loadable(Snapshot(s))
  BY DEF Loadable, Snapshot
<1>3. faults' = faults => InHistory'
  BY <1>0, <1>1, <1>2 DEF InHistory, HistoryWith
<1>4. InLatest' <=> InLatest
  BY <1>1 DEF InLatest
<1> QED
  BY <1>0, <1>1, <1>3, <1>4

\* Every step keeps it.
LEMMA SurvivalStep == TypeInv /\ SurvivalInv /\ [Next]_vars => SurvivalInv'
<1> SUFFICES ASSUME TypeInv, SurvivalInv, [Next]_vars PROVE SurvivalInv'
  OBVIOUS
<1>0. marks \in Nat /\ faults \in Nat /\ pc \in Stages
  BY DEF TypeInv, TypeOK
<1>a. latest' = latest => (InLatest' <=> InLatest)
  BY DEF InLatest
<1>b. history' = history => (InHistory' <=> InHistory)
  BY DEF InHistory
<1> USE DEF SurvivalInv, MarksFollow, BothLoad, OneLoads, OnLatest, OnHistory, AfterBoundary
<1>1. CASE Begin
  BY <1>1, <1>0, <1>a, <1>b DEF Begin
<1>2. CASE Resume
  <2>1. PICK c \in history \cup {latest} : CanResume(c)
    BY <1>2 DEF Resume, ResumeSources
  <2>2. InLatest \/ InHistory
    BY <2>1 DEF CanResume, InLatest, InHistory, Loadable
  <2> QED
    BY <1>2, <2>2, <1>0, <1>a, <1>b DEF Resume
<1>3. CASE StartStream
  BY <1>3, <1>0, <1>a, <1>b DEF StartStream
<1>4. CASE PullChunk \/ EmitFrameEvents
  BY <1>4, <1>0, <1>a, <1>b DEF PullChunk, EmitFrameEvents
<1>5. CASE EmitLostOnClose
  BY <1>5, <1>0, <1>a, <1>b DEF EmitLostOnClose
<1>6. CASE AppendFrameCache
  BY <1>6, <1>0, <1>a, <1>b DEF AppendFrameCache
<1>7. CASE AppendLostOnClose
  BY <1>7, <1>0, <1>a, <1>b DEF AppendLostOnClose
<1>8. CASE CheckpointLatest \/ PauseLatest \/ FinalLatest
  BY <1>8, SurvivesLatest
<1>9. CASE CheckpointHistory \/ PauseHistory \/ FinalHistory
  BY <1>9, SurvivesHistory
<1>10. CASE RemoveLatest
  BY <1>10, <1>0, <1>b DEF RemoveLatest, RenameFails
<1>11. CASE RemoveHistory
  BY <1>11, <1>0, <1>a DEF RemoveHistory, RenameFails
<1>12. CASE Boundary
  BY <1>12, <1>0, <1>a, <1>b DEF Boundary
<1>13. CASE PauseStop \/ StopStream \/ WriteMetrics
  <2>1. /\ \/ pc = "pauseStop" /\ pc' = "pauseManifest"
           \/ pc = "stop" /\ pc' = "metrics"
           \/ pc = "metrics" /\ pc' = "manifest"
        /\ marks' \in {marks, marks + 1}
        /\ UNCHANGED <<outcome, latest, history, faults>>
    BY <1>13 DEF PauseStop, StopStream, WriteMetrics
  <2> QED
    BY <2>1, <1>0, <1>a, <1>b
<1>14. CASE PauseManifest \/ PauseManifestRefused \/ WriteManifest
  BY <1>14, <1>0, <1>a, <1>b DEF PauseManifest, PauseManifestRefused, WriteManifest, Leave
<1>15. CASE Faults
  <2>1. /\ faults' = faults + 1 /\ outcome' # "none" /\ pc' = "idle" /\ pc # "idle"
        /\ marks' = marks
        /\ \/ pc \in OnLatest /\ history' = history
           \/ pc \in OnHistory /\ latest' = latest
           \/ UNCHANGED <<latest, history>>
    BY <1>15 DEF Faults, DieBetweenWrites, EmitCutShort, AppendCutShort, PublishRefused,
                 Die, Leave
  <2> QED
    BY <2>1, <1>0, <1>a, <1>b
<1>16. CASE RaiseSignal \/ ToggleStopFile \/ UNCHANGED vars
  BY <1>16, <1>0, <1>a, <1>b DEF RaiseSignal, ToggleStopFile, vars
<1> QED
  BY <1>1, <1>2, <1>3, <1>4, <1>5, <1>6, <1>7, <1>8, <1>9, <1>10, <1>11, <1>12,
     <1>13, <1>14, <1>15, <1>16 DEF Next, Step

\* Whatever the file system does with a rename and whichever checkpoint the run is
\* resumed from, one fault leaves a checkpoint that can be loaded.
THEOREM OneFaultIsSurvived == Spec => []CheckpointSurvivesOneFault
<1>1. Init => SurvivalInv
  BY DEF Init, SurvivalInv, MarksFollow, BothLoad, OneLoads, OnLatest, OnHistory,
         AfterBoundary
<1>2. TypeInv /\ SurvivalInv => CheckpointSurvivesOneFault
  BY DEF TypeInv, TypeOK, SurvivalInv, BothLoad, OneLoads, OnLatest, OnHistory, InLatest,
         InHistory, Loadable, CheckpointSurvivesOneFault
<1> QED
  BY TypeInit, TypeStep, SurvivalStep, <1>1, <1>2, PTL DEF Spec
=============================================================================
