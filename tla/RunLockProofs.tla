--------------------------- MODULE RunLockProofs ---------------------------
(***************************************************************************)
(* What the run lock guarantees to any number of sessions.                 *)
(***************************************************************************)
EXTENDS RunLock, TLAPS

USE LockAssumption DEF LockAssumption

-----------------------------------------------------------------------------
(***************************************************************************)
(* Types                                                                   *)
(***************************************************************************)

\* The type invariant holds at the start.
LEMMA LockTypeInit == Init => TypeOK
  BY DEF Init, TypeOK, Text, Acquiring

\* Every system call, exit and pid reuse keeps it.
LEMMA LockTypeStep == TypeOK /\ [Next]_vars => TypeOK'
<1> SUFFICES ASSUME TypeOK, [Next]_vars PROVE TypeOK'
  OBVIOUS
<1>0. world' = world
  BY DEF Next, vars
<1> USE DEF TypeOK, Text, Acquiring, Goto, Unlink, Closed, Running
<1>1. ASSUME NEW p \in Process,
             \/ Enter(p) \/ Inspect(p) \/ Refuse(p) \/ FindStale(p)
             \/ ReleaseLeavesFile(p) \/ Reassign(p)
      PROVE  TypeOK'
  BY <1>0, <1>1 DEF Enter, Inspect, Refuse, FindStale, ReleaseLeavesFile, Reassign
<1>2. ASSUME NEW p \in Process, Read(p) \/ ReadFails(p) PROVE TypeOK'
  BY <1>0, <1>2 DEF Read, ReadFails
<1>3. ASSUME NEW p \in Process, RemoveStale(p) \/ Release(p) PROVE TypeOK'
  BY <1>0, <1>3 DEF RemoveStale, Release
<1>4. ASSUME NEW p \in Process, Create(p) \/ Write(p) \/ Fail(p) PROVE TypeOK'
  BY <1>0, <1>4 DEF Create, Write, Fail
<1>5. ASSUME NEW p \in Process, Exit(p) PROVE TypeOK'
  BY <1>0, <1>5 DEF Exit
<1>6. CASE UNCHANGED vars
  BY <1>6 DEF vars
<1> QED
  BY <1>1, <1>2, <1>3, <1>4, <1>5, <1>6 DEF Next

\* Every reachable state of the lock is well typed; in particular a lock file is
\* open only in the session that is about to write its pid.
THEOREM LockTypeCorrect == Spec => []TypeOK
  BY LockTypeInit, LockTypeStep, PTL DEF Spec

-----------------------------------------------------------------------------
(***************************************************************************)
(* A settled holder                                                        *)
(***************************************************************************)

\* The step of another session leaves a settled holder settled, unless that
\* session fails to read its lock file.
LEMMA OthersKeepSettled ==
  ASSUME TypeOK, NEW h \in Process, Settled(h), NEW p \in Process, p # h,
         \/ Enter(p) \/ Inspect(p) \/ Read(p) \/ ReadFails(p) \/ Refuse(p) \/ FindStale(p)
         \/ RemoveStale(p) \/ Create(p) \/ Write(p) \/ Fail(p)
         \/ Release(p) \/ ReleaseLeavesFile(p) \/ Exit(p) \/ Reassign(p)
  PROVE  Settled(h)' \/ Unread(h)
<1> USE DEF TypeOK, Settled, Goto
<1>0. Running(h)
  BY DEF Running
<1>1. CASE Enter(p) \/ Refuse(p) \/ ReleaseLeavesFile(p) \/ Exit(p) \/ Reassign(p)
  BY <1>1 DEF Enter, Refuse, ReleaseLeavesFile, Exit, Reassign
<1>2. CASE Inspect(p) \/ Read(p)
  BY <1>2 DEF Inspect, Read
<1>3. CASE FindStale(p)
  BY <1>0, <1>3 DEF FindStale, Blocked, IsProcessRunning
<1>4. CASE RemoveStale(p) \/ Release(p)
  BY <1>4 DEF RemoveStale, Release, Unlink
<1>5. CASE Create(p) \/ Write(p) \/ Fail(p)
  BY <1>5 DEF Create, Write, Fail
<1>6. CASE ReadFails(p)
  <2>1. CASE Cwd[p] = Cwd[h]
    BY <1>6, <2>1 DEF Unread
  <2>2. CASE Cwd[p] # Cwd[h]
    BY <1>6, <2>2 DEF ReadFails
  <2> QED
    BY <2>1, <2>2
<1> QED
  BY <1>1, <1>2, <1>3, <1>4, <1>5, <1>6

\* The holder itself either does not move, or stops holding.
LEMMA HolderLeaves ==
  ASSUME TypeOK, NEW h \in Process, Settled(h),
         \/ Enter(h) \/ Inspect(h) \/ Read(h) \/ ReadFails(h) \/ Refuse(h) \/ FindStale(h)
         \/ RemoveStale(h) \/ Create(h) \/ Write(h) \/ Fail(h)
         \/ Release(h) \/ ReleaseLeavesFile(h) \/ Exit(h) \/ Reassign(h)
  PROVE  pc'[h] # "held"
  BY DEF TypeOK, Settled, Goto, Enter, Inspect, Read, ReadFails, Refuse, FindStale,
         RemoveStale, Create, Write, Fail, Release, ReleaseLeavesFile, Exit, Reassign

\* However many sessions start, overlap, fail, die and take over pids: once the
\* lock file names its holder and no one is past being refused, the holder keeps
\* the lock to itself until it lets go, or another session cannot read the file.
THEOREM SettledHolderIsSafe == Spec => SettledHolderKeepsLock
<1>1. ASSUME TypeOK, [Next]_vars
      PROVE  [SettledKept]_vars
  <2>1. ASSUME Next, NEW h \in Process, Settled(h)
        PROVE  Settled(h)' \/ pc'[h] # "held" \/ Unread(h)
    BY <1>1, <2>1, OthersKeepSettled, HolderLeaves DEF Next
  <2>2. Next => SettledKept
    BY <2>1 DEF SettledKept
  <2> QED
    BY <1>1, <2>2
<1> QED
  BY LockTypeInit, LockTypeStep, <1>1, PTL DEF Spec, SettledHolderKeepsLock

-----------------------------------------------------------------------------
(***************************************************************************)
(* Sessions that start one after the other                                 *)
(***************************************************************************)

\* One session acquires at a time; it has read the holder's pid before it is
\* past being refused; the file it creates stays at the path until it writes.
TurnsInv ==
  /\ \A p, q \in Process : pc[p] \in Acquiring /\ pc[q] \in Acquiring => p = q
  /\ \A p \in Process : pc[p] = "write" => p \in linked
  /\ HolderIsNamed
  /\ Exclusive
  /\ \A p, q \in Process : pc[q] = "held" /\ Cwd[p] = Cwd[q] =>
       /\ pc[p] \notin {"remove", "create", "write"}
       /\ pc[p] = "probe" => seen[p] = q

SequentialInv == world.sequential /\ ~world.readFails => TurnsInv

\* Sessions taking turns at Acquire keep the exclusion invariant.
LEMMA SequentialStep == TypeOK /\ SequentialInv /\ [Next]_vars => SequentialInv'
<1> SUFFICES ASSUME TypeOK, SequentialInv, [Next]_vars, world'.sequential,
                    ~world'.readFails
             PROVE  TurnsInv'
  BY DEF SequentialInv
<1>0. world' = world /\ world.sequential /\ ~world.readFails /\ TurnsInv
  BY DEF Next, vars, SequentialInv
<1> USE DEF TypeOK, TurnsInv, HolderIsNamed, Exclusive, Goto, Acquiring
<1>1. ASSUME NEW p \in Process, Enter(p) PROVE TurnsInv'
  BY <1>0, <1>1 DEF Enter
<1>2. ASSUME NEW p \in Process, Inspect(p) PROVE TurnsInv'
  BY <1>0, <1>2 DEF Inspect
<1>3. ASSUME NEW p \in Process, Read(p) \/ ReadFails(p) PROVE TurnsInv'
  BY <1>0, <1>3 DEF Read, ReadFails
<1>4. ASSUME NEW p \in Process,
             \/ Refuse(p) \/ Fail(p) \/ ReleaseLeavesFile(p) \/ Exit(p) \/ Reassign(p)
      PROVE  TurnsInv'
  BY <1>0, <1>4 DEF Refuse, Fail, ReleaseLeavesFile, Exit, Reassign
<1>5. ASSUME NEW p \in Process, FindStale(p) PROVE TurnsInv'
  BY <1>0, <1>5 DEF FindStale, Blocked, IsProcessRunning, Running
<1>6. ASSUME NEW p \in Process, RemoveStale(p) PROVE TurnsInv'
  BY <1>0, <1>6 DEF RemoveStale, Unlink
<1>7. ASSUME NEW p \in Process, Create(p) PROVE TurnsInv'
  BY <1>0, <1>7 DEF Create
<1>8. ASSUME NEW p \in Process, Write(p) PROVE TurnsInv'
  BY <1>0, <1>8 DEF Write, Closed
<1>9. ASSUME NEW p \in Process, Release(p) PROVE TurnsInv'
  BY <1>0, <1>9 DEF Release, Unlink
<1>10. CASE UNCHANGED vars
  BY <1>0, <1>10 DEF vars
<1> QED
  BY <1>1, <1>2, <1>3, <1>4, <1>5, <1>6, <1>7, <1>8, <1>9, <1>10 DEF Next

\* No session has a lock at the start.
LEMMA SequentialInit == Init => SequentialInv
  BY DEF Init, SequentialInv, TurnsInv, HolderIsNamed, Exclusive, Acquiring

\* Sessions that do not start while another is taking its lock, and can read the
\* lock files they find, never run a camera of one directory together, even when
\* pids are reused and lock files cannot be removed.
THEOREM SequentialSessionsExclude == Spec => []MutualExclusion
<1>1. SequentialInv => MutualExclusion
  BY DEF SequentialInv, TurnsInv, MutualExclusion
<1> QED
  BY LockTypeInit, LockTypeStep, SequentialInit, SequentialStep, <1>1, PTL DEF Spec

-----------------------------------------------------------------------------
(***************************************************************************)
(* No session stands in its own way                                        *)
(***************************************************************************)

\* The worlds in which a pid in a lock file can be told from its owner's next run.
Orderly == world.sequential /\ ~world.pidReuse /\ ~world.removeFails

\* The pid in a lock file is that of its holder or of a session that is gone.
FileIsOwned ==
  Orderly => \A d \in Directory : file[d] \in Process =>
    pc[file[d]] = "gone" \/ (pc[file[d]] = "held" /\ Cwd[file[d]] = d)

\* Every step keeps it, and no session reads its own pid.
LEMMA OwnedStep ==
  TypeOK /\ FileIsOwned /\ NoSelfBlock /\ [Next]_vars
    => FileIsOwned' /\ NoSelfBlock'
<1> SUFFICES ASSUME TypeOK, FileIsOwned, NoSelfBlock, [Next]_vars, Orderly'
             PROVE  FileIsOwned' /\ NoSelfBlock'
  BY DEF FileIsOwned, NoSelfBlock, Orderly
<1>0. world' = world /\ Orderly
  BY DEF Next, vars, Orderly
<1> USE DEF TypeOK, FileIsOwned, NoSelfBlock, Orderly, Goto, Text
<1>1. ASSUME NEW p \in Process, Enter(p) \/ Refuse(p) \/ FindStale(p)
      PROVE  FileIsOwned' /\ NoSelfBlock'
  BY <1>0, <1>1 DEF Enter, Refuse, FindStale
<1>2. ASSUME NEW p \in Process, Inspect(p) PROVE FileIsOwned' /\ NoSelfBlock'
  BY <1>0, <1>2 DEF Inspect
<1>3. ASSUME NEW p \in Process, Read(p) \/ ReadFails(p)
      PROVE  FileIsOwned' /\ NoSelfBlock'
  BY <1>0, <1>3, LockAssumption DEF Read, ReadFails
<1>4. ASSUME NEW p \in Process, RemoveStale(p) \/ Release(p)
      PROVE  FileIsOwned' /\ NoSelfBlock'
  BY <1>0, <1>4 DEF RemoveStale, Release, Unlink
<1>5. ASSUME NEW p \in Process, Create(p) PROVE FileIsOwned' /\ NoSelfBlock'
  BY <1>0, <1>5 DEF Create
<1>6. ASSUME NEW p \in Process, Write(p) PROVE FileIsOwned' /\ NoSelfBlock'
  BY <1>0, <1>6 DEF Write
<1>7. ASSUME NEW p \in Process, Fail(p) PROVE FileIsOwned' /\ NoSelfBlock'
  BY <1>0, <1>7 DEF Fail
<1>8. ASSUME NEW p \in Process, ReleaseLeavesFile(p) \/ Reassign(p)
      PROVE  FileIsOwned' /\ NoSelfBlock'
  BY <1>0, <1>8 DEF ReleaseLeavesFile, Reassign
<1>9. ASSUME NEW p \in Process, Exit(p) PROVE FileIsOwned' /\ NoSelfBlock'
  BY <1>0, <1>9 DEF Exit
<1>10. CASE UNCHANGED vars
  BY <1>10 DEF vars
<1> QED
  BY <1>1, <1>2, <1>3, <1>4, <1>5, <1>6, <1>7, <1>8, <1>9, <1>10 DEF Next

\* As long as sessions take turns, pids stay with their sessions and files can be
\* removed, a session that starts its next run is not refused by its last one.
THEOREM OwnLockNeverBlocks == Spec => []NoSelfBlock
<1>1. Init => FileIsOwned /\ NoSelfBlock
  BY DEF Init, FileIsOwned, NoSelfBlock
<1> QED
  BY LockTypeInit, LockTypeStep, OwnedStep, <1>1, PTL DEF Spec
=============================================================================
