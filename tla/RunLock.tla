------------------------------ MODULE RunLock ------------------------------
(***************************************************************************)
(* The single-run lock of camera runs: ScopedSingleRunLock of              *)
(* src/src/labops/cli/router.cpp, taken by PrepareRunContext and released  *)
(* when the run's context goes out of scope.                               *)
(*                                                                         *)
(* The lock is the file tmp/labops.lock under the working directory, with  *)
(* the owner's pid as its text.  Every system call of Acquire is a step of *)
(* its own.  A process is named by its pid.                                *)
(***************************************************************************)
CONSTANTS
  Process,     \* the pids labops sessions run under
  Directory,   \* working directories
  Cwd,         \* the working directory of each session
  Worlds       \* what sessions may meet, one of:
               \*   sequential   operators start no session while another takes its lock
               \*   pidReuse     a pid may be given out again once its process is gone
               \*   removeFails  the system may refuse to remove the file on release
               \*   readFails    a lock file that exists may be one the session cannot read

ASSUME LockAssumption ==
  /\ Cwd \in [Process -> Directory]
  /\ Worlds \subseteq [sequential : BOOLEAN, pidReuse : BOOLEAN, removeFails : BOOLEAN,
                       readFails : BOOLEAN]
  /\ {"none", "empty"} \cap Process = {}

VARIABLES
  world,     \* the member of Worlds the sessions run in
  pc,        \* the next system call of each session
  file,      \* the text of each directory's lock file: a pid, "empty" or "none"
  linked,    \* sessions whose open lock file is still the one at the path
  seen,      \* the text a session read
  strangers  \* pids held by programs that are not labops

vars == <<world, pc, file, linked, seen, strangers>>

Text == Process \cup {"none", "empty"}

Acquiring == {"inspect", "read", "probe", "remove", "create", "write"}

Init ==
  /\ world \in Worlds
  /\ pc = [p \in Process |-> "new"]
  /\ file = [d \in Directory |-> "none"]
  /\ linked = {}
  /\ seen = [p \in Process |-> "none"]
  /\ strangers = {}

Running(p) == pc[p] \notin {"new", "gone"}

Goto(p, where) == pc' = [pc EXCEPT ![p] = where]

\* Removing the path: every stream open on the old file writes to no one.
Unlink(d) ==
  /\ file' = [file EXCEPT ![d] = "none"]
  /\ linked' = {p \in linked : Cwd[p] # d}

-----------------------------------------------------------------------------
(***************************************************************************)
(* Acquire                                                                 *)
(***************************************************************************)

\* A session starts, or the agent in a running one begins its next run.
Enter(p) ==
  /\ pc[p] \in {"new", "idle"} \/ (world.pidReuse /\ pc[p] = "gone" /\ p \notin strangers)
  /\ world.sequential => \A q \in Process : pc[q] \notin Acquiring
  /\ Goto(p, "inspect")
  /\ UNCHANGED <<file, linked, seen, strangers>>

\* fs::exists
Inspect(p) ==
  /\ pc[p] = "inspect"
  /\ Goto(p, IF file[Cwd[p]] = "none" THEN "create" ELSE "read")
  /\ UNCHANGED <<file, linked, seen, strangers>>

\* getline; a file that is gone by now reads as no text
Read(p) ==
  /\ pc[p] = "read"
  /\ seen' = [seen EXCEPT ![p] = file[Cwd[p]]]
  /\ Goto(p, "probe")
  /\ UNCHANGED <<file, linked, strangers>>

\* The stream does not open, or getline fails: no error is raised, and a file that
\* is there reads as no text, too.
ReadFails(p) ==
  /\ world.readFails
  /\ pc[p] = "read"
  /\ seen' = [seen EXCEPT ![p] = "none"]
  /\ Goto(p, "probe")
  /\ UNCHANGED <<file, linked, strangers>>

\* Broken form: kill(pid, 0) fails with EPERM, which is taken for no such process,
\* and the sessions belong to different users.
NobodyRunning(q) == FALSE

\* kill(pid, 0): the asking process itself is running, too.
IsProcessRunning(q) == Running(q) \/ q \in strangers

\* A text that is no pid names nobody.
Blocked(p) == seen[p] \in Process /\ IsProcessRunning(seen[p])

\* Acquire fails, and with it the run; an agent session goes on.
Refuse(p) ==
  /\ pc[p] = "probe"
  /\ Blocked(p)
  /\ Goto(p, "idle")
  /\ UNCHANGED <<file, linked, seen, strangers>>

FindStale(p) ==
  /\ pc[p] = "probe"
  /\ ~Blocked(p)
  /\ Goto(p, "remove")
  /\ UNCHANGED <<file, linked, seen, strangers>>

\* fs::remove of whatever is at the path by now
RemoveStale(p) ==
  /\ pc[p] = "remove"
  /\ Unlink(Cwd[p])
  /\ Goto(p, "create")
  /\ UNCHANGED <<seen, strangers>>

\* open with trunc, not exclusive: an existing file is emptied and shared
Create(p) ==
  /\ pc[p] = "create"
  /\ file' = [file EXCEPT ![Cwd[p]] = "empty"]
  /\ linked' = linked \cup {p}
  /\ Goto(p, "write")
  /\ UNCHANGED <<seen, strangers>>

\* Broken form: the stream is not closed.
StillOpen(p) == linked

Closed(p) == linked \ {p}

\* The pid is flushed and the lock is taken.
Write(p) ==
  /\ pc[p] = "write"
  /\ file' = IF p \in linked THEN [file EXCEPT ![Cwd[p]] = p] ELSE file
  /\ linked' = Closed(p)
  /\ Goto(p, "held")
  /\ UNCHANGED <<seen, strangers>>

\* A system call of Acquire fails, and with it the run.
Fail(p) ==
  /\ pc[p] \in {"inspect", "remove", "create", "write"}
  /\ linked' = linked \ {p}
  /\ Goto(p, "idle")
  /\ UNCHANGED <<file, seen, strangers>>

-----------------------------------------------------------------------------
(***************************************************************************)
(* Release and exit                                                        *)
(***************************************************************************)

\* Broken forms: acquired_ is not tested; the file is not removed.
ReleaseUntested(p) ==
  /\ pc[p] \in {"held", "idle"}
  /\ Unlink(Cwd[p])
  /\ Goto(p, "idle")
  /\ UNCHANGED <<seen, strangers>>
ReleaseInMemory(p) ==
  /\ pc[p] = "held"
  /\ Goto(p, "idle")
  /\ UNCHANGED <<file, linked, seen, strangers>>

\* The path is removed, whoever's pid it holds.
Release(p) ==
  /\ pc[p] = "held"
  /\ Unlink(Cwd[p])
  /\ Goto(p, "idle")
  /\ UNCHANGED <<seen, strangers>>

\* The error of fs::remove is dropped: the session no longer holds the lock, and
\* its pid stays in the file.
ReleaseLeavesFile(p) ==
  /\ world.removeFails
  /\ pc[p] = "held"
  /\ Goto(p, "idle")
  /\ UNCHANGED <<file, linked, seen, strangers>>

\* A normal end, or a death: the file stays as it is.
Exit(p) ==
  /\ Running(p)
  /\ Goto(p, "gone")
  /\ linked' = linked \ {p}
  /\ seen' = [seen EXCEPT ![p] = "none"]
  /\ UNCHANGED <<file, strangers>>

\* Another program is given the pid of a session that is gone, or ends.
Reassign(p) ==
  /\ world.pidReuse
  /\ pc[p] = "gone"
  /\ strangers' = IF p \in strangers THEN strangers \ {p} ELSE strangers \cup {p}
  /\ UNCHANGED <<pc, file, linked, seen>>

Next ==
  /\ UNCHANGED world
  /\ \E p \in Process :
       \/ Enter(p) \/ Inspect(p) \/ Read(p) \/ ReadFails(p) \/ Refuse(p)
       \/ FindStale(p) \/ RemoveStale(p) \/ Create(p) \/ Write(p) \/ Fail(p)
       \/ Release(p) \/ ReleaseLeavesFile(p) \/ Exit(p) \/ Reassign(p)

Spec == Init /\ [][Next]_vars

-----------------------------------------------------------------------------
(***************************************************************************)
(* Properties                                                              *)
(***************************************************************************)

\* Every variable keeps its type; a lock file is open only to write the pid.
TypeOK ==
  /\ world \in Worlds
  /\ pc \in [Process -> Acquiring \cup {"new", "held", "idle", "gone"}]
  /\ file \in [Directory -> Text]
  /\ linked \subseteq {p \in Process : pc[p] = "write"}
  /\ seen \in [Process -> Text]
  /\ strangers \subseteq {p \in Process : pc[p] = "gone"}

\* Two sessions of one working directory never run a camera at the same time.
Exclusive ==
  \A p, q \in Process :
    p # q /\ pc[p] = "held" /\ pc[q] = "held" => Cwd[p] # Cwd[q]

\* The lock file names the session that holds the lock for as long as it holds
\* it: no refused, failed or dead session takes it away.
HolderIsNamed == \A p \in Process : pc[p] = "held" => file[Cwd[p]] = p

\* Sessions that take their locks one after the other exclude each other,
\* wherever a session dies, whoever is given its pid and whatever file it leaves,
\* as long as each can read the file it finds: Acquire takes a lock file it cannot
\* read for a stale one.
MutualExclusion == world.sequential /\ ~world.readFails => Exclusive

\* A session that has released its lock is never refused on its own account, as
\* long as releasing removes the file and no pid comes back.
NoSelfBlock ==
  world.sequential /\ ~world.pidReuse /\ ~world.removeFails =>
    \A p \in Process : pc[p] = "probe" => seen[p] # p

\* p holds the lock, its file says so, and nobody is past the point of being
\* refused.
Settled(p) ==
  /\ pc[p] = "held"
  /\ file[Cwd[p]] = p
  /\ \A q \in Process \ {p} : Cwd[q] = Cwd[p] =>
       /\ pc[q] \notin {"remove", "create", "write", "held"}
       /\ pc[q] = "probe" => seen[q] = p

\* Another session of p's directory fails to read the lock file.
Unread(p) == \E q \in Process \ {p} : Cwd[q] = Cwd[p] /\ ReadFails(q)

SettledKept ==
  \A p \in Process : Settled(p) => Settled(p)' \/ pc'[p] # "held" \/ Unread(p)

\* However sessions overlap, a holder that has once settled keeps the lock to
\* itself until it releases it or dies; nothing else unsettles it but a session
\* that cannot read its lock file, and so takes it for stale.
SettledHolderKeepsLock == [][SettledKept]_vars
=============================================================================
