----------------------------- MODULE MCRunLock -----------------------------
(***************************************************************************)
(* RunLock for TLC.                                                        *)
(*                                                                         *)
(*   MCLock              three sessions of one directory in every world:   *)
(*                       taking turns or overlapping at every system call, *)
(*                       with and without reused pids, files that cannot   *)
(*                       be removed and files that cannot be read          *)
(*   MCLockClaimOverlap  two sessions, against the text of cli/README.md   *)
(***************************************************************************)
EXTENDS RunLock

CONSTANTS p1, p2, p3, d1

OneDirectory == [p \in Process |-> d1]

AllWorlds == [sequential : BOOLEAN, pidReuse : BOOLEAN, removeFails : BOOLEAN,
              readFails : BOOLEAN]
PlainOverlap == {[sequential |-> FALSE, pidReuse |-> FALSE, removeFails |-> FALSE,
                  readFails |-> FALSE]}
=============================================================================
