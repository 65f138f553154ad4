----------------------------- MODULE MCSoakRun -----------------------------
(***************************************************************************)
(* SoakRun for TLC.  The configurations beside this module choose a fault  *)
(* model:                                                                  *)
(*                                                                         *)
(*   MCSoakCrash     deaths and failed writes, on a file system that keeps *)
(*                   what was written and renames over existing files      *)
(*   MCSoakFallback  every fault of the model, remove+rename publishing,   *)
(*                   operators who resume from any checkpoint file         *)
(*   MCSoakClaim...  the smallest fault that refutes a claim below         *)
(***************************************************************************)
EXTENDS SoakRun

(***************************************************************************)
(* Claims of the repository's texts that the code does not keep; each is   *)
(* the property of a run that TLC refutes.                                 *)
(***************************************************************************)

\* A stop request ends in a safe pause (ProjectDesc.md, cli/README.md): a run
\* that met no fault does not fail.
NoFailureWithoutFault == outcome = "failed" => faults > 0

\* Resuming is deterministic (ProjectDesc.md): a resumed run, after a death too,
\* claims no more frames than an uninterrupted run can capture.
ResumeKeepsRate == latest.frames <= Rate * latest.completed
=============================================================================
