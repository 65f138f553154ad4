---------------------------- MODULE CaptureTime ----------------------------
(***************************************************************************)
(* The units of a run's clock: std::chrono of the backends and metrics,    *)
(* scaled down for model checking.                                         *)
(***************************************************************************)
EXTENDS Arrangement

CONSTANTS
  Second,  \* milliseconds in a second
  Micro    \* microseconds in a millisecond

ASSUME CaptureTimeAssumption == Second \in Nat \ {0} /\ Micro \in Nat \ {0}

\* Microseconds in a second.
Window == Second * Micro
=============================================================================
