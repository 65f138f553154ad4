----------------------------- MODULE RealCamera -----------------------------
(***************************************************************************)
(* The real camera's backend of the open build:                            *)
(* src/src/backends/real_sdk/real_backend.cpp with its stream session,     *)
(* acquisition loop and frame provider.                                    *)
(*                                                                         *)
(* The vendor's stream is a schedule: a pull delivers the frames of its    *)
(* span, each of them received, incomplete or timed out by a hash of its   *)
(* id.  The hash and the percentages are parameters.                       *)
(***************************************************************************)
EXTENDS CaptureTime, SdkContext

CONSTANTS
  OutcomeMix(_),      \* hash of a frame id, 0 .. 99
  TimeoutPercent,
  IncompletePercent,
  PayloadSize,
  RateNode,           \* the node whose value is the frame rate
  DefaultRate         \* 30

ASSUME RealAssumption ==
  /\ TimeoutPercent \in 0 .. 100
  /\ IncompletePercent \in 0 .. 100
  /\ PayloadSize \in Nat \ {0}
  /\ DefaultRate \in Nat \ {0}
  /\ {"backend", "discovery"} \subseteq Handles

VARIABLES
  real,   \* connected, running, latched, next frame id, stream start, pull calls
  params  \* the parameters the backend was given, by node

RealOff == [connected |-> FALSE, running |-> FALSE, latched |-> FALSE,
            next |-> 0, start |-> 0, pulls |-> 0]

\* Connect, then Start at wall-clock time t.  The schedule begins at the first
\* Start and goes on at a later one; a latched disconnect refuses the connection.
CanConnect == ~real.connected /\ ~real.latched

OpenReal(t) ==
  /\ CanConnect
  /\ AcquireSdk("backend")
  /\ real' = [real EXCEPT !.connected = TRUE, !.running = TRUE,
                          !.start = IF real.next = 0 THEN t ELSE @]

\* Broken form: an error path that forgets the handle.
DestroyRealLeaks ==
  /\ real' = RealOff
  /\ UNCHANGED <<sdk, holders>>

\* The backend's destructor: the session stops and the handle is released.
DestroyReal ==
  /\ real' = RealOff
  /\ ReleaseSdk("backend")

FrameRate == IF RateNode \in DOMAIN params THEN params[RateNode].at ELSE DefaultRate

RealCount(span) == (span * FrameRate) \div Second

\* Rounded to whole microseconds here, to whole nanoseconds in the code.
RealPeriod ==
  LET p == (Window + FrameRate \div 2) \div FrameRate IN IF p < 1 THEN 1 ELSE p

\* Timeouts and incomplete frames share one scale of 100.
RealOutcome(id) ==
  IF OutcomeMix(id) < TimeoutPercent THEN "timeout"
  ELSE IF OutcomeMix(id) < TimeoutPercent + IncompletePercent THEN "incomplete"
  ELSE "received"

RealSize(outcome) ==
  CASE outcome = "timeout" -> 0
    [] outcome = "incomplete" -> IF PayloadSize < 4 THEN 1 ELSE PayloadSize \div 4
    [] outcome = "received" -> PayloadSize

\* RunAcquisitionLoop.
RealFrames(span) ==
  [i \in 1 .. RealCount(span) |->
     LET id == real.next + i - 1
     IN  [id |-> id, ts |-> real.start + RealPeriod * id,
          outcome |-> RealOutcome(id), size |-> RealSize(RealOutcome(id))]]

\* LABOPS_REAL_DISCONNECT_AFTER_PULLS: the device goes at this pull and stays away.
Disconnects(after) == after > 0 /\ real.pulls + 1 >= after

PullReal(span) ==
  real' = [real EXCEPT !.pulls = @ + 1, !.next = @ + RealCount(span)]
=============================================================================
