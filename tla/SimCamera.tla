----------------------------- MODULE SimCamera -----------------------------
(***************************************************************************)
(* The simulated camera: src/src/backends/sim/sim_camera_backend.cpp and   *)
(* scenario_config.cpp.                                                    *)
(*                                                                         *)
(* A pull delivers the frames of a span of time, all at once.  What they   *)
(* are follows from the scenario's knobs, the number the camera has        *)
(* reached and a hash of the seed and the number.  The hash (SplitMix64    *)
(* under three salts) is a parameter: nothing below depends on its values. *)
(*                                                                         *)
(* Spans are in milliseconds, time stamps in microseconds.                 *)
(***************************************************************************)
EXTENDS CaptureTime

CONSTANTS
  DropMix(_, _),  \* the hash of a seed and a frame id, salted for drops
  JitterMix(_, _),
  OrderMix(_, _),
  Defaults,       \* the knobs of a new backend
  Configs         \* scenario knobs: fps, jitter, size, every, percent, burst,
                  \* reorder, seed

ASSUME SimAssumption ==
  \A c \in Configs \cup {Defaults} :
    {c.fps, c.jitter, c.size, c.every, c.percent, c.burst, c.reorder, c.seed} \subseteq Nat

VARIABLES
  cam,  \* connected, running, the next frame's id, the start of the stream
  cfg   \* the backend's parameters

Off == [connected |-> FALSE, running |-> FALSE, next |-> 0, start |-> 0]

-----------------------------------------------------------------------------
(***************************************************************************)
(* Session                                                                 *)
(***************************************************************************)

\* ApplyScenarioConfig refuses a percentage above 100 before any knob is set.
ApplyScenarioConfig(c) ==
  /\ c.percent <= 100
  /\ cfg' = c

\* Connect, then Start at wall-clock time t: numbering begins again at 0.
OpenAt(t) ==
  /\ ~cam.connected
  /\ cam' = [connected |-> TRUE, running |-> TRUE, next |-> 0, start |-> t]

\* A value of 0 is no rate and no size: every pull fails.
Usable == cfg.fps > 0 /\ cfg.size > 0 /\ cfg.percent <= 100

-----------------------------------------------------------------------------
(***************************************************************************)
(* PullFrames                                                              *)
(***************************************************************************)

\* Broken form: the fraction is rounded up.
FrameCountUp(span) == (span * cfg.fps + Second - 1) \div Second

FrameCount(span) == (span * cfg.fps) \div Second

\* The period is cut to whole microseconds here, to whole nanoseconds in the code.
Period == LET p == Window \div cfg.fps IN IF p < 1 THEN 1 ELSE p

Jitter(id) ==
  IF cfg.jitter = 0 THEN 0
  ELSE (JitterMix(cfg.seed, id) % (2 * cfg.jitter + 1)) - cfg.jitter

\* A periodic slot or a hit of the drop percentage.
Trigger(id) ==
  \/ cfg.every > 0 /\ (id + 1) % cfg.every = 0
  \/ DropMix(cfg.seed, id) % 100 < cfg.percent

\* Drops owed after the first i frames of a pull that starts at `first`.
Owed(first, n) ==
  LET owed[i \in 0 .. n] ==
        IF i = 0 THEN 0
        ELSE LET due == IF Trigger(first + i - 1) /\ cfg.burst > owed[i - 1]
                        THEN cfg.burst ELSE owed[i - 1]
             IN  IF due > 0 THEN due - 1 ELSE 0
  IN  owed

\* Time stamps of a pull: a frame that jitter would put at or before the one ahead
\* of it is a microsecond after it instead.
Stamps(first, n) ==
  LET raw(id) == cam.start + Period * id + Jitter(id)
      stamp[i \in 0 .. n] ==
        IF i = 0 THEN 0
        ELSE IF i > 1 /\ raw(first + i - 1) <= stamp[i - 1] THEN stamp[i - 1] + 1
        ELSE raw(first + i - 1)
  IN  stamp

Generated(first, n) ==
  LET owed  == Owed(first, n)
      stamp == Stamps(first, n)
  IN  [i \in 1 .. n |->
         LET id   == first + i - 1
             lost == Trigger(id) \/ owed[i - 1] > 0
         IN  [id |-> id, ts |-> stamp[i], size |-> IF lost THEN 0 ELSE cfg.size,
              outcome |-> IF lost THEN "dropped" ELSE "received"]]

\* Frame j leaves before frame i: from an earlier window of `reorder` frames, or from
\* the same one, which is sorted by hash.
Before(fs, j, i) ==
  LET window(k) == (k - 1) \div cfg.reorder
      key(k) == OrderMix(cfg.seed, fs[k].id)
  IN  \/ window(j) < window(i)
      \/ window(j) = window(i) /\ key(j) < key(i)
      \/ window(j) = window(i) /\ key(j) = key(i) /\ fs[j].id < fs[i].id

Reordered(fs) ==
  IF cfg.reorder <= 1 THEN fs
  ELSE LET at == Arranged(DOMAIN fs, {p \in (DOMAIN fs) \X (DOMAIN fs) : Before(fs, p[1], p[2])})
       IN  [p \in DOMAIN fs |-> fs[at[p]]]

\* The frames of a pull.
Delivered(span) == Reordered(Generated(cam.next, FrameCount(span)))

PullFrames(span) == cam' = [cam EXCEPT !.next = @ + FrameCount(span)]
=============================================================================
