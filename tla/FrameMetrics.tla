---------------------------- MODULE FrameMetrics ----------------------------
(***************************************************************************)
(* What a run's frames are summed up to: src/src/metrics/fps.cpp,          *)
(* metrics/anomalies.cpp and EvaluateRunThresholds of                      *)
(* labops/cli/router.cpp.                                                  *)
(*                                                                         *)
(* Ratios are kept as integers: a rate per window as the count in it, an   *)
(* average as a sum and a number of samples, jitter times the number of    *)
(* intervals.  The comparisons are those of the code, multiplied out; its  *)
(* tolerance of 1e-9 is left out.                                          *)
(***************************************************************************)
EXTENDS CaptureTime

CONSTANTS
  FewSamples,    \* samples below which no spike and no cliff is looked for (10)
  FewerSamples,  \* samples below which no stall is looked for (20)
  StallGap       \* the least distance of two stalls, in milliseconds (200)

Distance(a, b) == IF a < b THEN b - a ELSE a - b
Larger(a, b) == IF a < b THEN b ELSE a

Smallest(s) == CHOOSE x \in {s[i] : i \in DOMAIN s} : \A i \in DOMAIN s : x <= s[i]
Largest(s) == CHOOSE x \in {s[i] : i \in DOMAIN s} : \A i \in DOMAIN s : s[i] <= x

Total(s) ==
  LET sum[i \in 0 .. Len(s)] == IF i = 0 THEN 0 ELSE sum[i - 1] + s[i]
  IN  sum[Len(s)]

-----------------------------------------------------------------------------
(***************************************************************************)
(* ComputeFpsReport                                                        *)
(***************************************************************************)

Tally(frames, outcome) == Cardinality({i \in DOMAIN frames : frames[i].outcome = outcome})

\* Time stamps of the received frames in increasing order.
Received(frames) ==
  LET kept == Kept(frames, {i \in DOMAIN frames : frames[i].outcome = "received"})
  IN  Sorted([i \in DOMAIN kept |-> kept[i].ts])

\* Broken form: a sample on the edge of the window leaves it.
LeftEndStrict(ts) ==
  LET left[r \in 0 .. Len(ts)] ==
        IF r = 0 THEN 1
        ELSE CHOOSE l \in left[r - 1] .. r :
               /\ l = r \/ ts[l] > ts[r] - Window
               /\ \A k \in left[r - 1] .. l - 1 : ts[k] <= ts[r] - Window
  IN  left

\* The left end of the window that ends at each sample, moved up from the last one.
LeftEnd(ts) ==
  LET left[r \in 0 .. Len(ts)] ==
        IF r = 0 THEN 1
        ELSE CHOOSE l \in left[r - 1] .. r :
               /\ l = r \/ ts[l] >= ts[r] - Window
               /\ \A k \in left[r - 1] .. l - 1 : ts[k] < ts[r] - Window
  IN  left

\* Frames in the second, the rolling window, that ends at each received frame.
Rolling(ts) == LET left == LeftEnd(ts) IN [r \in DOMAIN ts |-> r - left[r] + 1]

\* The nearest-rank 95th percentile.
P95(s) == Sorted(s)[(95 * Len(s) + 99) \div 100]

NoStats == [n |-> 0, sum |-> 0, p95 |-> 0]

Stats(s) == IF s = <<>> THEN NoStats ELSE [n |-> Len(s), sum |-> Total(s), p95 |-> P95(s)]

Intervals(ts) == [i \in 1 .. Len(ts) - 1 |-> ts[i + 1] - ts[i]]

\* Distances of the intervals from their average, times the number of intervals.
Jitters(gaps) == [i \in DOMAIN gaps |-> Distance(gaps[i] * Len(gaps), Total(gaps))]

Report(frames, duration) ==
  LET ts   == Received(frames)
      gaps == IF Len(ts) < 2 THEN <<>> ELSE Intervals(ts)
  IN  [total |-> Len(frames), received |-> Len(ts), duration |-> duration,
       generic |-> Tally(frames, "dropped"), timeout |-> Tally(frames, "timeout"),
       incomplete |-> Tally(frames, "incomplete"),
       dropped |-> Cardinality({i \in DOMAIN frames : frames[i].outcome # "received"}),
       ends |-> ts, rolling |-> Rolling(ts),
       interval |-> Stats(gaps), jitter |-> Stats(Jitters(gaps))]

-----------------------------------------------------------------------------
(***************************************************************************)
(* EvaluateRunThresholds                                                   *)
(***************************************************************************)

\* A threshold that is not set is -1.
Set(limit) == limit >= 0

\* The failures in the order they are appended; no disconnect is ever counted.
Failures(t, r) ==
  (IF Set(t.minFps) /\ r.received * Second < t.minFps * r.duration
   THEN <<"avg_fps">> ELSE <<>>) \o
  (IF Set(t.maxDrop) /\ r.dropped * 100 > t.maxDrop * r.total
   THEN <<"drop_rate">> ELSE <<>>) \o
  (IF Set(t.maxInterval) /\ r.interval.p95 > t.maxInterval
   THEN <<"interval_p95">> ELSE <<>>) \o
  (IF Set(t.maxJitter) /\ r.jitter.p95 > t.maxJitter * r.interval.n
   THEN <<"jitter_p95">> ELSE <<>>)

-----------------------------------------------------------------------------
(***************************************************************************)
(* BuildAnomalyHighlights                                                  *)
(***************************************************************************)

\* Twice the median of the rolling counts.
DoubleMedian(s) ==
  LET o == Sorted(s)
      m == Len(s) \div 2
  IN  IF Len(s) % 2 = 0 THEN o[m] + o[m + 1] ELSE 2 * o[m + 1]

\* Drops, or jitter whose 95th percentile is 2.5 times its average.
FaultSigns(r) ==
  \/ r.dropped > 0
  \/ r.jitter.sum > 0 /\ 2 * r.jitter.p95 * r.jitter.n >= 5 * r.jitter.sum

\* A peak of 1.7 times the median, or of 1.4 times the configured rate.
ResendSpike(r, fps) ==
  /\ Len(r.rolling) >= FewSamples
  /\ \/ 20 * Largest(r.rolling) >= 17 * DoubleMedian(r.rolling)
     \/ fps > 0 /\ 10 * Largest(r.rolling) >= 14 * fps
  /\ FaultSigns(r)

\* A 95th percentile of 4 times the average, and of 2 ms and 15% of a period.
JitterCliff(r, fps) ==
  /\ r.jitter.n >= FewSamples
  /\ r.jitter.sum > 0
  /\ r.jitter.p95 * r.jitter.n >= 4 * r.jitter.sum
  /\ r.jitter.p95 >= 2 * Micro * r.interval.n
  /\ fps > 0 => 100 * fps * r.jitter.p95 >= 15 * Window * r.interval.n

\* Milliseconds at which the rate was at most 35% of the configured one; a sample
\* close after the stall kept last is the same stall.
Stalls(r, fps) ==
  LET gap == Larger(Second \div 2, StallGap)
      kept[i \in 0 .. Len(r.ends)] ==
        IF i = 0 THEN <<>>
        ELSE LET ms == r.ends[i] \div Micro
                 so == kept[i - 1]
             IN  IF \/ 100 * r.rolling[i] > 35 * fps
                    \/ so # <<>> /\ ms - so[Len(so)] < gap
                 THEN so ELSE Append(so, ms)
  IN  kept[Len(r.ends)]

\* Three stalls or more, a second apart on average, 35% around it at most.
PeriodicStall(r, fps) ==
  /\ fps > 0
  /\ Len(r.rolling) >= FewerSamples
  /\ LET at   == Stalls(r, fps)
         gaps == Intervals(at)
     IN  /\ Len(at) >= 3
         /\ Total(gaps) >= Second * Len(gaps)
         /\ 100 * (Largest(gaps) - Smallest(gaps)) * Len(gaps) <= 35 * Total(gaps)

\* AddLegacySignals.
LegacySignals(r, fps) ==
  (IF r.received = 0 THEN <<"nothing received">> ELSE <<>>) \o
  (IF r.dropped > 0 THEN <<"frames dropped">> ELSE <<>>) \o
  (IF fps > 0 /\ 100 * r.received * Second < 90 * fps * r.duration
   THEN <<"slow">> ELSE <<>>) \o
  (IF fps > 0 /\ r.interval.n > 0 /\ 2 * fps * r.interval.p95 > 3 * Window
   THEN <<"uneven">> ELSE <<>>) \o
  (IF fps > 0 /\ r.jitter.n > 0 /\ 2 * fps * r.jitter.p95 > Window * r.interval.n
   THEN <<"jittery">> ELSE <<>>)

NothingNotable == <<"nothing notable">>

Shown(lines) ==
  IF lines = <<>> THEN NothingNotable
  ELSE SubSeq(lines, 1, IF Len(lines) < 3 THEN Len(lines) ELSE 3)

\* The named heuristics, then the other signals.
Signs(r, fps) ==
  (IF ResendSpike(r, fps) THEN <<"resend spike">> ELSE <<>>) \o
  (IF JitterCliff(r, fps) THEN <<"jitter cliff">> ELSE <<>>) \o
  (IF PeriodicStall(r, fps) THEN <<"periodic stall">> ELSE <<>>) \o
  LegacySignals(r, fps)

\* Broken form: failed thresholds are not among them.
HighlightsWithoutThresholds(r, fps, failures) == Shown(Signs(r, fps))

\* Failed thresholds come last; three lines are shown.
Highlights(r, fps, failures) == Shown(Signs(r, fps) \o failures)
=============================================================================
