------------------------ MODULE FrameScheduleProofs ------------------------
(***************************************************************************)
(* How many frames a run of FrameEvidence has, under which ids, and what   *)
(* its report says of them: on either camera, for every plan, rate,        *)
(* interval, duration and number of processes.                             *)
(***************************************************************************)
EXTENDS FrameEvidenceProofs

USE CaptureTimeAssumption DEF CaptureTimeAssumption

-----------------------------------------------------------------------------
(***************************************************************************)
(* Which camera a run has                                                  *)
(***************************************************************************)

FromSim == plan.backend = "sim"

\* A run of one camera does not touch the other, and the simulated one keeps its knobs.
BackendInv ==
  /\ FromSim =>
       /\ pc \in {"new", "stream", "append", "measure", "paused", "failed", "done"}
       /\ real = RealOff
       /\ pc \in {"stream", "append"} => cfg = plan.config
  /\ ~FromSim => cam = Off

LEMMA BackendStep ==
  ASSUME BackendInv, [Next]_vars
  PROVE  BackendInv'
<1>1. ASSUME NEW t \in Clock, BeginSim(t) PROVE BackendInv'
  BY <1>1 DEF BeginSim, OpenAt, ApplyScenarioConfig, BackendInv, FromSim
<1>2. ASSUME NEW t \in Clock, OpenCamera(t) PROVE BackendInv'
  BY <1>2 DEF OpenCamera, BackendInv, FromSim
<1>3. CASE BeginReal
  BY <1>3 DEF BeginReal, BackendInv, FromSim
<1>4. CASE Discovered \/ NothingDiscovered
  BY <1>4 DEF Discovered, NothingDiscovered, BackendInv, FromSim
<1>5. CASE KeyMapLoads \/ ApplyParam \/ ParamUnsupported \/ ReportApplied
  BY <1>5
  DEF KeyMapLoads, ApplyParam, ParamUnsupported, ReportApplied, cameraVars, BackendInv, FromSim
<1>6. CASE KeyMapFails \/ ReportRefusal \/ ReportFails
  BY <1>6 DEF KeyMapFails, ReportRefusal, ReportFails, Ends, DestroyReal, BackendInv, FromSim
<1>7. CASE PullFails \/ Pause \/ Measure
  BY <1>7 DEF PullFails, Pause, Measure, Ends, DestroyReal, BackendInv, FromSim
<1>8. CASE PullSim
  BY <1>8 DEF PullSim, Pulled, BackendInv, FromSim, Off
<1>9. CASE PullRealFrames
  BY <1>9 DEF PullRealFrames, Pulled, BackendInv, FromSim, RealOff
<1>10. CASE AppendFrame \/ CompleteChunk
  BY <1>10 DEF AppendFrame, CompleteChunk, cameraVars, BackendInv, FromSim
<1>11. CASE UNCHANGED vars
  BY <1>11 DEF vars, cameraVars, BackendInv, FromSim
<1> QED
  BY <1>1, <1>2, <1>3, <1>4, <1>5, <1>6, <1>7, <1>8, <1>9, <1>10, <1>11 DEF Next, Finished

-----------------------------------------------------------------------------
(***************************************************************************)
(* The rate of the real camera                                             *)
(***************************************************************************)

\* A request that sets the frame rate
SetsRate(r, keys) == NodeOf(r, keys) = RateNode /\ Accepts(r, RateNode)

\* If the camera starts at v and the requests rs are applied, its rate is w.
LeavesRate(rs, keys, v, w) ==
  \/ w = v /\ \A i \in DOMAIN rs : ~SetsRate(rs[i], keys)
  \/ \E i \in DOMAIN rs :
       /\ SetsRate(rs[i], keys) /\ w = Prepared(rs[i], RateNode).at
       /\ \A j \in DOMAIN rs : i < j => ~SetsRate(rs[j], keys)

\* The requests of a plan that are tried, in order
Asked(p) ==
  Ordered(Kept(p.requests, (DOMAIN p.requests) \
                             {i \in DOMAIN p.requests : ~p.gige /\ p.requests[i].key \in GigEKeys}))

\* The rate a plan asks for
RateAsked(p) == CHOOSE w : LeavesRate(Asked(p), p.keys, Nodes[RateNode].first.at, w)

\* The places of a sequence that are in a set have a last one.
LEMMA LastPlace ==
  ASSUME NEW n \in Nat, NEW K, K \subseteq 1 .. n, K # {}
  PROVE  \E i \in K : \A j \in K : j <= i
<1> DEFINE S == {n - i : i \in K}
<1>0. \A i \in K : i \in 1 .. n /\ n - i \in Nat
  OBVIOUS
<1>1. S \subseteq Nat /\ S # {}
  BY <1>0
<1>2. PICK m \in S : \A x \in S : m <= x
  BY <1>1, LeastNumber
<1>3. PICK i \in K : m = n - i
  BY <1>2
<1>4. ASSUME NEW j \in K PROVE j <= i
  <2>1. n - i <= n - j
    BY <1>2, <1>3
  <2> QED
    BY <1>0, <2>1
<1> QED
  BY <1>4

\* What a plan asks for is a number, and there is one.
LEMMA RateIsAsked ==
  ASSUME NEW p \in Plans
  PROVE  /\ Asked(p) \in Seq(Request)
         /\ LeavesRate(Asked(p), p.keys, Nodes[RateNode].first.at, RateAsked(p))
         /\ RateAsked(p) \in Nat
<1> DEFINE K  == (DOMAIN p.requests) \
                   {i \in DOMAIN p.requests : ~p.gige /\ p.requests[i].key \in GigEKeys}
           rs == Asked(p)
           v  == Nodes[RateNode].first.at
           S  == {i \in DOMAIN rs : SetsRate(rs[i], p.keys)}
<1>1. p.requests \in Seq(Request)
  BY PlanAssumption
<1>2. K \subseteq DOMAIN p.requests
  OBVIOUS
<1>3. Kept(p.requests, K) \in Seq(Request)
  BY <1>1, <1>2, KeptProperties
<1>4. rs \in Seq(Request)
  BY <1>3, OrderedTyped DEF Asked
<1> HIDE DEF rs, v
<1>5. DOMAIN rs = 1 .. Len(rs) /\ Len(rs) \in Nat /\ \A i \in DOMAIN rs : rs[i] \in Request
  BY <1>4, ElementOfSeq, LenProperties
<1>6. \E w : LeavesRate(rs, p.keys, v, w)
  <2>1. CASE S = {}
    BY <2>1 DEF LeavesRate
  <2>2. CASE S # {}
    <3>1. PICK i \in S : \A j \in S : j <= i
      BY <1>5, <2>2, LastPlace
    <3>2. \A j \in DOMAIN rs : i < j => ~SetsRate(rs[j], p.keys)
      BY <1>5, <3>1
    <3> QED
      BY <3>1, <3>2 DEF LeavesRate
  <2> QED
    BY <2>1, <2>2
<1>7. LeavesRate(rs, p.keys, v, RateAsked(p))
  BY <1>6 DEF RateAsked, rs, v
<1>8. v \in Nat
  BY RateAssumption, ParamAssumption DEF v
<1>9. \A i \in DOMAIN rs : Prepared(rs[i], RateNode).at \in Nat
  <2> SUFFICES ASSUME NEW i \in DOMAIN rs PROVE Prepared(rs[i], RateNode).at \in Nat
    OBVIOUS
  <2>1. InRange(RateNode, Prepared(rs[i], RateNode))
    BY <1>5, PreparedInRange, RateAssumption
  <2> QED
    BY <2>1, RateAssumption, ParamAssumption DEF InRange
<1>10. RateAsked(p) \in Nat
  BY <1>7, <1>8, <1>9 DEF LeavesRate
<1> QED
  BY <1>4, <1>7, <1>10 DEF rs, v

\* Applying the first of the requests hands the rate on.
LEMMA RateHandedOn ==
  ASSUME NEW rs \in Seq(Request), rs # <<>>, NEW keys, NEW v, NEW w, LeavesRate(rs, keys, v, w)
  PROVE  /\ SetsRate(Head(rs), keys) =>
              LeavesRate(Tail(rs), keys, Prepared(Head(rs), RateNode).at, w)
         /\ ~SetsRate(Head(rs), keys) => LeavesRate(Tail(rs), keys, v, w)
<1> DEFINE ts == Tail(rs)
<1>1. /\ DOMAIN rs = 1 .. Len(rs) /\ Len(rs) \in Nat /\ Len(rs) >= 1 /\ Head(rs) = rs[1]
      /\ ts \in Seq(Request) /\ Len(ts) = Len(rs) - 1
      /\ \A i \in 1 .. Len(rs) - 1 : ts[i] = rs[i + 1]
  BY HeadTailProperties, EmptySeq, LenProperties
<1>2. DOMAIN ts = 1 .. Len(rs) - 1
  BY <1>1, LenProperties
<1> HIDE DEF ts
<1>3. CASE \A i \in DOMAIN rs : ~SetsRate(rs[i], keys)
  <2>1. w = v
    BY <1>3 DEF LeavesRate
  <2>2. \A i \in DOMAIN ts : ~SetsRate(ts[i], keys)
    <3> SUFFICES ASSUME NEW i \in DOMAIN ts PROVE ~SetsRate(ts[i], keys)
      OBVIOUS
    <3>1. i + 1 \in DOMAIN rs /\ ts[i] = rs[i + 1]
      BY <1>1, <1>2
    <3> QED
      BY <1>3, <3>1
  <2>3. ~SetsRate(Head(rs), keys)
    BY <1>1, <1>3
  <2> QED
    BY <2>1, <2>2, <2>3 DEF LeavesRate, ts
<1>4. CASE ~\A i \in DOMAIN rs : ~SetsRate(rs[i], keys)
  <2>1. PICK i \in DOMAIN rs :
          /\ SetsRate(rs[i], keys) /\ w = Prepared(rs[i], RateNode).at
          /\ \A j \in DOMAIN rs : i < j => ~SetsRate(rs[j], keys)
    BY <1>4 DEF LeavesRate
  <2>2. \A j \in DOMAIN ts : i < j + 1 => ~SetsRate(ts[j], keys)
    <3> SUFFICES ASSUME NEW j \in DOMAIN ts, i < j + 1 PROVE ~SetsRate(ts[j], keys)
      OBVIOUS
    <3>1. j + 1 \in DOMAIN rs /\ ts[j] = rs[j + 1]
      BY <1>1, <1>2
    <3> QED
      BY <2>1, <3>1
  <2>3. CASE i = 1
    <3>1. \A j \in DOMAIN ts : ~SetsRate(ts[j], keys)
      BY <1>2, <2>2, <2>3
    <3> QED
      BY <1>1, <2>1, <2>3, <3>1 DEF LeavesRate, ts
  <2>4. CASE i # 1
    <3>1. i - 1 \in DOMAIN ts /\ (i - 1) + 1 = i
      BY <1>1, <1>2, <2>4
    <3>2. ts[i - 1] = rs[i]
      BY <1>1, <1>2, <3>1
    <3>3. \A j \in DOMAIN ts : i - 1 < j => ~SetsRate(ts[j], keys)
      BY <1>1, <1>2, <2>2
    <3>4. \A u : LeavesRate(ts, keys, u, w)
      BY <2>1, <3>1, <3>2, <3>3 DEF LeavesRate
    <3> QED
      BY <3>4 DEF ts
  <2> QED
    BY <2>3, <2>4
<1> QED
  BY <1>3, <1>4

\* What is still to be applied leaves the camera at the rate asked for.
RateInv ==
  /\ pc = "configure" => params = [n \in {RateNode} |-> Nodes[RateNode].first]
  /\ pc = "apply" =>
       RateNode \in DOMAIN params /\ LeavesRate(todo, plan.keys, FrameRate, RateAsked(plan))
  /\ ~FromSim /\ pc \in {"open", "stream", "append", "measure", "done"} =>
       FrameRate = RateAsked(plan)

\* A parameter that was applied.
LEMMA AppliedRate ==
  ASSUME RequestInv, RateInv, ApplyParam
  PROVE  RateInv'
<1> DEFINE r    == Head(todo)
           node == NodeOf(r, plan.keys)
<1>1. /\ pc = "apply" /\ todo # <<>> /\ Accepts(r, node)
      /\ params' = [n \in DOMAIN params \cup {node} |->
                      IF n = node THEN BackendValue(r, node) ELSE params[n]]
      /\ todo' = Tail(todo) /\ UNCHANGED <<pc, plan>>
  BY DEF ApplyParam
<1>2. todo \in Seq(Request) /\ RateNode \in DOMAIN params
      /\ LeavesRate(todo, plan.keys, FrameRate, RateAsked(plan))
  BY <1>1 DEF RequestInv, RateInv
<1>3. RateNode \in DOMAIN params' /\ FrameRate' = params'[RateNode].at
  BY <1>1, <1>2 DEF FrameRate
<1>4. CASE node = RateNode
  <2>1. SetsRate(r, plan.keys)
    BY <1>1, <1>4 DEF SetsRate
  <2>2. FrameRate' = Prepared(r, RateNode).at
    BY <1>1, <1>3, <1>4 DEF BackendValue
  <2>3. LeavesRate(Tail(todo), plan.keys, FrameRate', RateAsked(plan))
    BY <1>1, <1>2, <2>1, <2>2, RateHandedOn
  <2> QED
    BY <1>1, <1>3, <2>3 DEF RateInv
<1>5. CASE node # RateNode
  <2>1. ~SetsRate(r, plan.keys)
    BY <1>5 DEF SetsRate
  <2>2. FrameRate' = FrameRate
    BY <1>1, <1>2, <1>3, <1>5 DEF FrameRate
  <2>3. LeavesRate(Tail(todo), plan.keys, FrameRate, RateAsked(plan))
    BY <1>1, <1>2, <2>1, RateHandedOn
  <2> QED
    BY <1>1, <1>3, <2>2, <2>3 DEF RateInv
<1> QED
  BY <1>4, <1>5

\* Every step keeps to it.
LEMMA RateStep ==
  ASSUME RequestInv, BackendInv, RateInv, [Next]_vars
  PROVE  RateInv'
<1>1. ASSUME UNCHANGED <<plan, params>>, pc' \in {"new", "discover", "refused", "paused", "failed"}
      PROVE  RateInv'
  BY <1>1 DEF RateInv
<1>2. ASSUME UNCHANGED <<plan, params>>, pc' \in {"open", "stream", "append", "measure", "done"},
             pc \in {"open", "stream", "append", "measure", "done"} \/ FromSim
      PROVE  RateInv'
  BY <1>2 DEF RateInv, FrameRate, FromSim
<1>3. ASSUME NEW t \in Clock, BeginSim(t) PROVE RateInv'
  BY <1>2, <1>3 DEF BeginSim, configVars, FromSim
<1>4. ASSUME NEW t \in Clock, OpenCamera(t) PROVE RateInv'
  BY <1>2, <1>4 DEF OpenCamera, configVars
<1>5. CASE BeginReal \/ NothingDiscovered
  BY <1>1, <1>5 DEF BeginReal, NothingDiscovered, configVars
<1>6. CASE Discovered
  BY <1>6 DEF Discovered, RateInv
<1>7. CASE KeyMapLoads
  <2>1. /\ pc = "configure" /\ pc' = "apply" /\ todo' = Asked(plan) /\ UNCHANGED <<plan, params>>
    BY <1>7 DEF KeyMapLoads, Asked, Skipped
  <2>2. params' = [n \in {RateNode} |-> Nodes[RateNode].first]
    BY <2>1 DEF RateInv
  <2>3. RateNode \in DOMAIN params' /\ FrameRate' = Nodes[RateNode].first.at
    BY <2>2 DEF FrameRate
  <2>4. LeavesRate(Asked(plan), plan.keys, Nodes[RateNode].first.at, RateAsked(plan))
    BY RateIsAsked DEF RequestInv
  <2> QED
    BY <2>1, <2>3, <2>4 DEF RateInv
<1>8. CASE ApplyParam
  BY <1>8, AppliedRate
<1>9. CASE ParamUnsupported
  <2>1. /\ pc = "apply" /\ todo # <<>> /\ ~Accepts(Head(todo), NodeOf(Head(todo), plan.keys))
        /\ todo' = Tail(todo) /\ UNCHANGED <<plan, params>> /\ pc' \in {"apply", "refused"}
    BY <1>9 DEF ParamUnsupported
  <2>2. ~SetsRate(Head(todo), plan.keys)
    BY <2>1 DEF SetsRate
  <2>3. todo \in Seq(Request) /\ RateNode \in DOMAIN params
        /\ LeavesRate(todo, plan.keys, FrameRate, RateAsked(plan))
    BY <2>1 DEF RequestInv, RateInv
  <2>4. LeavesRate(Tail(todo), plan.keys, FrameRate, RateAsked(plan))
    BY <2>1, <2>2, <2>3, RateHandedOn
  <2> QED
    BY <2>1, <2>3, <2>4 DEF RateInv, FrameRate
<1>10. CASE ReportApplied
  <2>1. /\ pc = "apply" /\ todo = <<>> /\ pc' = "open" /\ UNCHANGED <<plan, params>>
    BY <1>10 DEF ReportApplied
  <2>2. FrameRate = RateAsked(plan)
    BY <2>1 DEF RateInv, LeavesRate
  <2> QED
    BY <2>1, <2>2 DEF RateInv, FrameRate
<1>11. CASE KeyMapFails \/ ReportRefusal \/ ReportFails \/ PullFails \/ Pause
  BY <1>1, <1>11 DEF KeyMapFails, ReportRefusal, ReportFails, PullFails, Pause, Ends, configVars
<1>12. CASE PullSim \/ PullRealFrames \/ AppendFrame \/ CompleteChunk \/ Measure
  BY <1>2, <1>12
  DEF PullSim, PullRealFrames, Pulled, AppendFrame, CompleteChunk, Measure, Ends, configVars
<1>13. CASE UNCHANGED vars
  BY <1>13 DEF vars, configVars, paramVars, RateInv, FrameRate, FromSim
<1> QED
  BY <1>3, <1>4, <1>5, <1>6, <1>7, <1>8, <1>9, <1>10, <1>11, <1>12, <1>13 DEF Next, Finished

-----------------------------------------------------------------------------
(***************************************************************************)
(* The schedule                                                            *)
(***************************************************************************)

\* A number between two multiples, rounded up.
LEMMA RoundedUp ==
  ASSUME NEW x \in Nat, NEW d \in Nat \ {0}, NEW k \in Nat \ {0},
         k * d - d < x, x <= k * d
  PROVE  (x + d - 1) \div d = k
  OBVIOUS

\* A product that is nothing.
LEMMA NoneOf ==
  ASSUME NEW a \in Nat, NEW d \in Nat \ {0}, a * d = 0
  PROVE  a = 0
  OBVIOUS

\* Two bounds added.
LEMMA BoundsAdd ==
  ASSUME NEW a \in Int, NEW b \in Int, NEW x \in Int, NEW y \in Int, NEW u \in Int, NEW v \in Int,
         a <= x + u, b < y + v
  PROVE  a + b < (x + y) + (u + v)
  OBVIOUS

\* Frames per second that a run's camera delivers
PlanRate == IF FromSim THEN plan.config.fps ELSE RateAsked(plan)

\* After k pulls a run has taken n frames in `time` milliseconds.  All its pulls are
\* as long as WholeSpan, but for the last.
Counted(k, time, n) ==
  /\ time <= k * WholeSpan
  /\ k > 0 => k * WholeSpan - WholeSpan < time
  /\ time < plan.duration => time = k * WholeSpan
  /\ n * Second <= time * PlanRate
  /\ k > 0 => time * PlanRate < n * Second + k * Second

ScheduleInv ==
  /\ pc # "append" => \E k \in Nat : Counted(k, completed, Len(frames))
  /\ pc = "append" => \E k \in Nat : Counted(k, completed + span, Len(frames) + Len(chunk))

\* The knobs of a plan are numbers.
LEMMA RateType ==
  ASSUME CaptureInv
  PROVE  PlanRate \in Nat /\ WholeSpan \in Nat /\ (plan.soak => WholeSpan > 0)
<1>1. plan \in Plans /\ PlanTimes
  BY SpanFitsPlan DEF CaptureInv
<1>2. plan.config.fps \in Nat
  BY <1>1, SimAssumption DEF SimAssumption, PlanTimes
<1>3. PlanRate \in Nat
  BY <1>1, <1>2, RateIsAsked DEF PlanRate
<1> QED
  BY <1>1, <1>3 DEF PlanTimes, WholeSpan

\* One more pull.
LEMMA PullCounts ==
  ASSUME CaptureInv, NEW k \in Nat, NEW n \in Nat, Counted(k, completed, n)
  PROVE  \E m \in Nat :
           Counted(m, completed + NextSpan, n + (NextSpan * PlanRate) \div Second)
<1> DEFINE r == PlanRate
           x == NextSpan * r
           c == x \div Second
           W == WholeSpan
<1>1. r \in Nat /\ W \in Nat /\ NextSpan \in Nat /\ completed \in Nat /\ plan.duration \in Nat
  BY RateType, SpanFitsPlan DEF CaptureInv, PlanTimes
<1> HIDE DEF r
<1>2. x \in Nat
  BY <1>1
<1> HIDE DEF x
<1>3. c \in Nat /\ c * Second <= x /\ x < c * Second + Second
  BY <1>2, Quotient
<1> HIDE DEF c, W
<1>4. NextSpan = IF W < plan.duration - completed THEN W ELSE plan.duration - completed
  BY <1>1 DEF NextSpan, WholeSpan, CaptureInv, W
<1>5. /\ completed <= k * W
      /\ k > 0 => k * W - W < completed
      /\ completed < plan.duration => completed = k * W
      /\ completed <= plan.duration
      /\ n * Second <= completed * r
      /\ k > 0 => completed * r < n * Second + k * Second
  BY DEF Counted, CaptureInv, r, W
<1>6. /\ (n + c) * Second = n * Second + c * Second
      /\ (completed + NextSpan) * r = completed * r + x
      /\ (k + 1) * W = k * W + W
      /\ (k + 1) * Second = k * Second + Second
  <2>1. (completed + NextSpan) * r = completed * r + NextSpan * r
    BY <1>1
  <2> QED
    BY <1>1, <1>3, <2>1 DEF x
<1>7. completed * r \in Nat /\ n * Second \in Nat /\ c * Second \in Nat /\ k * W \in Nat
      /\ k * Second \in Nat
  BY <1>1, <1>3
<1>8. CASE NextSpan = 0
  <2>1. x = 0
    BY <1>1, <1>8 DEF x
  <2>2. c * Second = 0
    BY <1>2, <1>3, <1>7, <2>1
  <2>3. c = 0
    BY <1>3, <2>2, NoneOf
  <2>4. completed + NextSpan = completed /\ n + c = n
    BY <1>1, <1>8, <2>3
  <2> QED
    BY <2>4 DEF c, x, r
<1>9. CASE NextSpan # 0
  <2>1. completed < plan.duration /\ completed = k * W
    BY <1>1, <1>4, <1>5, <1>9
  <2>2. k + 1 \in Nat /\ k + 1 > 0
    OBVIOUS
  <2>3. /\ completed + NextSpan <= (k + 1) * W
        /\ (k + 1) * W - W < completed + NextSpan
        /\ completed + NextSpan < plan.duration => completed + NextSpan = (k + 1) * W
    BY <1>1, <1>4, <1>6, <1>7, <1>9, <2>1
  <2>4. (n + c) * Second <= (completed + NextSpan) * r
    BY <1>2, <1>3, <1>5, <1>6, <1>7
  <2>5. completed * r <= n * Second + k * Second
    <3>1. CASE k = 0
      <4>1. completed = 0
        BY <1>1, <2>1, <3>1
      <4>2. completed * r = 0
        BY <1>1, <4>1
      <4> QED
        BY <1>7, <4>2
    <3>2. CASE k > 0
      BY <1>5, <1>7, <3>2
    <3> QED
      BY <3>1, <3>2
  <2>6. completed * r + x < (n * Second + c * Second) + (k * Second + Second)
    BY <1>2, <1>3, <1>7, <2>5, BoundsAdd
  <2>7. (completed + NextSpan) * r < (n + c) * Second + (k + 1) * Second
    BY <1>6, <2>6
  <2>8. Counted(k + 1, completed + NextSpan, n + c)
    BY <2>3, <2>4, <2>7 DEF Counted, r, W
  <2> QED
    BY <2>2, <2>8 DEF c, x, r
<1> QED
  BY <1>8, <1>9

\* What the count of the pulls depends on.
LEMMA SameCount ==
  ASSUME plan' = plan
  PROVE  \A k, time, n : Counted(k, time, n)' <=> Counted(k', time', n')
  BY DEF Counted, PlanRate, FromSim, WholeSpan

\* A pull of either camera delivers what its rate allows for its span.
LEMMA PullLength ==
  ASSUME HashesAreNumbers, EvidenceInv, BackendInv, RateInv, PullSim \/ PullRealFrames
  PROVE  Len(chunk') = (NextSpan * PlanRate) \div Second
<1>1. NextSpan \in Nat /\ SimReady /\ RealReady /\ pc = "stream"
  BY SpanFitsPlan, CameraReady DEF EvidenceInv, CameraInv, PullSim, PullRealFrames
<1>2. CASE PullSim
  <2>1. chunk' = Delivered(NextSpan) /\ cfg.fps > 0 /\ cam.running
    BY <1>2 DEF PullSim, Pulled, Usable
  <2>2. FromSim
    BY <2>1 DEF BackendInv, Off
  <2>3. PlanRate = cfg.fps
    BY <1>1, <2>2 DEF BackendInv, PlanRate
  <2> QED
    BY <1>1, <2>1, <2>3, DeliveredFrames DEF FrameCount
<1>3. CASE PullRealFrames
  <2>1. chunk' = RealFrames(NextSpan) /\ real.running
    BY <1>3 DEF PullRealFrames, Pulled
  <2>2. ~FromSim
    BY <2>1 DEF BackendInv, RealOff
  <2>3. PlanRate = FrameRate
    BY <1>1, <2>2 DEF RateInv, PlanRate
  <2> QED
    BY <1>1, <2>1, <2>3, RealFramesOnce DEF RealCount
<1> QED
  BY <1>2, <1>3

\* Every step keeps the count of the pulls.
LEMMA ScheduleStep ==
  ASSUME HashesAreNumbers, EvidenceInv, BackendInv, RateInv, ScheduleInv, [Next]_vars
  PROVE  ScheduleInv'
<1>0. frames \in Seq(Frame) /\ chunk \in Seq(Frame) /\ CaptureInv
  BY DEF EvidenceInv, TimeInv, PullsTyped
<1>1. ASSUME UNCHANGED <<plan, completed>>, Len(frames') = Len(frames),
             pc # "append", pc' # "append"
      PROVE  ScheduleInv'
  BY <1>1, SameCount DEF ScheduleInv
<1>2. ASSUME NEW t \in Clock, BeginSim(t) \/ OpenCamera(t) PROVE ScheduleInv'
  <2>1. Len(frames') = Len(frames)
    BY <1>0, <1>2, ReloadedKeeps DEF BeginSim, OpenCamera, Recounted
  <2> QED
    BY <1>1, <1>2, <2>1 DEF BeginSim, OpenCamera, CanBegin, Recounted
<1>3. CASE PullSim \/ PullRealFrames
  <2>1. /\ pc = "stream" /\ pc' = "append" /\ UNCHANGED <<plan, completed, frames>>
        /\ span' = NextSpan
    BY <1>3 DEF PullSim, PullRealFrames, Pulled
  <2>2. Len(chunk') = (NextSpan * PlanRate) \div Second
    BY <1>3, PullLength
  <2>3. PICK k \in Nat : Counted(k, completed, Len(frames))
    BY <2>1 DEF ScheduleInv
  <2>4. Len(frames) \in Nat
    BY <1>0, LenProperties
  <2>5. \E m \in Nat :
          Counted(m, completed + NextSpan, Len(frames) + (NextSpan * PlanRate) \div Second)
    BY <1>0, <2>3, <2>4, PullCounts
  <2>6. \E m \in Nat : Counted(m, completed' + span', Len(frames') + Len(chunk'))
    BY <2>1, <2>2, <2>5
  <2> QED
    BY <2>1, <2>6, SameCount DEF ScheduleInv
<1>4. CASE AppendFrame
  <2>1. /\ pc = "append" /\ UNCHANGED <<pc, plan, completed, span>>
        /\ chunk # <<>> /\ chunk' = Tail(chunk)
        /\ frames' = Append(frames, Normalised(Head(chunk)))
    BY <1>4 DEF AppendFrame
  <2>2. Len(chunk') = Len(chunk) - 1 /\ Len(chunk) \in Nat
    BY <1>0, <2>1, HeadTailProperties, LenProperties
  <2>3. Len(frames') = Len(frames) + 1 /\ Len(frames) \in Nat
    BY <1>0, <2>1, LenProperties
  <2>4. Len(frames') + Len(chunk') = Len(frames) + Len(chunk)
    BY <2>2, <2>3
  <2>5. \E k \in Nat : Counted(k, completed' + span', Len(frames') + Len(chunk'))
    BY <2>1, <2>4 DEF ScheduleInv
  <2> QED
    BY <2>1, <2>5, SameCount DEF ScheduleInv
<1>5. CASE CompleteChunk
  <2>1. /\ pc = "append" /\ pc' # "append" /\ UNCHANGED <<plan, frames>>
        /\ completed' = completed + span /\ chunk = <<>>
    BY <1>5 DEF CompleteChunk
  <2>2. Len(frames) + Len(chunk) = Len(frames)
    BY <1>0, <2>1, LenProperties
  <2>3. \E k \in Nat : Counted(k, completed', Len(frames'))
    BY <2>1, <2>2 DEF ScheduleInv
  <2> QED
    BY <2>1, <2>3, SameCount DEF ScheduleInv
<1>6. CASE PullFails \/ Pause \/ Measure
  BY <1>1, <1>6 DEF PullFails, Pause, Measure, Ends, captureVars
<1>7. CASE BeginReal \/ Discovered \/ NothingDiscovered \/ KeyMapLoads \/ ApplyParam
           \/ ParamUnsupported \/ ReportApplied
  BY <1>1, <1>7
  DEF BeginReal, CanBegin, Discovered, NothingDiscovered, KeyMapLoads, ApplyParam,
      ParamUnsupported, ReportApplied, captureVars
<1>8. CASE KeyMapFails \/ ReportRefusal \/ ReportFails
  BY <1>1, <1>8 DEF KeyMapFails, ReportRefusal, ReportFails, Ends, captureVars
<1>9. CASE UNCHANGED vars
  <2>1. UNCHANGED <<pc, plan, completed, frames, chunk, span>>
    BY <1>9 DEF vars, captureVars
  <2> QED
    BY <2>1, SameCount DEF ScheduleInv
<1> QED
  BY <1>2, <1>3, <1>4, <1>5, <1>6, <1>7, <1>8, <1>9 DEF Next, Finished

\* What is known of a run on either camera
RunInv == EvidenceInv /\ BackendInv /\ RateInv

LEMMA RunIsKnown ==
  ASSUME HashesAreNumbers
  PROVE  Spec => []RunInv
<1>1. Init => BackendInv /\ RateInv
  BY DEF Init, BackendInv, RateInv
<1>2. EvidenceInv /\ BackendInv /\ RateInv /\ [Next]_vars => BackendInv' /\ RateInv'
  BY BackendStep, RateStep DEF EvidenceInv
<1>3. Spec => []EvidenceInv
  BY EvidenceIsKnown
<1> QED
  BY <1>1, <1>2, <1>3, PTL DEF Spec, RunInv

\* Either camera delivers on schedule for every rate, duration, checkpoint interval and
\* number of processes: never more frames than its rate allows for the time a run
\* claims, and less than one lost in each pull (PullFrames of sim_camera_backend.cpp and
\* real_backend.cpp; the real one's rate is the last that was applied).
THEOREM RunsKeepSchedule ==
  ASSUME HashesAreNumbers
  PROVE  Spec => []FramesOnSchedule
<1>1. RunInv /\ Init => ScheduleInv
  <2> SUFFICES ASSUME RunInv, Init PROVE ScheduleInv
    OBVIOUS
  <2>1. Len(frames) = 0 /\ completed = 0 /\ pc = "new"
    BY DEF Init
  <2>2. PlanTimes /\ PlanRate \in Nat /\ WholeSpan \in Nat
    BY RateType, SpanFitsPlan DEF RunInv, EvidenceInv
  <2>3. 0 * WholeSpan = 0 /\ 0 * PlanRate = 0 /\ 0 * Second = 0
    BY <2>2
  <2>4. Counted(0, completed, Len(frames))
    BY <2>1, <2>2, <2>3 DEF Counted, PlanTimes
  <2> QED
    BY <2>1, <2>4 DEF ScheduleInv
<1>2. RunInv /\ ScheduleInv /\ [Next]_vars => ScheduleInv'
  BY ScheduleStep DEF RunInv
<1>3. RunInv /\ ScheduleInv => FramesOnSchedule
  <2> SUFFICES ASSUME RunInv, ScheduleInv, pc \in {"stream", "measure", "done"}
               PROVE  /\ Len(frames) * Second <= completed * Rate
                      /\ completed > 0 => (Len(frames) + Pulls) * Second > completed * Rate
    BY DEF FramesOnSchedule
  <2>0. CaptureInv /\ frames \in Seq(Frame)
    BY DEF RunInv, EvidenceInv, TimeInv
  <2>1. PICK k \in Nat : Counted(k, completed, Len(frames))
    BY DEF ScheduleInv
  <2>2. Rate = PlanRate /\ Rate \in Nat /\ WholeSpan \in Nat
    BY <2>0, RateType DEF Rate, PlanRate, FromSim, RunInv, RateInv
  <2>3. completed \in Nat /\ completed <= plan.duration /\ PlanTimes
    BY <2>0, SpanFitsPlan DEF CaptureInv
  <2>4. ASSUME completed > 0 PROVE Pulls = k
    <3>1. k # 0 /\ k \in Nat \ {0}
      BY <2>1, <2>2, <2>3, <2>4 DEF Counted
    <3>2. k * WholeSpan - WholeSpan < completed /\ completed <= k * WholeSpan
      BY <2>1, <3>1 DEF Counted
    <3>3. CASE plan.soak
      BY <2>3, <3>1, <3>2, <3>3, RoundedUp DEF WholeSpan, PlanTimes, Pulls
    <3>4. CASE ~plan.soak
      <4>1. WholeSpan = plan.duration /\ Pulls = 1 /\ plan.duration \in Nat
        BY <2>3, <3>4 DEF WholeSpan, Pulls, PlanTimes
      <4>2. k >= 2 => k * WholeSpan >= 2 * WholeSpan
        BY <2>2
      <4>3. ~(k >= 2)
        BY <2>2, <2>3, <3>2, <4>1, <4>2
      <4> QED
        BY <3>1, <4>1, <4>3
    <3> QED
      BY <3>3, <3>4
  <2>5. ASSUME completed > 0
        PROVE  (Len(frames) + k) * Second > completed * Rate
    <3>1. k > 0
      BY <2>1, <2>2, <2>3, <2>5 DEF Counted
    <3>2. (Len(frames) + k) * Second = Len(frames) * Second + k * Second
      BY <2>0, LenProperties
    <3> QED
      BY <2>1, <2>2, <3>1, <3>2 DEF Counted
  <2> QED
    BY <2>1, <2>2, <2>4, <2>5 DEF Counted
<1> QED
  BY <1>1, <1>2, <1>3, RunIsKnown, PTL DEF Spec

-----------------------------------------------------------------------------
(***************************************************************************)
(* The ids                                                                 *)
(***************************************************************************)

\* A place that is not the last.
LEMMA NotTheLast ==
  ASSUME NEW n \in Nat, NEW i \in 1 .. n, i # n
  PROVE  i \in Nat /\ i < n
  OBVIOUS

\* Frames are numbered with naturals.
LEMMA FrameIds ==
  ASSUME NEW fs \in Seq(Frame)
  PROVE  /\ DOMAIN fs = 1 .. Len(fs) /\ Len(fs) \in Nat
         /\ \A i \in DOMAIN fs : fs[i].id \in Nat
         /\ fs # <<>> => Head(fs) = fs[1] /\ Len(fs) >= 1
<1>1. \A i \in DOMAIN fs : fs[i] \in Frame
  BY ElementOfSeq, LenProperties
<1>2. fs # <<>> => Head(fs) = fs[1] /\ Len(fs) >= 1
  BY HeadTailProperties, EmptySeq, LenProperties
<1> QED
  BY <1>1, <1>2, LenProperties DEF Frame

\* The camera of the run numbers its frames in the order in which it delivers them.
NumbersOn == plan.backend = "real" \/ plan.config.reorder <= 1

\* The next frame to be appended goes on after the last one.
NextGoesOn ==
  chunk # <<>> /\ frames # <<>> => frames[Len(frames)].id < Head(chunk).id + offset

OneId(fs) == \A i, j \in DOMAIN fs : fs[i].id = fs[j].id => i = j

\* The ids of one process that reorders, between two pulls: with the next chunk shifted
\* by the last id, every number to come is above those given.
RoomAbove ==
  frames # <<>> => \A i \in DOMAIN frames : frames[i].id <= cam.next + frames[Len(frames)].id

\* The same while a chunk is appended: what is left of it collides with nothing.
RoomForChunk ==
  /\ OneId(chunk)
  /\ \A i \in DOMAIN frames : frames[i].id < cam.next + offset
  /\ \A i \in DOMAIN frames : \A j \in DOMAIN chunk : frames[i].id # chunk[j].id + offset
  /\ \A j \in DOMAIN chunk : chunk[j].id < cam.next
  /\ frames # <<>> => offset <= frames[Len(frames)].id + 1

IdInv ==
  /\ pc # "new" => begins >= 1
  /\ ~plan.soak /\ pc \in {"new", "discover", "configure", "apply", "open", "stream"} =>
       frames = <<>>
  /\ NumbersOn =>
       /\ IdsUp(frames)
       /\ pc = "append" => IdsUp(chunk) /\ NextGoesOn
  /\ ~NumbersOn /\ begins <= 1 =>
       /\ OneId(frames)
       /\ pc = "stream" => RoomAbove
       /\ pc = "append" => RoomForChunk

\* Appending a frame keeps the ids going up.
LEMMA AppendGoesOn ==
  ASSUME frames \in Seq(Frame), offset \in Nat, PullsTyped, AppendFrame,
         IdsUp(frames), IdsUp(chunk), NextGoesOn
  PROVE  IdsUp(frames') /\ IdsUp(chunk') /\ NextGoesOn'
<1> DEFINE h == Head(chunk)
           f == Normalised(h)
<1>1. /\ pc = "append" /\ chunk # <<>> /\ chunk' = Tail(chunk) /\ offset' = offset
      /\ frames' = Append(frames, f)
  BY DEF AppendFrame
<1>2. h \in Frame /\ h = chunk[1]
  BY <1>1, HeadTailProperties DEF PullsTyped
<1>3. f.id = h.id + offset
  BY <1>2 DEF Normalised, Frame
<1>4. f.id \in Nat
  BY <1>2, <1>3 DEF Frame
<1> HIDE DEF h, f
<1>5. /\ DOMAIN frames = 1 .. Len(frames) /\ Len(frames) \in Nat
      /\ DOMAIN frames' = 1 .. Len(frames) + 1 /\ Len(frames') = Len(frames) + 1
      /\ \A i \in 1 .. Len(frames) : frames'[i] = frames[i]
      /\ frames'[Len(frames) + 1] = f
  BY <1>1, LenProperties, AppendProperties
<1>6. ASSUME NEW i \in 1 .. Len(frames)
      PROVE  frames[i].id < f.id
  <2>1. frames # <<>> /\ Len(frames) \in 1 .. Len(frames)
    BY <1>5, <1>6
  <2>2. frames[Len(frames)].id < f.id
    BY <1>1, <1>3, <2>1 DEF NextGoesOn, h
  <2>3. frames[i].id \in Nat /\ frames[Len(frames)].id \in Nat
    BY <1>5, <2>1, FrameIds
  <2>4. CASE i = Len(frames)
    BY <2>2, <2>4
  <2>5. CASE i # Len(frames)
    <3>1. frames[i].id < frames[Len(frames)].id
      <4>1. i \in DOMAIN frames /\ Len(frames) \in DOMAIN frames /\ i \in Nat /\ i < Len(frames)
        BY <1>5, <1>6, <2>1, <2>5, NotTheLast
      <4> QED
        BY <4>1 DEF IdsUp
    <3> QED
      BY <1>4, <2>2, <2>3, <3>1
  <2> QED
    BY <2>4, <2>5
<1>7. IdsUp(frames')
  <2> SUFFICES ASSUME NEW i \in DOMAIN frames', NEW j \in DOMAIN frames', i < j
               PROVE  frames'[i].id < frames'[j].id
    BY DEF IdsUp
  <2>1. CASE j = Len(frames) + 1
    BY <1>5, <1>6, <2>1
  <2>2. CASE j # Len(frames) + 1
    BY <1>5, <2>2 DEF IdsUp
  <2> QED
    BY <2>1, <2>2
<1>8. /\ DOMAIN chunk = 1 .. Len(chunk) /\ Len(chunk) \in Nat /\ Len(chunk) >= 1
      /\ chunk' \in Seq(Frame) /\ Len(chunk') = Len(chunk) - 1
      /\ DOMAIN chunk' = 1 .. Len(chunk) - 1
      /\ \A i \in 1 .. Len(chunk) - 1 : chunk'[i] = chunk[i + 1]
  BY <1>1, FrameIds, HeadTailProperties, LenProperties DEF PullsTyped
<1>9. IdsUp(chunk) /\ \A i \in DOMAIN chunk : chunk[i].id \in Nat
  BY <1>1, FrameIds DEF PullsTyped
<1>10. IdsUp(chunk')
  <2> SUFFICES ASSUME NEW i \in DOMAIN chunk', NEW j \in DOMAIN chunk', i < j
               PROVE  chunk'[i].id < chunk'[j].id
    BY DEF IdsUp
  <2>1. i + 1 \in DOMAIN chunk /\ j + 1 \in DOMAIN chunk /\ i + 1 < j + 1
    BY <1>8
  <2>2. chunk[i + 1].id < chunk[j + 1].id
    BY <1>9, <2>1 DEF IdsUp
  <2> QED
    BY <1>8, <2>2
<1>11. NextGoesOn'
  <2> SUFFICES ASSUME chunk' # <<>> PROVE frames'[Len(frames')].id < Head(chunk').id + offset'
    BY DEF NextGoesOn
  <2>1. Head(chunk') = chunk'[1] /\ Len(chunk') >= 1
    BY <1>8, FrameIds
  <2>2. Head(chunk') = chunk[2] /\ 2 \in DOMAIN chunk /\ 1 \in DOMAIN chunk
    BY <1>8, <2>1
  <2>3. h.id < chunk[2].id /\ h.id \in Nat /\ chunk[2].id \in Nat
    BY <1>2, <1>9, <2>2 DEF IdsUp
  <2> QED
    BY <1>1, <1>3, <1>5, <2>2, <2>3
<1> QED
  BY <1>7, <1>10, <1>11

\* A chunk of a camera that numbers on is numbered on from the last frame.
LEMMA PullGoesOn ==
  ASSUME HashesAreNumbers, RunInv, IdInv, NumbersOn, PullSim \/ PullRealFrames
  PROVE  IdsUp(frames') /\ IdsUp(chunk') /\ NextGoesOn'
<1>0. NextSpan \in Nat /\ SimReady /\ RealReady /\ frames \in Seq(Frame)
  BY SpanFitsPlan, CameraReady DEF RunInv, EvidenceInv, CameraInv, TimeInv
<1>1. /\ pc = "stream" /\ UNCHANGED <<plan, frames>>
      /\ offset' = IdOffset
  BY DEF PullSim, PullRealFrames, Pulled
<1>2. chunk' \in Seq(Frame) /\ IdsUp(chunk')
  <2>1. CASE PullSim
    <3>1. chunk' = Delivered(NextSpan) /\ cfg.fps > 0 /\ cam.running
      BY <2>1 DEF PullSim, Pulled, Usable
    <3>2. FromSim
      BY <3>1 DEF RunInv, BackendInv, Off
    <3>3. cfg.reorder <= 1
      BY <1>1, <3>2 DEF RunInv, BackendInv, NumbersOn, FromSim
    <3> QED
      BY <1>0, <3>1, <3>3, DeliveredFrames
  <2>2. CASE PullRealFrames
    BY <1>0, <2>2, RealFramesOnce DEF PullRealFrames, Pulled
  <2> QED
    BY <2>1, <2>2
<1>3. ASSUME chunk' # <<>>, frames # <<>>
      PROVE  frames[Len(frames)].id < Head(chunk').id + offset'
  <2>1. offset' = frames[Len(frames)].id + 1
    BY <1>1, <1>3 DEF IdOffset, IdInv
  <2>2. frames[Len(frames)].id \in Nat
    BY <1>0, <1>3, FrameIds
  <2>3. Head(chunk').id \in Nat
    BY <1>2, <1>3, FrameIds
  <2> QED
    BY <2>1, <2>2, <2>3
<1> QED
  BY <1>1, <1>2, <1>3 DEF IdInv, IdsUp, NextGoesOn

\* A chunk of a camera that reorders is numbered above everything the process has.
LEMMA PullHasRoom ==
  ASSUME HashesAreNumbers, RunInv, IdInv, ~NumbersOn, begins <= 1, PullSim \/ PullRealFrames
  PROVE  OneId(frames') /\ RoomForChunk'
<1>0. /\ NextSpan \in Nat /\ SimReady /\ frames \in Seq(Frame)
      /\ cam.next \in Nat /\ FrameCount(NextSpan) \in Nat
  BY SpanFitsPlan, SimNumbers DEF RunInv, EvidenceInv, CameraInv, TimeInv
<1>1. PullSim
  BY PlanAssumption
  DEF PullRealFrames, NumbersOn, RunInv, EvidenceInv, RequestInv, BackendInv, FromSim, RealOff
<1> DEFINE n == FrameCount(NextSpan)
<1>2. /\ pc = "stream" /\ UNCHANGED <<plan, frames>> /\ offset' = IdOffset
      /\ chunk' = Delivered(NextSpan) /\ cfg.fps > 0
      /\ cam' = [cam EXCEPT !.next = @ + n]
  BY <1>1 DEF PullSim, Pulled, Usable, PullFrames
<1>3. cam'.next = cam.next + n
  BY <1>0, <1>2 DEF SimReady
<1>4. /\ chunk' \in Seq(Frame) /\ Distinct(chunk')
      /\ \A i \in DOMAIN chunk' : chunk'[i].id \in cam.next .. cam.next + n - 1
  BY <1>0, <1>2, DeliveredFrames
<1> HIDE DEF n
<1>5. n \in Nat
  BY <1>0 DEF n
<1>6. RoomAbove /\ OneId(frames) /\ (~plan.soak => frames = <<>>)
  BY <1>2 DEF IdInv
<1>7. OneId(chunk')
  BY <1>4 DEF Distinct, OneId
<1>8. \A j \in DOMAIN chunk' : chunk'[j].id \in Nat /\ cam.next <= chunk'[j].id
                                 /\ chunk'[j].id < cam'.next
  BY <1>0, <1>3, <1>4, <1>5
<1>9. CASE frames = <<>>
  <2>1. frames' = <<>> /\ DOMAIN frames' = {}
    BY <1>2, <1>9
  <2> QED
    BY <1>7, <1>8, <2>1 DEF OneId, RoomForChunk
<1>10. CASE frames # <<>>
  <2> DEFINE top == frames[Len(frames)].id
  <2>1. offset' = top + 1
    BY <1>2, <1>6, <1>10 DEF IdOffset
  <2>2. /\ DOMAIN frames = 1 .. Len(frames) /\ Len(frames) \in Nat /\ Len(frames) >= 1
        /\ \A i \in DOMAIN frames : frames[i].id \in Nat /\ frames[i].id <= cam.next + top
    BY <1>0, <1>6, <1>10, FrameIds DEF RoomAbove
  <2>3. top \in Nat
    BY <2>2
  <2> HIDE DEF top
  <2>4. \A i \in DOMAIN frames : frames[i].id < cam'.next + offset'
    BY <1>0, <1>3, <1>5, <2>1, <2>2, <2>3
  <2>5. ASSUME NEW i \in DOMAIN frames, NEW j \in DOMAIN chunk'
        PROVE  frames[i].id # chunk'[j].id + offset'
    BY <1>0, <1>8, <2>1, <2>2, <2>3, <2>5
  <2>6. offset' <= frames[Len(frames)].id + 1
    BY <2>1, <2>3 DEF top
  <2> QED
    BY <1>2, <1>6, <1>7, <1>8, <2>4, <2>5, <2>6 DEF OneId, RoomForChunk
<1> QED
  BY <1>9, <1>10

\* A frame of it takes a number of its own.
LEMMA AppendHasRoom ==
  ASSUME frames \in Seq(Frame), offset \in Nat, cam.next \in Nat, PullsTyped, AppendFrame,
         OneId(frames), RoomForChunk
  PROVE  OneId(frames') /\ RoomForChunk'
<1> DEFINE h == Head(chunk)
           f == Normalised(h)
<1>1. /\ pc = "append" /\ chunk # <<>> /\ chunk' = Tail(chunk)
      /\ offset' = offset /\ cam' = cam /\ frames' = Append(frames, f)
  BY DEF AppendFrame, cameraVars
<1>2. h \in Frame /\ h = chunk[1]
  BY <1>1, HeadTailProperties DEF PullsTyped
<1>3. f.id = h.id + offset
  BY <1>2 DEF Normalised, Frame
<1>4. f.id \in Nat /\ h.id \in Nat
  BY <1>2, <1>3 DEF Frame
<1> HIDE DEF h, f
<1>5. /\ DOMAIN frames = 1 .. Len(frames) /\ Len(frames) \in Nat
      /\ DOMAIN frames' = 1 .. Len(frames) + 1 /\ Len(frames') = Len(frames) + 1
      /\ \A i \in 1 .. Len(frames) : frames'[i] = frames[i]
      /\ frames'[Len(frames) + 1] = f
  BY <1>1, LenProperties, AppendProperties
<1>6. /\ DOMAIN chunk = 1 .. Len(chunk) /\ Len(chunk) \in Nat /\ Len(chunk) >= 1
      /\ chunk' \in Seq(Frame) /\ Len(chunk') = Len(chunk) - 1
      /\ DOMAIN chunk' = 1 .. Len(chunk) - 1
      /\ \A i \in 1 .. Len(chunk) - 1 : chunk'[i] = chunk[i + 1]
  BY <1>1, FrameIds, HeadTailProperties, LenProperties DEF PullsTyped
<1>7. \A i \in DOMAIN chunk : chunk[i].id \in Nat
  BY FrameIds DEF PullsTyped
<1>8. \A i \in DOMAIN frames : frames[i].id \in Nat /\ frames[i].id # f.id
  BY <1>2, <1>3, <1>6, FrameIds DEF RoomForChunk
<1>9. OneId(frames')
  <2> SUFFICES ASSUME NEW i \in DOMAIN frames', NEW j \in DOMAIN frames',
                      frames'[i].id = frames'[j].id
               PROVE  i = j
    BY DEF OneId
  <2>1. CASE i \in DOMAIN frames /\ j \in DOMAIN frames
    BY <1>5, <2>1 DEF OneId
  <2>2. CASE i \notin DOMAIN frames \/ j \notin DOMAIN frames
    BY <1>5, <1>8, <2>2
  <2> QED
    BY <2>1, <2>2
<1>10. \A j \in DOMAIN chunk' : j + 1 \in DOMAIN chunk /\ chunk'[j] = chunk[j + 1]
  BY <1>6
<1>11. OneId(chunk')
  <2> SUFFICES ASSUME NEW i \in DOMAIN chunk', NEW j \in DOMAIN chunk',
                      chunk'[i].id = chunk'[j].id
               PROVE  i = j
    BY DEF OneId
  <2>1. i + 1 = j + 1
    BY <1>10 DEF RoomForChunk, OneId
  <2> QED
    BY <1>6, <2>1
<1>12. \A i \in DOMAIN frames' : frames'[i].id < cam'.next + offset'
  <2>1. h.id < cam.next
    <3>1. 1 \in DOMAIN chunk
      BY <1>6
    <3> QED
      BY <1>2, <3>1 DEF RoomForChunk
  <2>2. f.id < cam.next + offset
    BY <1>3, <1>4, <2>1
  <2> QED
    BY <1>1, <1>5, <2>2 DEF RoomForChunk
<1>13. ASSUME NEW i \in DOMAIN frames', NEW j \in DOMAIN chunk'
       PROVE  frames'[i].id # chunk'[j].id + offset'
  <2>1. CASE i \in DOMAIN frames
    BY <1>1, <1>5, <1>10, <2>1 DEF RoomForChunk
  <2>2. CASE i \notin DOMAIN frames
    <3>1. frames'[i] = f
      BY <1>5, <2>2
    <3>2. chunk[j + 1].id # chunk[1].id
      <4>1. 1 \in DOMAIN chunk /\ j + 1 \in DOMAIN chunk /\ j + 1 # 1
        BY <1>6, <1>10
      <4> QED
        BY <4>1 DEF RoomForChunk, OneId
    <3> QED
      BY <1>1, <1>2, <1>3, <1>4, <1>7, <1>10, <3>1, <3>2
  <2> QED
    BY <2>1, <2>2
<1>14. \A j \in DOMAIN chunk' : chunk'[j].id < cam'.next
  BY <1>1, <1>10 DEF RoomForChunk
<1>15. offset' <= frames'[Len(frames')].id + 1
  BY <1>1, <1>3, <1>4, <1>5
<1> QED
  BY <1>9, <1>11, <1>12, <1>13, <1>14, <1>15 DEF RoomForChunk

\* A chunk that is complete leaves room for the next one.
LEMMA CompletingHasRoom ==
  ASSUME frames \in Seq(Frame), offset \in Nat, cam.next \in Nat, RoomForChunk
  PROVE  RoomAbove
<1> SUFFICES ASSUME frames # <<>>, NEW i \in DOMAIN frames
             PROVE  frames[i].id <= cam.next + frames[Len(frames)].id
  BY DEF RoomAbove
<1>1. Len(frames) \in DOMAIN frames /\ \A k \in DOMAIN frames : frames[k].id \in Nat
  BY FrameIds
<1>2. frames[i].id \in Nat /\ frames[Len(frames)].id \in Nat
  BY <1>1
<1>3. frames[i].id < cam.next + offset /\ offset <= frames[Len(frames)].id + 1
  BY DEF RoomForChunk
<1> QED
  BY <1>2, <1>3

\* Frames that are read back have the ids they were written with.
LEMMA ReloadedIds ==
  ASSUME NEW fs \in Seq(Frame)
  PROVE  /\ IdsUp(fs) => IdsUp(Reloaded(fs))
         /\ OneId(fs) => OneId(Reloaded(fs))
         /\ fs = <<>> => Reloaded(fs) = <<>>
<1>1. fs = <<>> => Reloaded(fs) = <<>>
  BY ReloadedKeeps, EmptySeq
<1> QED
  BY <1>1, ReloadedKeeps DEF IdsUp, OneId

\* Every step keeps the ids apart.
LEMMA IdStep ==
  ASSUME HashesAreNumbers, RunInv, RunInv', IdInv, [Next]_vars
  PROVE  IdInv'
<1>0. /\ frames \in Seq(Frame) /\ offset \in Nat /\ cam.next \in Nat /\ begins \in Nat
      /\ PullsTyped
  BY DEF RunInv, EvidenceInv, TimeInv, CameraInv, SimReady, CaptureInv
<1>1. ASSUME UNCHANGED <<plan, frames, begins>>, pc # "new",
             pc' \notin {"new", "stream", "append"},
             ~plan.soak /\ pc' \in {"discover", "configure", "apply", "open"} => frames = <<>>
      PROVE  IdInv'
  BY <1>1 DEF IdInv, NumbersOn, IdsUp, OneId
<1>2. ASSUME plan' = plan, frames' = frames \/ frames' = Reloaded(frames),
             begins' = begins + 1, CanBegin, pc' \in {"discover", "stream"}
      PROVE  IdInv'
  <2>1. pc # "new" => begins' > 1
    BY <1>0, <1>2 DEF IdInv
  <2>2. ~plan.soak => frames = <<>>
    BY <1>2 DEF IdInv, CanBegin
  <2>3. pc = "new" => frames = <<>>
    BY DEF RunInv, EvidenceInv, TimeInv
  <2>4. /\ frames = <<>> => frames' = <<>>
        /\ IdsUp(frames) => IdsUp(frames')
        /\ OneId(frames) => OneId(frames')
    BY <1>0, <1>2, ReloadedIds
  <2>5. NumbersOn' = NumbersOn
    BY <1>2 DEF NumbersOn
  <2> HIDE DEF NumbersOn
  <2> QED
    BY <1>0, <1>2, <2>1, <2>2, <2>3, <2>4, <2>5 DEF IdInv, RoomAbove
<1>3. ASSUME NEW t \in Clock, BeginSim(t) PROVE IdInv'
  BY <1>2, <1>3 DEF BeginSim, Recounted
<1>4. CASE BeginReal
  BY <1>2, <1>4 DEF BeginReal, captureVars
<1>5. ASSUME NEW t \in Clock, OpenCamera(t) PROVE IdInv'
  <2>1. /\ pc = "open" /\ pc' = "stream" /\ UNCHANGED <<plan, begins>>
        /\ frames' = Reloaded(frames)
    BY <1>5 DEF OpenCamera, Recounted
  <2>2. NumbersOn /\ NumbersOn' = NumbersOn
    BY <2>1, PlanAssumption DEF RunInv, EvidenceInv, RequestInv, BackendInv, FromSim, NumbersOn
  <2>3. /\ frames = <<>> => frames' = <<>>
        /\ IdsUp(frames) => IdsUp(frames')
    BY <1>0, <2>1, ReloadedIds
  <2> QED
    BY <2>1, <2>2, <2>3 DEF IdInv
<1>6. CASE PullSim \/ PullRealFrames
  <2>1. pc' = "append" /\ UNCHANGED <<plan, begins>> /\ NumbersOn' = NumbersOn /\ pc = "stream"
    BY <1>6 DEF PullSim, PullRealFrames, Pulled, NumbersOn
  <2> QED
    BY <1>6, <2>1, PullGoesOn, PullHasRoom DEF IdInv
<1>7. CASE AppendFrame
  <2>1. pc = "append" /\ UNCHANGED <<pc, plan, begins>> /\ NumbersOn' = NumbersOn
    BY <1>7 DEF AppendFrame, NumbersOn
  <2>2. NumbersOn => IdsUp(frames') /\ IdsUp(chunk') /\ NextGoesOn'
    BY <1>0, <1>7, <2>1, AppendGoesOn DEF IdInv
  <2>3. ~NumbersOn /\ begins <= 1 => OneId(frames') /\ RoomForChunk'
    BY <1>0, <1>7, <2>1, AppendHasRoom DEF IdInv
  <2> QED
    BY <2>1, <2>2, <2>3 DEF IdInv
<1>8. CASE CompleteChunk
  <2>1. /\ pc = "append" /\ UNCHANGED <<plan, begins, frames, cam>>
        /\ completed' = completed + span
        /\ pc' = IF completed' < plan.duration THEN "stream" ELSE "measure"
    BY <1>8 DEF CompleteChunk, cameraVars
  <2>2. ~plan.soak => pc' = "measure"
    <3>1. CaptureInv
      BY DEF RunInv, EvidenceInv
    <3>2. ~plan.soak => completed + span = plan.duration
      BY <2>1, <3>1, SpanFitsPlan DEF CaptureInv, NextSpan, PlanTimes
    <3> QED
      BY <2>1, <3>1, <3>2, SpanFitsPlan DEF PlanTimes
  <2>3. ~NumbersOn /\ begins <= 1 => RoomAbove
    BY <1>0, <2>1, CompletingHasRoom DEF IdInv
  <2>4. RoomAbove' = RoomAbove /\ NumbersOn' = NumbersOn /\ pc' \in {"stream", "measure"}
    BY <2>1 DEF RoomAbove, NumbersOn
  <2> QED
    BY <2>1, <2>2, <2>3, <2>4 DEF IdInv, IdsUp, OneId
<1>9. CASE Discovered \/ NothingDiscovered \/ KeyMapLoads \/ ApplyParam \/ ParamUnsupported
           \/ ReportApplied
  BY <1>1, <1>9
  DEF Discovered, NothingDiscovered, KeyMapLoads, ApplyParam, ParamUnsupported, ReportApplied,
      captureVars, IdInv
<1>10. CASE KeyMapFails \/ ReportRefusal \/ ReportFails \/ PullFails \/ Pause \/ Measure
  BY <1>1, <1>10
  DEF KeyMapFails, ReportRefusal, ReportFails, PullFails, Pause, Measure, Ends, captureVars
<1>11. CASE UNCHANGED vars
  BY <1>11
  DEF vars, captureVars, cameraVars, IdInv, NumbersOn, IdsUp, OneId, NextGoesOn, RoomAbove,
      RoomForChunk
<1> QED
  BY <1>3, <1>4, <1>5, <1>6, <1>7, <1>8, <1>9, <1>10, <1>11 DEF Next, Finished

LEMMA IdsAreKnown ==
  ASSUME HashesAreNumbers
  PROVE  Spec => []IdInv
<1>1. Init => IdInv
  BY DEF Init, IdInv, IdsUp, OneId
<1>2. RunInv /\ RunInv' /\ IdInv /\ [Next]_vars => IdInv'
  BY IdStep
<1> QED
  BY <1>1, <1>2, RunIsKnown, PTL DEF Spec

\* No id is given twice, however the time is cut into chunks: by a camera that numbers
\* in order, however often the run is resumed by a process that counts from 0 again; by
\* one that reorders, throughout one process (router.cpp, the frame id offset of a soak
\* chunk).
THEOREM IdsAreDistinct ==
  ASSUME HashesAreNumbers
  PROVE  Spec => []IdsDistinct
<1>1. RunInv /\ IdInv => IdsDistinct
  <2> SUFFICES ASSUME RunInv, IdInv, NumbersOn \/ begins <= 1,
                      NEW i \in DOMAIN frames, NEW j \in DOMAIN frames,
                      frames[i].id = frames[j].id
               PROVE  i = j
    BY DEF IdsDistinct, NumbersOn
  <2>1. i \in Nat /\ j \in Nat /\ frames[i].id \in Nat
    BY FrameIds DEF RunInv, EvidenceInv, TimeInv
  <2>2. CASE NumbersOn
    BY <2>1, <2>2 DEF IdInv, IdsUp
  <2>3. CASE ~NumbersOn
    BY <2>3 DEF IdInv, OneId
  <2> QED
    BY <2>2, <2>3
<1> QED
  BY <1>1, RunIsKnown, IdsAreKnown, PTL

-----------------------------------------------------------------------------
(***************************************************************************)
(* The report                                                              *)
(***************************************************************************)

\* Lists of frames of one outcome
Of(fs, outcome) == {i \in DOMAIN fs : fs[i].outcome = outcome}

\* The stamps of the received frames, each once and in order.
LEMMA ReceivedStamps ==
  ASSUME NEW fs \in Seq(Frame)
  PROVE  /\ Received(fs) \in Seq(Int) /\ Len(Received(fs)) = Tally(fs, "received")
         /\ \A i, j \in 1 .. Len(Received(fs)) : i <= j => Received(fs)[i] <= Received(fs)[j]
         /\ \E p :
              /\ Lists(p, Len(Received(fs)), Of(fs, "received"))
              /\ \A i \in 1 .. Len(Received(fs)) : Received(fs)[i] = fs[p[i]].ts
<1> DEFINE K    == Of(fs, "received")
           kept == Kept(fs, K)
           n    == Cardinality(K)
           s    == [i \in DOMAIN kept |-> kept[i].ts]
           at   == Ascending(K)
<1>1. DOMAIN fs = 1 .. Len(fs) /\ Len(fs) \in Nat /\ K \subseteq 1 .. Len(fs)
  BY LenProperties DEF Of
<1>2. /\ n \in Nat /\ IsFiniteSet(K) /\ at \in Seq(K) /\ Len(at) = n
      /\ \A i, j \in 1 .. n : at[i] = at[j] => i = j
      /\ \A k \in K : \E i \in 1 .. n : at[i] = k
  BY <1>1, AscendingProperties
<1>3. \A i \in 1 .. n : at[i] \in K
  BY <1>2
<1>4. Lists(at, n, K)
  BY <1>2, <1>3 DEF Lists
<1>5. /\ kept \in Seq(Frame) /\ Len(kept) = n /\ DOMAIN kept = 1 .. n
      /\ \A i \in 1 .. n : kept[i] = fs[at[i]]
  BY <1>1, KeptProperties
<1>6. \A i \in 1 .. n : kept[i].ts \in Int
  BY <1>5, FrameTimes
<1> HIDE DEF kept, at, n
<1>7. s \in [1 .. n -> Int]
  BY <1>5, <1>6
<1>8. s \in Seq(Int) /\ Len(s) = n /\ DOMAIN s = 1 .. n /\ \A i \in 1 .. n : s[i] = fs[at[i]].ts
  BY <1>2, <1>5, <1>7
<1>9. Received(fs) = Sorted(s)
  BY DEF Received, Of, kept
<1> HIDE DEF s
<1>10. PICK q : Lists(q, n, 1 .. n) /\ \A i \in 1 .. n : Sorted(s)[i] = s[q[i]]
  <2>1. PICK q : Lists(q, Len(s), DOMAIN s) /\ \A i \in 1 .. Len(s) : Sorted(s)[i] = s[q[i]]
    BY <1>8, SortedProperties
  <2> QED
    BY <1>8, <2>1
<1>11. /\ Sorted(s) \in Seq(Int) /\ Len(Sorted(s)) = n
       /\ \A i, j \in 1 .. n : i <= j => Sorted(s)[i] <= Sorted(s)[j]
  BY <1>8, SortedProperties
<1> DEFINE p == [i \in 1 .. n |-> at[q[i]]]
<1>12. /\ \A i \in 1 .. n : q[i] \in 1 .. n
       /\ \A i, j \in 1 .. n : q[i] = q[j] => i = j
       /\ \A d \in 1 .. n : \E i \in 1 .. n : q[i] = d
  BY <1>10 DEF Lists
<1>13. Lists(p, n, K)
  <2>1. \A i \in 1 .. n : p[i] = at[q[i]] /\ p[i] \in K
    BY <1>3, <1>12
  <2>2. ASSUME NEW i \in 1 .. n, NEW j \in 1 .. n, p[i] = p[j] PROVE i = j
    <3>1. at[q[i]] = at[q[j]] /\ q[i] \in 1 .. n /\ q[j] \in 1 .. n
      BY <1>12, <2>1, <2>2
    <3>2. q[i] = q[j]
      BY <1>2, <3>1
    <3> QED
      BY <1>12, <3>2
  <2>3. ASSUME NEW d \in K PROVE \E i \in 1 .. n : p[i] = d
    <3>1. PICK k \in 1 .. n : at[k] = d
      BY <1>2
    <3>2. PICK i \in 1 .. n : q[i] = k
      BY <1>12
    <3> QED
      BY <2>1, <3>1, <3>2
  <2> QED
    BY <2>1, <2>2, <2>3 DEF Lists
<1>14. \A i \in 1 .. n : Sorted(s)[i] = fs[p[i]].ts
  BY <1>8, <1>10, <1>12
<1>15. n = Tally(fs, "received")
  BY DEF n, Tally, Of
<1> HIDE DEF p, K
<1>16. \E x : Lists(x, n, K) /\ \A i \in 1 .. n : Sorted(s)[i] = fs[x[i]].ts
  BY <1>13, <1>14
<1> QED
  BY <1>9, <1>11, <1>15, <1>16 DEF K

\* Different frames have different stamps.
StampsApart(fs) == \A i, j \in DOMAIN fs : fs[i].ts = fs[j].ts => i = j

\* Then those received are one after the other.
LEMMA ReceivedClimb ==
  ASSUME NEW fs \in Seq(Frame), StampsApart(fs)
  PROVE  \A i, j \in 1 .. Len(Received(fs)) : i < j => Received(fs)[i] < Received(fs)[j]
<1> DEFINE ts == Received(fs)
           n  == Len(ts)
<1>1. ts \in Seq(Int) /\ \A i, j \in 1 .. n : i <= j => ts[i] <= ts[j]
  BY ReceivedStamps
<1>2. PICK p : Lists(p, n, Of(fs, "received")) /\ \A i \in 1 .. n : ts[i] = fs[p[i]].ts
  BY ReceivedStamps
<1> HIDE DEF ts
<1>3. \A i \in 1 .. n : ts[i] \in Int
  BY <1>1, ElementOfSeq
<1>4. ASSUME NEW i \in 1 .. n, NEW j \in 1 .. n, i < j
      PROVE  ts[i] < ts[j]
  <2>1. p[i] # p[j] /\ p[i] \in DOMAIN fs /\ p[j] \in DOMAIN fs
    BY <1>2, <1>4 DEF Lists, Of
  <2>2. ts[i] # ts[j]
    BY <1>2, <2>1 DEF StampsApart
  <2>3. ts[i] <= ts[j]
    BY <1>1, <1>4
  <2> QED
    BY <1>3, <2>2, <2>3
<1> QED
  BY <1>4 DEF ts

\* The left end of a window is the first sample in it.
LEMMA LeftEnds ==
  ASSUME NEW ts \in Seq(Int), \A i, j \in 1 .. Len(ts) : i < j => ts[i] < ts[j]
  PROVE  \A r \in 1 .. Len(ts) :
           /\ LeftEnd(ts)[r] \in 1 .. r
           /\ ts[LeftEnd(ts)[r]] >= ts[r] - Window
           /\ \A k \in 1 .. LeftEnd(ts)[r] - 1 : ts[k] < ts[r] - Window
<1> DEFINE n == Len(ts)
           Good(r, v, l) == /\ l = r \/ ts[l] >= ts[r] - Window
                            /\ \A k \in v .. l - 1 : ts[k] < ts[r] - Window
           G == [x \in (1 .. n) \X (1 .. n) |-> CHOOSE l \in x[2] .. x[1] : Good(x[1], x[2], l)]
           Firsts(r) == {l \in 1 .. r : ts[l] >= ts[r] - Window
                                      /\ \A k \in 1 .. l - 1 : ts[k] < ts[r] - Window}
           T == [r \in 0 .. n |-> IF r = 0 THEN {1} ELSE Firsts(r)]
           left == LeftEnd(ts)
<1>1. n \in Nat /\ Window \in Nat /\ \A i \in 1 .. n : ts[i] \in Int
  BY LenProperties, ElementOfSeq DEF Window
<1> HIDE DEF n
<1>2. ASSUME NEW r \in 1 .. n, NEW v \in T[r - 1]
      PROVE  /\ v \in 1 .. r /\ G[<<r, v>>] \in T[r]
             /\ \A k \in 1 .. v - 1 : ts[k] < ts[r] - Window
             /\ G[<<r, v>>] = CHOOSE l \in v .. r : Good(r, v, l)
  <2>1. r - 1 \in 0 .. n /\ r \in 0 .. n /\ r # 0 /\ T[r] = Firsts(r)
    BY <1>1
  <2>2. v \in 1 .. r /\ \A k \in 1 .. v - 1 : ts[k] < ts[r] - Window
    <3>1. CASE r = 1
      BY <2>1, <3>1
    <3>2. CASE r # 1
      <4>1. r - 1 \in 1 .. n /\ v \in Firsts(r - 1)
        BY <2>1, <3>2
      <4>2. ts[r - 1] < ts[r] /\ ts[r - 1] \in Int /\ ts[r] \in Int
        BY <1>1, <4>1 DEF n
      <4>3. v \in 1 .. r - 1 /\ \A k \in 1 .. v - 1 : ts[k] < ts[r - 1] - Window
        BY <4>1
      <4>4. ASSUME NEW k \in 1 .. v - 1 PROVE ts[k] < ts[r] - Window
        <5>1. k \in 1 .. n /\ ts[k] \in Int /\ ts[k] < ts[r - 1] - Window
          BY <1>1, <4>1, <4>3
        <5> QED
          BY <1>1, <4>2, <5>1
      <4> QED
        BY <4>1, <4>3, <4>4
    <3> QED
      BY <3>1, <3>2
  <2>3. v \in 1 .. n
    BY <1>1, <2>2
  <2>4. \E l \in v .. r : Good(r, v, l)
    <3> DEFINE S == {l \in v .. r : l = r \/ ts[l] >= ts[r] - Window}
    <3>1. S \subseteq Nat /\ r \in S
      BY <2>2
    <3>2. PICK l \in S : \A x \in S : l <= x
      BY <3>1, LeastNumber
    <3>3. ASSUME NEW k \in v .. l - 1 PROVE ts[k] < ts[r] - Window
      <4>0. l \in v .. r /\ v \in 1 .. r /\ r \in 1 .. n
        BY <2>2, <3>2
      <4>1. k \in v .. r /\ k # r /\ ~(l <= k) /\ k \in 1 .. n
        BY <1>1, <4>0
      <4>2. ~(ts[k] >= ts[r] - Window)
        BY <3>2, <4>1
      <4> QED
        BY <1>1, <4>1, <4>2
    <3> QED
      BY <3>2, <3>3
  <2>5. G[<<r, v>>] = CHOOSE l \in v .. r : Good(r, v, l)
    BY <2>3
  <2> DEFINE g == CHOOSE l \in v .. r : Good(r, v, l)
  <2>6. g \in v .. r /\ Good(r, v, g)
    BY <2>4
  <2> HIDE DEF g
  <2>7. g \in 1 .. r
    BY <2>2, <2>6
  <2>8. ts[g] >= ts[r] - Window
    BY <1>1, <2>6
  <2>9. ASSUME NEW k \in 1 .. g - 1 PROVE ts[k] < ts[r] - Window
    <3>1. CASE k < v
      BY <2>2, <3>1
    <3>2. CASE ~(k < v)
      BY <2>2, <2>6, <3>2
    <3> QED
      BY <3>1, <3>2
  <2>10. g \in Firsts(r)
    BY <2>7, <2>8, <2>9
  <2> QED
    BY <2>1, <2>2, <2>5, <2>10 DEF g
<1>3. 1 \in T[0]
  BY <1>1
<1> DEFINE F(f) == [r \in 0 .. n |-> IF r = 0 THEN 1
                                     ELSE CHOOSE l \in f[r - 1] .. r : Good(r, f[r - 1], l)]
<1>4. \A r \in 1 .. n : \A v \in T[r - 1] : G[<<r, v>>] \in T[r]
  BY <1>2
<1> HIDE DEF G, T, Good, Firsts
<1>5. PICK f : f = [i \in 0 .. n |-> f[i]] /\ Recurs(f, n, 1, G)
  BY <1>1, <1>3, <1>4, RecursionExists
<1>6. \A i \in 0 .. n : f[i] \in T[i]
  BY <1>1, <1>3, <1>4, <1>5, RecursionTyped
<1>7. f = F(f)
  <2>1. ASSUME NEW r \in 0 .. n PROVE f[r] = F(f)[r]
    <3>1. CASE r = 0
      BY <1>5, <3>1 DEF Recurs
    <3>2. CASE r # 0
      <4>1. r \in 1 .. n /\ r - 1 \in 0 .. n
        BY <1>1, <3>2
      <4>2. f[r] = G[<<r, f[r - 1]>>]
        BY <1>5, <4>1 DEF Recurs
      <4> QED
        BY <1>2, <1>6, <3>2, <4>1, <4>2
    <3> QED
      BY <3>1, <3>2
  <2> QED
    BY <1>5, <2>1
<1>8. left = CHOOSE g : g = F(g)
  BY DEF LeftEnd, Good, n
<1> HIDE DEF left
<1>9. left = F(left)
  <2> HIDE DEF F
  <2>1. \E g : g = F(g)
    BY <1>7
  <2> QED
    BY <1>8, <2>1
<1> HIDE DEF F
<1>10. left[0] = 1 /\ \A i \in 1 .. n : left[i - 1] \in T[i - 1] => left[i] = G[<<i, left[i - 1]>>]
  <2>1. 0 \in 0 .. n /\ left[0] = 1
    BY <1>1, <1>9 DEF F
  <2>2. ASSUME NEW i \in 1 .. n, left[i - 1] \in T[i - 1]
        PROVE  left[i] = G[<<i, left[i - 1]>>]
    <3>1. i \in 0 .. n /\ i # 0
      BY <1>1
    <3>2. left[i] = CHOOSE l \in left[i - 1] .. i : Good(i, left[i - 1], l)
      BY <1>9, <3>1 DEF F
    <3> QED
      BY <1>2, <2>2, <3>2
  <2> QED
    BY <2>1, <2>2
<1>11. \A i \in 0 .. n : left[i] \in T[i]
  <2> DEFINE S == {i \in 0 .. n : left[i] \in T[i]}
  <2>1. 0 \in S
    BY <1>1, <1>3, <1>10
  <2>2. \A k \in 0 .. n - 1 : k \in S => k + 1 \in S
    <3> SUFFICES ASSUME NEW k \in 0 .. n - 1, left[k] \in T[k] PROVE k + 1 \in S
      OBVIOUS
    <3>1. k + 1 \in 1 .. n /\ (k + 1) - 1 = k
      BY <1>1
    <3>2. left[k + 1] = G[<<k + 1, left[k]>>]
      BY <1>10, <3>1
    <3>3. left[k + 1] \in T[k + 1]
      BY <1>4, <3>1, <3>2
    <3> QED
      BY <3>1, <3>3
  <2>3. 0 .. n \subseteq S
    BY <1>1, <2>1, <2>2, CountingUp
  <2> QED
    BY <2>3
<1>12. \A r \in 1 .. n : left[r] \in Firsts(r)
  <2> SUFFICES ASSUME NEW r \in 1 .. n PROVE left[r] \in Firsts(r)
    OBVIOUS
  <2>1. r \in 0 .. n /\ r # 0
    BY <1>1
  <2> QED
    BY <1>11, <2>1 DEF T
<1> QED
  BY <1>12 DEF Firsts, left, n

\* Each rolling rate is the number of received frames in the window that ends there.
LEMMA RollingCounts ==
  ASSUME NEW fs \in Seq(Frame), StampsApart(fs), NEW r \in 1 .. Len(Received(fs))
  PROVE  Rolling(Received(fs))[r] =
           Cardinality({i \in DOMAIN fs :
             /\ fs[i].outcome = "received"
             /\ fs[i].ts \in Received(fs)[r] - Window .. Received(fs)[r]})
<1> DEFINE ts == Received(fs)
           n  == Len(ts)
           l  == LeftEnd(ts)[r]
           U  == {i \in DOMAIN fs : /\ fs[i].outcome = "received"
                                    /\ fs[i].ts \in ts[r] - Window .. ts[r]}
           T  == l .. r
<1>1. ts \in Seq(Int) /\ \A i, j \in 1 .. n : i < j => ts[i] < ts[j]
  BY ReceivedStamps, ReceivedClimb
<1>2. PICK p : Lists(p, n, Of(fs, "received")) /\ \A i \in 1 .. n : ts[i] = fs[p[i]].ts
  BY ReceivedStamps
<1>3. /\ l \in 1 .. r
      /\ ts[l] >= ts[r] - Window
      /\ \A k \in 1 .. l - 1 : ts[k] < ts[r] - Window
  BY <1>1, LeftEnds
<1>4. Rolling(ts)[r] = r - l + 1
  <2>1. DOMAIN ts = 1 .. n
    BY <1>1, LenProperties
  <2> QED
    BY <2>1 DEF Rolling
<1> HIDE DEF ts, l
<1>5. /\ n \in Nat /\ Window \in Nat /\ \A i \in 1 .. n : ts[i] \in Int
      /\ r \in 1 .. n /\ l \in 1 .. n
  BY <1>1, <1>3, LenProperties, ElementOfSeq DEF Window, ts
<1> HIDE DEF n
<1>6. ASSUME NEW k \in 1 .. n
      PROVE  k \in T <=> ts[k] \in ts[r] - Window .. ts[r]
  <2>1. CASE k < l
    <3>1. k \in 1 .. l - 1
      BY <1>5, <2>1
    <3>2. ts[k] < ts[r] - Window
      BY <1>3, <3>1
    <3> QED
      BY <1>5, <2>1, <3>2
  <2>2. CASE k > r
    <3>1. ts[r] < ts[k]
      BY <1>1, <1>5, <2>2 DEF n
    <3> QED
      BY <1>5, <2>2, <3>1
  <2>3. CASE ~(k < l) /\ ~(k > r)
    <3>1. ts[l] <= ts[k]
      BY <1>1, <1>5, <2>3 DEF n
    <3>2. ts[k] <= ts[r]
      BY <1>1, <1>5, <2>3 DEF n
    <3> QED
      BY <1>3, <1>5, <2>3, <3>1, <3>2
  <2> QED
    BY <2>1, <2>2, <2>3
<1>7. U \subseteq Of(fs, "received")
  BY DEF Of
<1>8. PlacesOf(T, p, n, U)
  <2>1. T \subseteq 1 .. n
    BY <1>3, <1>5
  <2>2. ASSUME NEW k \in 1 .. n PROVE k \in T <=> p[k] \in U
    <3>1. p[k] \in Of(fs, "received") /\ ts[k] = fs[p[k]].ts
      BY <1>2 DEF Lists, n
    <3>2. p[k] \in U <=> ts[k] \in ts[r] - Window .. ts[r]
      BY <3>1 DEF Of
    <3> HIDE DEF T, U
    <3> QED
      BY <1>6, <3>2
  <2> HIDE DEF T, U
  <2> QED
    BY <2>1, <2>2 DEF PlacesOf
<1>9. Cardinality(T) = r - l + 1
  BY <1>3, <1>5, FS_Interval
<1>10. Lists(p, n, Of(fs, "received"))
  BY <1>2 DEF n
<1>11. Cardinality(T) = Cardinality(U)
  <2> HIDE DEF T, U
  <2> QED
    BY <1>5, <1>7, <1>8, <1>10, CountedThrough
<1> QED
  BY <1>4, <1>9, <1>11 DEF ts

\* What the distribution of some samples says.
LEMMA PercentileCounts ==
  ASSUME NEW s \in Seq(Int), Stats(s).n > 0
  PROVE  /\ Stats(s).n = Len(s)
         /\ 100 * Cardinality({i \in DOMAIN s : s[i] <= Stats(s).p95}) >= 95 * Stats(s).n
         /\ 100 * Cardinality({i \in DOMAIN s : s[i] <= Stats(s).p95 - 1}) < 95 * Stats(s).n
<1>1. s # <<>>
  BY DEF Stats, NoStats
<1>2. Len(s) \in Nat /\ Len(s) >= 1
  BY <1>1, EmptySeq, LenProperties
<1> DEFINE k == (95 * Len(s) + 99) \div 100
<1>3. k \in 1 .. Len(s) /\ 100 * k >= 95 * Len(s) /\ 100 * k <= 95 * Len(s) + 99
  BY <1>2
<1>4. Stats(s).n = Len(s) /\ Stats(s).p95 = Sorted(s)[k]
  BY <1>1 DEF Stats, P95
<1> HIDE DEF k
<1> DEFINE a == Cardinality({i \in DOMAIN s : s[i] <= Sorted(s)[k]})
           b == Cardinality({i \in DOMAIN s : s[i] <= Sorted(s)[k] - 1})
<1>5. a \in Nat /\ b \in Nat /\ k <= a /\ b < k
  BY <1>3, RankInSorted
<1>6. a = Cardinality({i \in DOMAIN s : s[i] <= Stats(s).p95})
      /\ b = Cardinality({i \in DOMAIN s : s[i] <= Stats(s).p95 - 1})
  BY <1>4
<1> HIDE DEF a, b
<1>7. 100 * a >= 95 * Len(s) /\ 100 * b < 95 * Len(s)
  BY <1>2, <1>3, <1>5
<1> QED
  BY <1>4, <1>6, <1>7

\* Frames are counted by what became of them.
LEMMA OutcomesAddUp ==
  ASSUME NEW fs \in Seq(Frame)
  PROVE  /\ Cardinality({i \in DOMAIN fs : fs[i].outcome # "received"})
              = Len(fs) - Tally(fs, "received")
         /\ Tally(fs, "dropped") + Tally(fs, "timeout") + Tally(fs, "incomplete")
              = Len(fs) - Tally(fs, "received")
<1> DEFINE D == DOMAIN fs
           R == Of(fs, "received")
           A == Of(fs, "dropped")
           B == Of(fs, "timeout")
           C == Of(fs, "incomplete")
           L == {i \in DOMAIN fs : fs[i].outcome # "received"}
<1>0. D = 1 .. Len(fs) /\ Len(fs) \in Nat /\ \A i \in D : fs[i] \in Frame
  BY LenProperties, ElementOfSeq
<1>1. IsFiniteSet(D) /\ Cardinality(D) = Len(fs)
  BY <1>0, FS_Interval
<1>2. \A i \in D : fs[i].outcome \in {"received", "dropped", "timeout", "incomplete"}
  BY <1>0 DEF Frame, Outcomes
<1>3. /\ R \subseteq D /\ A \subseteq D /\ B \subseteq D /\ C \subseteq D /\ L \subseteq D
  BY DEF Of
<1>4. D = R \cup L /\ R \cap L = {} /\ L = (A \cup B) \cup C /\ A \cap B = {}
      /\ (A \cup B) \cap C = {}
  BY <1>2 DEF Of
<1> HIDE DEF D, R, A, B, C, L
<1>5. /\ IsFiniteSet(R) /\ IsFiniteSet(A) /\ IsFiniteSet(B) /\ IsFiniteSet(C) /\ IsFiniteSet(L)
  BY <1>1, <1>3, FS_Subset
<1>6. /\ Cardinality(R) \in Nat /\ Cardinality(A) \in Nat /\ Cardinality(B) \in Nat
      /\ Cardinality(C) \in Nat /\ Cardinality(L) \in Nat
  BY <1>5, FS_CardinalityType
<1>7. ASSUME NEW S, NEW T, IsFiniteSet(S), IsFiniteSet(T), S \cap T = {}
      PROVE  /\ IsFiniteSet(S \cup T) /\ Cardinality(S) \in Nat /\ Cardinality(T) \in Nat
             /\ Cardinality(S \cup T) = Cardinality(S) + Cardinality(T)
  <2>1. /\ IsFiniteSet(S \cup T)
        /\ Cardinality(S \cup T) = Cardinality(S) + Cardinality(T) - Cardinality(S \cap T)
    BY <1>7, FS_Union
  <2>2. Cardinality(S \cap T) = 0
    BY <1>7, FS_EmptySet
  <2>3. Cardinality(S) \in Nat /\ Cardinality(T) \in Nat
    BY <1>7, FS_CardinalityType
  <2> QED
    BY <2>1, <2>2, <2>3
<1>8. Cardinality(D) = Cardinality(R) + Cardinality(L)
  BY <1>4, <1>5, <1>7
<1>9. IsFiniteSet(A \cup B) /\ Cardinality(A \cup B) = Cardinality(A) + Cardinality(B)
  BY <1>4, <1>5, <1>7
<1>10. Cardinality(L) = Cardinality(A \cup B) + Cardinality(C)
  BY <1>4, <1>5, <1>7, <1>9
<1>11. /\ Tally(fs, "received") = Cardinality(R) /\ Tally(fs, "dropped") = Cardinality(A)
       /\ Tally(fs, "timeout") = Cardinality(B) /\ Tally(fs, "incomplete") = Cardinality(C)
  BY DEF Tally, Of, R, A, B, C
<1> QED
  BY <1>0, <1>1, <1>6, <1>8, <1>9, <1>10, <1>11 DEF L

\* One more frame.
LEMMA TallyAppended ==
  ASSUME NEW fs \in Seq(Frame), NEW f \in Frame, NEW o
  PROVE  Tally(Append(fs, f), o)
           = Tally(fs, o) + (IF f.outcome = o THEN 1 ELSE 0)
<1> DEFINE gs == Append(fs, f)
           R  == Of(fs, o)
           n  == Len(fs)
<1>1. /\ DOMAIN fs = 1 .. n /\ n \in Nat /\ DOMAIN gs = 1 .. n + 1
      /\ \A i \in 1 .. n : gs[i] = fs[i]
      /\ gs[n + 1] = f
  BY LenProperties, AppendProperties
<1>2. IsFiniteSet(R) /\ n + 1 \notin R
  <2>1. IsFiniteSet(1 .. n)
    BY <1>1, FS_Interval
  <2> QED
    BY <1>1, <2>1, FS_Subset DEF Of
<1>3. /\ Tally(gs, o) = Cardinality(Of(gs, o))
      /\ Tally(fs, o) = Cardinality(R)
  BY DEF Tally, Of
<1>4. Of(gs, o) = IF f.outcome = o THEN R \cup {n + 1} ELSE R
  <2> HIDE DEF gs, n
  <2>1. ASSUME NEW i \in 1 .. n + 1
        PROVE  gs[i].outcome = o <=> i \in R \/ (i = n + 1 /\ f.outcome = o)
    <3>1. CASE i \in 1 .. n
      BY <1>1, <3>1 DEF Of
    <3>2. CASE i \notin 1 .. n
      <4>1. i = n + 1
        BY <1>1, <3>2
      <4> QED
        BY <1>1, <1>2, <4>1
    <3> QED
      BY <3>1, <3>2
  <2>2. R \subseteq 1 .. n + 1 /\ n + 1 \in 1 .. n + 1
    BY <1>1 DEF Of
  <2>3. Of(gs, o) = {i \in 1 .. n + 1 : gs[i].outcome = o}
    BY <1>1 DEF Of
  <2> HIDE DEF R
  <2> QED
    BY <2>1, <2>2, <2>3
<1> HIDE DEF R
<1>5. Cardinality(R) \in Nat /\ Cardinality(R \cup {n + 1}) = Cardinality(R) + 1
  BY <1>2, FS_CardinalityType, FS_AddElement
<1>6. CASE f.outcome = o
  BY <1>3, <1>4, <1>5, <1>6
<1>7. CASE f.outcome # o
  BY <1>3, <1>4, <1>5, <1>7
<1> QED
  BY <1>6, <1>7

\* What was counted is what there is, what was logged by this process is what its frames
\* say of themselves; and frames of a single pull keep the stamps they
\* were delivered with, which differ.
TallyInv ==
  /\ received = Tally(frames, "received")
  /\ dropped = Len(frames) - Tally(frames, "received")
  /\ logged \in [Outcomes -> Nat]
  /\ \A o \in {"timeout", "incomplete"} : logged[o] = Tally(frames, o)
  /\ ~plan.soak =>
       /\ StampsApart(frames)
       /\ pc = "append" =>
            /\ StampsApart(chunk)
            /\ \A i \in DOMAIN frames : \A j \in DOMAIN chunk : frames[i].ts # chunk[j].ts

\* A pull delivers frames with different stamps.
LEMMA PulledApart ==
  ASSUME HashesAreNumbers, RunInv, PullSim \/ PullRealFrames
  PROVE  StampsApart(chunk')
<1>0. NextSpan \in Nat /\ SimReady /\ RealReady
  BY SpanFitsPlan, CameraReady DEF RunInv, EvidenceInv, CameraInv
<1>1. CASE PullSim
  <2>1. chunk' = Delivered(NextSpan) /\ cfg.fps > 0
    BY <1>1 DEF PullSim, Pulled, Usable
  <2>2. Distinct(Delivered(NextSpan))
    BY <1>0, <2>1, DeliveredFrames
  <2> QED
    BY <2>1, <2>2 DEF Distinct, StampsApart
<1>2. CASE PullRealFrames
  <2>1. chunk' = RealFrames(NextSpan)
    BY <1>2 DEF PullRealFrames, Pulled
  <2>2. Distinct(RealFrames(NextSpan))
    BY <1>0, RealFramesOnce
  <2> QED
    BY <2>1, <2>2 DEF Distinct, StampsApart
<1> QED
  BY <1>1, <1>2

\* Appending a frame counts it and, in a single pull, leaves its stamp alone.
LEMMA AppendedTally ==
  ASSUME frames \in Seq(Frame), offset \in Nat, PullsTyped, TallyInv, frames' \in Seq(Frame),
         latest = <<>> \/ \E ts \in Int : latest = <<ts>>, AppendFrame
  PROVE  TallyInv'
<1> DEFINE h == Head(chunk)
           f == Normalised(h)
<1>1. /\ pc = "append" /\ chunk # <<>> /\ chunk' = Tail(chunk) /\ UNCHANGED <<pc, plan>>
      /\ frames' = Append(frames, f)
      /\ received' = received + (IF f.outcome = "received" THEN 1 ELSE 0)
      /\ dropped' = dropped + (IF f.outcome = "received" THEN 0 ELSE 1)
  BY DEF AppendFrame
<1>2. h \in Frame /\ h = chunk[1]
  BY <1>1, HeadTailProperties DEF PullsTyped
<1>3. ~plan.soak => f.ts = h.ts
  BY <1>2 DEF Normalised, Frame
<1> HIDE DEF h, f
<1>4. /\ DOMAIN frames = 1 .. Len(frames) /\ Len(frames) \in Nat
      /\ DOMAIN frames' = 1 .. Len(frames) + 1 /\ Len(frames') = Len(frames) + 1
      /\ \A i \in 1 .. Len(frames) : frames'[i] = frames[i]
      /\ frames'[Len(frames) + 1] = f
  BY <1>1, LenProperties, AppendProperties
<1>5. f \in Frame
  BY <1>4, ElementOfSeq
<1>6. /\ Tally(frames', "received")
           = Tally(frames, "received") + (IF f.outcome = "received" THEN 1 ELSE 0)
      /\ Tally(frames, "received") \in Nat
  BY <1>1, <1>5, TallyAppended, TallyType
<1>7. /\ received' = Tally(frames', "received")
      /\ dropped' = Len(frames') - Tally(frames', "received")
  <2>0. received = Tally(frames, "received") /\ dropped = Len(frames) - received
    BY DEF TallyInv
  <2>1. CASE f.outcome = "received"
    <3>1. /\ received' = received + 1 /\ dropped' = dropped + 0
          /\ Tally(frames', "received") = Tally(frames, "received") + 1
      BY <1>1, <1>6, <2>1
    <3> QED
      BY <1>4, <1>6, <2>0, <3>1
  <2>2. CASE f.outcome # "received"
    <3>1. /\ received' = received + 0 /\ dropped' = dropped + 1
          /\ Tally(frames', "received") = Tally(frames, "received") + 0
      BY <1>1, <1>6, <2>2
    <3> QED
      BY <1>4, <1>6, <2>0, <3>1
  <2> QED
    BY <2>1, <2>2
<1>8. /\ DOMAIN chunk = 1 .. Len(chunk) /\ Len(chunk) \in Nat /\ Len(chunk) >= 1
      /\ DOMAIN chunk' = 1 .. Len(chunk) - 1
      /\ \A i \in 1 .. Len(chunk) - 1 : chunk'[i] = chunk[i + 1]
  BY <1>1, FrameIds, HeadTailProperties, LenProperties DEF PullsTyped
<1>9. ASSUME ~plan.soak
      PROVE  /\ StampsApart(frames') /\ StampsApart(chunk')
             /\ \A i \in DOMAIN frames' : \A j \in DOMAIN chunk' : frames'[i].ts # chunk'[j].ts
  <2>1. /\ StampsApart(frames) /\ StampsApart(chunk)
        /\ \A i \in DOMAIN frames : \A j \in DOMAIN chunk : frames[i].ts # chunk[j].ts
    BY <1>1, <1>9 DEF TallyInv
  <2>2. f.ts = chunk[1].ts /\ 1 \in DOMAIN chunk
    BY <1>2, <1>3, <1>8, <1>9
  <2>3. \A j \in DOMAIN chunk' : j + 1 \in DOMAIN chunk /\ chunk'[j] = chunk[j + 1] /\ j + 1 # 1
    BY <1>8
  <2>4. StampsApart(frames')
    <3> SUFFICES ASSUME NEW i \in DOMAIN frames', NEW j \in DOMAIN frames',
                        frames'[i].ts = frames'[j].ts
                 PROVE  i = j
      BY DEF StampsApart
    <3>1. CASE i \in DOMAIN frames /\ j \in DOMAIN frames
      BY <1>4, <2>1, <3>1 DEF StampsApart
    <3>2. CASE i \notin DOMAIN frames \/ j \notin DOMAIN frames
      BY <1>4, <2>1, <2>2, <3>2
    <3> QED
      BY <3>1, <3>2
  <2>5. StampsApart(chunk')
    <3> SUFFICES ASSUME NEW i \in DOMAIN chunk', NEW j \in DOMAIN chunk',
                        chunk'[i].ts = chunk'[j].ts
                 PROVE  i = j
      BY DEF StampsApart
    <3>1. i + 1 = j + 1
      BY <2>1, <2>3 DEF StampsApart
    <3> QED
      BY <1>8, <3>1
  <2>6. ASSUME NEW i \in DOMAIN frames', NEW j \in DOMAIN chunk'
        PROVE  frames'[i].ts # chunk'[j].ts
    <3>1. CASE i \in DOMAIN frames
      BY <1>4, <2>1, <2>3, <3>1
    <3>2. CASE i \notin DOMAIN frames
      <4>1. frames'[i].ts = chunk[1].ts
        BY <1>4, <2>2, <3>2
      <4> QED
        BY <2>1, <2>2, <2>3, <4>1 DEF StampsApart
    <3> QED
      BY <3>1, <3>2
  <2> QED
    BY <2>4, <2>5, <2>6
<1>10. /\ logged' \in [Outcomes -> Nat]
       /\ \A o \in {"timeout", "incomplete"} : logged'[o] = Tally(frames', o)
  <2>1. logged \in [Outcomes -> Nat] /\ logged' = [logged EXCEPT ![f.outcome] = @ + 1]
    BY DEF AppendFrame, TallyInv, f, h
  <2>2. ASSUME NEW o \in {"timeout", "incomplete"} PROVE logged'[o] = Tally(frames', o)
    <3>1. /\ Tally(frames', o) = Tally(frames, o) + (IF f.outcome = o THEN 1 ELSE 0)
          /\ logged[o] = Tally(frames, o) /\ Tally(frames, o) \in Nat
      BY <1>1, <1>5, TallyAppended, TallyType DEF TallyInv
    <3>2. logged'[o] = IF f.outcome = o THEN logged[o] + 1 ELSE logged[o]
      BY <2>1 DEF Outcomes
    <3> QED
      BY <3>1, <3>2
  <2> QED
    BY <2>1, <2>2, OneMoreLogged
<1> QED
  BY <1>1, <1>7, <1>9, <1>10 DEF TallyInv

\* No loss that is read back is known for a timeout or an incomplete frame.
LEMMA NoneReloaded ==
  ASSUME NEW fs \in Seq(Frame), NEW o \in {"timeout", "incomplete"}
  PROVE  Tally(Reloaded(fs), o) = 0
<1>1. {i \in DOMAIN Reloaded(fs) : Reloaded(fs)[i].outcome = o} = {}
  BY ReloadedKeeps
<1> QED
  BY <1>1, FS_EmptySet DEF Tally

\* Every step keeps the counts.
LEMMA TallyStep ==
  ASSUME HashesAreNumbers, RunInv, RunInv', IdInv, TallyInv, [Next]_vars
  PROVE  TallyInv'
<1>0. /\ frames \in Seq(Frame) /\ frames' \in Seq(Frame) /\ offset \in Nat /\ PullsTyped
      /\ latest = <<>> \/ \E ts \in Int : latest = <<ts>>
  BY DEF RunInv, EvidenceInv, TimeInv
<1>1. ASSUME UNCHANGED <<plan, frames, received, dropped, logged>>, pc' # "append"
      PROVE  TallyInv'
  BY <1>1 DEF TallyInv
<1>2. ASSUME NEW t \in Clock, BeginSim(t) \/ OpenCamera(t) PROVE TallyInv'
  <2>1. /\ pc' = "stream" /\ plan' = plan /\ frames' = Reloaded(frames)
        /\ received' = Tally(frames', "received")
        /\ dropped' = Len(frames') - Tally(frames', "received")
        /\ logged' = NoneLogged
    BY <1>2 DEF BeginSim, OpenCamera, Recounted
  <2>2. \A o \in {"timeout", "incomplete"} : Tally(frames', o) = 0
    BY <1>0, <2>1, NoneReloaded
  <2>3. /\ logged' \in [Outcomes -> Nat]
        /\ \A o \in {"timeout", "incomplete"} : logged'[o] = Tally(frames', o)
    BY <2>1, <2>2 DEF NoneLogged, Outcomes
  <2>4. StampsApart(frames) => StampsApart(frames')
    BY <1>0, <2>1, ReloadedKeeps DEF StampsApart
  <2> QED
    BY <2>1, <2>3, <2>4 DEF TallyInv
<1>3. CASE PullSim \/ PullRealFrames
  <2>1. /\ pc = "stream" /\ pc' = "append"
        /\ UNCHANGED <<plan, frames, received, dropped, logged>>
    BY <1>3 DEF PullSim, PullRealFrames, Pulled
  <2>2. StampsApart(chunk')
    BY <1>3, PulledApart
  <2>3. ~plan.soak => DOMAIN frames = {}
    BY <2>1 DEF IdInv
  <2> QED
    BY <2>1, <2>2, <2>3 DEF TallyInv
<1>4. CASE AppendFrame
  BY <1>0, <1>4, AppendedTally
<1>5. CASE CompleteChunk
  BY <1>1, <1>5 DEF CompleteChunk
<1>6. CASE PullFails \/ Pause \/ Measure
  BY <1>1, <1>6 DEF PullFails, Pause, Measure, Ends, captureVars
<1>7. CASE BeginReal \/ Discovered \/ NothingDiscovered \/ KeyMapLoads \/ ApplyParam
           \/ ParamUnsupported \/ ReportApplied
  BY <1>1, <1>7
  DEF BeginReal, Discovered, NothingDiscovered, KeyMapLoads, ApplyParam, ParamUnsupported,
      ReportApplied, captureVars
<1>8. CASE KeyMapFails \/ ReportRefusal \/ ReportFails
  BY <1>1, <1>8 DEF KeyMapFails, ReportRefusal, ReportFails, Ends, captureVars
<1>9. CASE UNCHANGED vars
  BY <1>9 DEF vars, captureVars, TallyInv
<1> QED
  BY <1>2, <1>3, <1>4, <1>5, <1>6, <1>7, <1>8, <1>9 DEF Next, Finished

LEMMA TallyIsKnown ==
  ASSUME HashesAreNumbers
  PROVE  Spec => []TallyInv
<1>1. Init => TallyInv
  <2> SUFFICES ASSUME Init PROVE TallyInv
    OBVIOUS
  <2>1. frames = <<>> /\ received = 0 /\ dropped = 0 /\ pc = "new" /\ DOMAIN frames = {}
    BY DEF Init
  <2>2. \A o : {i \in DOMAIN frames : frames[i].outcome = o} = {}
    BY <2>1
  <2>3. \A o : Tally(frames, o) = 0
    BY <2>2, FS_EmptySet DEF Tally
  <2>4. /\ logged \in [Outcomes -> Nat]
        /\ \A o \in {"timeout", "incomplete"} : logged[o] = Tally(frames, o)
    BY <2>3 DEF Init, NoneLogged, Outcomes
  <2> QED
    BY <2>1, <2>3, <2>4 DEF TallyInv, StampsApart
<1>2. RunInv /\ RunInv' /\ IdInv /\ TallyInv /\ [Next]_vars => TallyInv'
  BY TallyStep
<1> QED
  BY <1>1, <1>2, RunIsKnown, IdsAreKnown, PTL DEF Spec

\* What the property says of a report r on the frames fs.
TellsOf(r, fs, kept, lost, timeouts, incomplete) ==
  /\ r.total = Len(fs) /\ r.received = kept /\ r.dropped = lost
  /\ r.timeout = timeouts /\ r.incomplete = incomplete
  /\ r.generic + r.timeout + r.incomplete = lost
  /\ \A k \in DOMAIN r.ends :
       r.rolling[k] =
         Cardinality({i \in DOMAIN fs :
           /\ fs[i].outcome = "received"
           /\ fs[i].ts \in r.ends[k] - Window .. r.ends[k]})
  /\ LET gaps == Intervals(r.ends)
         upTo(x) == Cardinality({i \in DOMAIN gaps : gaps[i] <= x})
     IN  r.interval.n > 0 =>
           /\ 100 * upTo(r.interval.p95) >= 95 * r.interval.n
           /\ 100 * upTo(r.interval.p95 - 1) < 95 * r.interval.n

\* A report tells what there is to tell of frames with different stamps.
LEMMA ReportTells ==
  ASSUME NEW fs \in Seq(Frame), StampsApart(fs), NEW duration
  PROVE  TellsOf(Report(fs, duration), fs, Tally(fs, "received"),
                 Len(fs) - Tally(fs, "received"), Tally(fs, "timeout"), Tally(fs, "incomplete"))
<1> DEFINE ts   == Received(fs)
           gaps == IF Len(ts) < 2 THEN <<>> ELSE Intervals(ts)
           r    == Report(fs, duration)
<1>1. /\ r.total = Len(fs) /\ r.received = Len(ts) /\ r.ends = ts /\ r.rolling = Rolling(ts)
      /\ r.generic = Tally(fs, "dropped") /\ r.timeout = Tally(fs, "timeout")
      /\ r.incomplete = Tally(fs, "incomplete")
      /\ r.dropped = Cardinality({i \in DOMAIN fs : fs[i].outcome # "received"})
      /\ r.interval = Stats(gaps)
  BY DEF Report
<1>2. ts \in Seq(Int) /\ Len(ts) = Tally(fs, "received")
  BY ReceivedStamps
<1>3. \A k \in DOMAIN ts :
        Rolling(ts)[k] =
          Cardinality({i \in DOMAIN fs :
            /\ fs[i].outcome = "received"
            /\ fs[i].ts \in ts[k] - Window .. ts[k]})
  BY <1>2, RollingCounts, LenProperties
<1>4. ASSUME Stats(gaps).n > 0
      PROVE  /\ 100 * Cardinality({i \in DOMAIN Intervals(ts) :
                                     Intervals(ts)[i] <= Stats(gaps).p95})
                  >= 95 * Stats(gaps).n
             /\ 100 * Cardinality({i \in DOMAIN Intervals(ts) :
                                     Intervals(ts)[i] <= Stats(gaps).p95 - 1})
                  < 95 * Stats(gaps).n
  <2> HIDE DEF ts
  <2>1. gaps # <<>>
    BY <1>4 DEF Stats, NoStats
  <2>2. gaps = Intervals(ts) /\ ~(Len(ts) < 2)
    BY <2>1
  <2>3. gaps \in Seq(Int)
    <3>1. DOMAIN ts = 1 .. Len(ts) /\ Len(ts) \in Nat /\ \A i \in DOMAIN ts : ts[i] \in Int
      BY <1>2, LenProperties, ElementOfSeq
    <3>2. \A i \in 1 .. Len(ts) - 1 : ts[i + 1] - ts[i] \in Int
      BY <3>1
    <3>3. Intervals(ts) \in [1 .. Len(ts) - 1 -> Int] /\ Len(ts) - 1 \in Nat
      BY <2>2, <3>1, <3>2 DEF Intervals
    <3> QED
      BY <2>2, <3>3
  <2> HIDE DEF gaps
  <2> QED
    BY <1>4, <2>2, <2>3, PercentileCounts
<1> HIDE DEF ts, gaps, r
<1>5. /\ r.dropped = Len(fs) - Tally(fs, "received")
      /\ r.generic + r.timeout + r.incomplete = Len(fs) - Tally(fs, "received")
  BY <1>1, OutcomesAddUp
<1>6. TellsOf(r, fs, Tally(fs, "received"), Len(fs) - Tally(fs, "received"),
              Tally(fs, "timeout"), Tally(fs, "incomplete"))
  BY <1>1, <1>2, <1>3, <1>4, <1>5 DEF TellsOf
<1> QED
  BY <1>6 DEF r

\* A run that has ended has reported on its frames.
ReportInv ==
  pc = "done" =>
    /\ TellsOf(report, frames, received, dropped, logged["timeout"], logged["incomplete"])
    /\ report.received = received /\ report.dropped = dropped
    /\ highlights = Highlights(report, plan.config.fps, failures)
    /\ failures = Failures(plan.thresholds, report)

LEMMA ReportStep ==
  ASSUME RunInv, TallyInv, ReportInv, [Next]_vars
  PROVE  ReportInv'
<1>1. CASE Measure
  <2>1. /\ report' = Report(frames, plan.duration)
        /\ UNCHANGED <<plan, frames, received, dropped, logged>>
        /\ failures' = Failures(plan.thresholds, report')
        /\ highlights' = Highlights(report', plan.config.fps, failures')
    BY <1>1 DEF Measure, captureVars
  <2>2. frames \in Seq(Frame) /\ StampsApart(frames)
    <3>1. frames \in Seq(Frame) /\ (plan.soak => InOrder(frames))
      BY DEF RunInv, EvidenceInv, TimeInv
    <3>2. plan.soak => StampsApart(frames)
      <4> SUFFICES ASSUME plan.soak, NEW i \in DOMAIN frames, NEW j \in DOMAIN frames,
                          frames[i].ts = frames[j].ts
                   PROVE  i = j
        BY DEF StampsApart
      <4>1. i \in Nat /\ j \in Nat /\ frames[i].ts \in Int /\ frames[j].ts \in Int
        BY <3>1, FrameTimes
      <4> QED
        BY <3>1, <4>1 DEF InOrder
    <3> QED
      BY <3>1, <3>2 DEF TallyInv
  <2>3. TellsOf(report', frames, received, dropped, logged["timeout"], logged["incomplete"])
    BY <2>1, <2>2, ReportTells DEF TallyInv
  <2>4. report'.received = received /\ report'.dropped = dropped
    BY <2>3 DEF TellsOf
  <2> QED
    BY <2>1, <2>3, <2>4 DEF ReportInv
<1>2. CASE pc' # "done"
  BY <1>2 DEF ReportInv
<1>3. CASE UNCHANGED vars
  BY <1>3 DEF vars, captureVars, verdictVars, ReportInv
<1>4. [Next]_vars => Measure \/ pc' # "done" \/ UNCHANGED vars
  BY DEF Next, BeginSim, OpenCamera, BeginReal, Discovered, NothingDiscovered, KeyMapFails,
         KeyMapLoads, ApplyParam, ParamUnsupported, ReportRefusal, ReportApplied, ReportFails,
         PullSim, PullRealFrames, Pulled, PullFails, AppendFrame, CompleteChunk, Pause, Finished,
         Ends
<1> QED
  BY <1>1, <1>2, <1>3, <1>4

LEMMA ReportIsKnown ==
  ASSUME HashesAreNumbers
  PROVE  Spec => []ReportInv
<1>1. Init => ReportInv
  BY DEF Init, ReportInv
<1>2. RunInv /\ TallyInv /\ ReportInv /\ [Next]_vars => ReportInv'
  BY ReportStep
<1> QED
  BY <1>1, <1>2, RunIsKnown, TallyIsKnown, PTL DEF Spec

\* The metrics of a run say what its evidence is: the counts are those kept while it
\* ran, the timeouts and incomplete frames are those its last process logged, every
\* rolling rate counts the frames of its second and the percentile of the intervals is
\* one (ComputeFpsReport, fps.cpp), on either camera and for every plan.
THEOREM ReportIsEvidence ==
  ASSUME HashesAreNumbers
  PROVE  Spec => []ReportMatchesEvidence
<1>1. ReportInv => ReportMatchesEvidence
  BY DEF ReportInv, TellsOf, ReportMatchesEvidence
<1> QED
  BY <1>1, ReportIsKnown, PTL

\* What a line of the highlights may say
Notes ==
  {"resend spike", "jitter cliff", "periodic stall", "nothing received", "frames dropped",
   "slow", "uneven", "jittery", "avg_fps", "drop_rate", "interval_p95", "jitter_p95"}

\* Lines put together say nothing only if none of them does.
LEMMA NotesTogether ==
  ASSUME NEW s \in Seq(Notes), NEW t \in Seq(Notes)
  PROVE  /\ s \o t \in Seq(Notes)
         /\ s \o t = <<>> => s = <<>> /\ t = <<>>
  BY ConcatProperties, ConcatEqualIffEmpty

\* A line by itself
LEMMA OneNote == \A note \in Notes : <<note>> \in Seq(Notes)
  OBVIOUS

\* The lines that are not thresholds; a loss is one of them.
LEMMA SignsTell ==
  ASSUME NEW r, NEW fps
  PROVE  /\ Signs(r, fps) \in Seq(Notes)
         /\ Signs(r, fps) = <<>> => r.received # 0 /\ ~(r.dropped > 0)
<1> DEFINE a == IF r.received = 0 THEN <<"nothing received">> ELSE <<>>
           b == IF r.dropped > 0 THEN <<"frames dropped">> ELSE <<>>
           c == IF fps > 0 /\ 100 * r.received * Second < 90 * fps * r.duration
                THEN <<"slow">> ELSE <<>>
           d == IF fps > 0 /\ r.interval.n > 0 /\ 2 * fps * r.interval.p95 > 3 * Window
                THEN <<"uneven">> ELSE <<>>
           e == IF fps > 0 /\ r.jitter.n > 0 /\ 2 * fps * r.jitter.p95 > Window * r.interval.n
                THEN <<"jittery">> ELSE <<>>
           f == IF ResendSpike(r, fps) THEN <<"resend spike">> ELSE <<>>
           g == IF JitterCliff(r, fps) THEN <<"jitter cliff">> ELSE <<>>
           h == IF PeriodicStall(r, fps) THEN <<"periodic stall">> ELSE <<>>
<1>0. <<>> \in Seq(Notes)
  OBVIOUS
<1>1. /\ a \in Seq(Notes) /\ b \in Seq(Notes) /\ c \in Seq(Notes) /\ d \in Seq(Notes)
      /\ e \in Seq(Notes) /\ f \in Seq(Notes) /\ g \in Seq(Notes) /\ h \in Seq(Notes)
  <2>1. /\ <<"nothing received">> \in Seq(Notes) /\ <<"frames dropped">> \in Seq(Notes)
        /\ <<"slow">> \in Seq(Notes) /\ <<"uneven">> \in Seq(Notes)
        /\ <<"jittery">> \in Seq(Notes) /\ <<"resend spike">> \in Seq(Notes)
        /\ <<"jitter cliff">> \in Seq(Notes) /\ <<"periodic stall">> \in Seq(Notes)
    BY OneNote DEF Notes
  <2> QED
    BY <1>0, <2>1
<1>2. (a = <<>> => r.received # 0) /\ (b = <<>> => ~(r.dropped > 0))
  OBVIOUS
<1>3. LegacySignals(r, fps) = a \o b \o c \o d \o e
  BY DEF LegacySignals
<1>4. Signs(r, fps) = f \o g \o h \o LegacySignals(r, fps)
  BY DEF Signs
<1> HIDE DEF a, b, c, d, e, f, g, h
<1>5. /\ LegacySignals(r, fps) \in Seq(Notes)
      /\ LegacySignals(r, fps) = <<>> => a = <<>> /\ b = <<>>
  <2>1. a \o b \in Seq(Notes) /\ (a \o b = <<>> => a = <<>> /\ b = <<>>)
    BY <1>1, NotesTogether
  <2>2. a \o b \o c \in Seq(Notes) /\ (a \o b \o c = <<>> => a \o b = <<>>)
    BY <1>1, <2>1, NotesTogether
  <2>3. a \o b \o c \o d \in Seq(Notes) /\ (a \o b \o c \o d = <<>> => a \o b \o c = <<>>)
    BY <1>1, <2>2, NotesTogether
  <2> QED
    BY <1>1, <1>3, <2>1, <2>2, <2>3, NotesTogether
<1>6. f \o g \in Seq(Notes) /\ f \o g \o h \in Seq(Notes)
  BY <1>1, NotesTogether
<1>7. /\ Signs(r, fps) \in Seq(Notes)
      /\ Signs(r, fps) = <<>> => LegacySignals(r, fps) = <<>>
  BY <1>4, <1>5, <1>6, NotesTogether
<1> QED
  BY <1>2, <1>5, <1>7

\* Failed thresholds are lines, too.
LEMMA FailuresTell ==
  ASSUME NEW t, NEW r
  PROVE  Failures(t, r) \in Seq(Notes)
<1> DEFINE a == IF Set(t.minFps) /\ r.received * Second < t.minFps * r.duration
                THEN <<"avg_fps">> ELSE <<>>
           b == IF Set(t.maxDrop) /\ r.dropped * 100 > t.maxDrop * r.total
                THEN <<"drop_rate">> ELSE <<>>
           c == IF Set(t.maxInterval) /\ r.interval.p95 > t.maxInterval
                THEN <<"interval_p95">> ELSE <<>>
           d == IF Set(t.maxJitter) /\ r.jitter.p95 > t.maxJitter * r.interval.n
                THEN <<"jitter_p95">> ELSE <<>>
<1>0. <<>> \in Seq(Notes)
  OBVIOUS
<1>1. a \in Seq(Notes) /\ b \in Seq(Notes) /\ c \in Seq(Notes) /\ d \in Seq(Notes)
  <2>1. /\ <<"avg_fps">> \in Seq(Notes) /\ <<"drop_rate">> \in Seq(Notes)
        /\ <<"interval_p95">> \in Seq(Notes) /\ <<"jitter_p95">> \in Seq(Notes)
    BY OneNote DEF Notes
  <2> QED
    BY <1>0, <2>1
<1>2. Failures(t, r) = a \o b \o c \o d
  BY DEF Failures
<1> HIDE DEF a, b, c, d
<1>3. a \o b \in Seq(Notes)
  BY <1>1, NotesTogether
<1>4. a \o b \o c \in Seq(Notes)
  BY <1>1, <1>3, NotesTogether
<1> QED
  BY <1>1, <1>2, <1>4, NotesTogether

\* What is shown of lines that say something is not that there is nothing.
LEMMA SomethingShown ==
  ASSUME NEW lines \in Seq(Notes), Shown(lines) = NothingNotable
  PROVE  lines = <<>>
<1> SUFFICES ASSUME lines # <<>> PROVE FALSE
  OBVIOUS
<1> DEFINE k == IF Len(lines) < 3 THEN Len(lines) ELSE 3
<1>1. DOMAIN lines = 1 .. Len(lines) /\ Len(lines) \in Nat /\ Len(lines) >= 1
  BY EmptySeq, LenProperties
<1>2. k \in 1 .. Len(lines)
  BY <1>1
<1>3. Shown(lines) = SubSeq(lines, 1, k)
  BY DEF Shown
<1> HIDE DEF k
<1>4. SubSeq(lines, 1, k)[1] = lines[1]
  BY <1>1, <1>2, SubSeqProperties
<1>5. lines[1] \in Notes
  BY <1>1, ElementOfSeq
<1>6. NothingNotable[1] = "nothing notable"
  BY DEF NothingNotable
<1>7. "nothing notable" \notin Notes
  BY DEF Notes
<1> QED
  BY <1>3, <1>4, <1>5, <1>6, <1>7

\* "No notable anomalies" is said only of a run that met its thresholds, received
\* something and lost nothing (BuildAnomalyHighlights, anomalies.cpp).
THEOREM QuietRunsPassed ==
  ASSUME HashesAreNumbers
  PROVE  Spec => []QuietMeansPassed
<1>1. RunInv /\ ReportInv => QuietMeansPassed
  <2> SUFFICES ASSUME RunInv, ReportInv, pc = "done", highlights = NothingNotable
               PROVE  failures = <<>> /\ received > 0 /\ dropped = 0
    BY DEF QuietMeansPassed
  <2> DEFINE fps == plan.config.fps
  <2>1. /\ report.received = received /\ report.dropped = dropped
        /\ highlights = Shown(Signs(report, fps) \o failures)
        /\ failures = Failures(plan.thresholds, report)
    BY DEF ReportInv, Highlights
  <2>2. received \in Nat /\ dropped \in Nat
    BY DEF RunInv, EvidenceInv, CaptureInv
  <2>3. failures \in Seq(Notes) /\ Signs(report, fps) \in Seq(Notes)
    BY <2>1, FailuresTell, SignsTell
  <2> HIDE DEF fps
  <2>4. Signs(report, fps) \o failures \in Seq(Notes)
    BY <2>3, NotesTogether
  <2>5. Signs(report, fps) = <<>> /\ failures = <<>>
    BY <2>1, <2>3, <2>4, NotesTogether, SomethingShown
  <2>6. report.received # 0 /\ ~(report.dropped > 0)
    BY <2>5, SignsTell
  <2> QED
    BY <2>1, <2>2, <2>5, <2>6
<1> QED
  BY <1>1, RunIsKnown, ReportIsKnown, PTL
=============================================================================
