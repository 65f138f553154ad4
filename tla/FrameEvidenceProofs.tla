------------------------ MODULE FrameEvidenceProofs ------------------------
(***************************************************************************)
(* What SdkContext guarantees for any number of handles, and FrameEvidence *)
(* for all plans, clocks and node maps: the types of the whole run, the    *)
(* stamps of the simulated camera, the bookkeeping of applied settings.    *)
(*                                                                         *)
(* HashesAreNumbers says that the camera's two hashes are unsigned         *)
(* integers; its pulls are recursive functions, typed by DataLemmas.       *)
(***************************************************************************)
EXTENDS FrameEvidence, DataLemmas, SequenceTheorems

-----------------------------------------------------------------------------
(***************************************************************************)
(* The vendor SDK                                                          *)
(***************************************************************************)

SdkInv == SdkTypeOK /\ SdkBalanced /\ IsFiniteSet(holders)

LEMMA SdkStarts == SdkInit => SdkInv
  BY FS_EmptySet DEF SdkInit, SdkInv, SdkTypeOK, SdkBalanced, SdkOff

\* Acquiring keeps the count.
LEMMA AcquireKeeps ==
  ASSUME SdkInv, NEW h \in Handles, AcquireSdk(h)
  PROVE  SdkInv'
<1>1. CASE h \in holders
  <2>1. holders' = holders /\ sdk' = sdk
    BY <1>1 DEF AcquireSdk, Acquired
  <2> QED
    BY <2>1 DEF SdkInv, SdkTypeOK, SdkBalanced
<1>2. CASE h \notin holders
  <2>1. /\ IsFiniteSet(holders')
        /\ Cardinality(holders') = Cardinality(holders) + 1
    BY <1>2, FS_AddElement DEF AcquireSdk, SdkInv
  <2>2. /\ sdk'.on = TRUE
        /\ sdk'.users = sdk.users + 1
        /\ sdk'.shutdowns = sdk.shutdowns
        /\ sdk'.inits = sdk.inits + (IF sdk.on THEN 0 ELSE 1)
        /\ sdk' \in [on : BOOLEAN, users : Nat, inits : Nat, shutdowns : Nat]
    BY <1>2 DEF AcquireSdk, Acquired, SdkInv, SdkTypeOK
  <2>3. holders' \subseteq Handles /\ holders' # {}
    BY DEF AcquireSdk, SdkInv, SdkTypeOK
  <2>4. sdk.inits - sdk.shutdowns = (IF sdk.on THEN 1 ELSE 0)
    BY DEF SdkInv, SdkBalanced
  <2>5. sdk'.inits - sdk'.shutdowns = 1
    BY <2>2, <2>4 DEF SdkInv, SdkTypeOK
  <2> QED
    BY <2>1, <2>2, <2>3, <2>5 DEF SdkInv, SdkTypeOK, SdkBalanced
<1> QED
  BY <1>1, <1>2

\* A holder that gives up its claim is counted out, and the last one shuts down.
LEMMA ReleasedCounts ==
  ASSUME SdkInv, NEW h \in holders
  PROVE  /\ Released(h, sdk) \in [on : BOOLEAN, users : Nat, inits : Nat, shutdowns : Nat]
         /\ Released(h, sdk).users = Cardinality(holders) - 1
         /\ Released(h, sdk).on <=> Cardinality(holders) # 1
         /\ Released(h, sdk).inits - Released(h, sdk).shutdowns
              = IF Released(h, sdk).on THEN 1 ELSE 0
<1>1. sdk.on /\ sdk.users = Cardinality(holders) /\ sdk.inits - sdk.shutdowns = 1
  BY DEF SdkInv, SdkBalanced
<1>2. sdk.users \in Nat /\ sdk.inits \in Nat /\ sdk.shutdowns \in Nat
  BY DEF SdkInv, SdkTypeOK
<1>3. Cardinality(holders) # 0
  BY FS_EmptySet DEF SdkInv
<1>4. sdk.users > 0
  BY <1>1, <1>2, <1>3
<1>5. CASE sdk.users = 1
  <2>1. Released(h, sdk) =
          [on |-> FALSE, users |-> 0, inits |-> sdk.inits, shutdowns |-> sdk.shutdowns + 1]
    <3>1. /\ (IF sdk.users > 0 THEN sdk.users - 1 ELSE 0) = 0
          /\ sdk.on = TRUE
      BY <1>1, <1>5 DEF SdkInv, SdkTypeOK
    <3> QED
      BY <3>1, Zenon DEF Released
  <2> QED
    BY <1>1, <1>2, <1>5, <2>1
<1>6. CASE sdk.users # 1
  <2>1. Released(h, sdk) =
          [on |-> TRUE, users |-> sdk.users - 1, inits |-> sdk.inits, shutdowns |-> sdk.shutdowns]
    <3>1. /\ (IF sdk.users > 0 THEN sdk.users - 1 ELSE 0) = sdk.users - 1
          /\ sdk.users - 1 # 0
          /\ sdk.on = TRUE
          /\ sdk.shutdowns + 0 = sdk.shutdowns
      BY <1>1, <1>2, <1>4, <1>6 DEF SdkInv, SdkTypeOK
    <3> QED
      BY <3>1, Zenon DEF Released
  <2> QED
    BY <1>1, <1>2, <1>4, <1>6, <2>1
<1> QED
  BY <1>5, <1>6

\* Releasing keeps the count.
LEMMA ReleaseKeeps ==
  ASSUME SdkInv, NEW h, ReleaseSdk(h)
  PROVE  SdkInv'
<1>1. CASE h \notin holders
  <2>1. holders' = holders /\ sdk' = sdk
    BY <1>1 DEF ReleaseSdk, Released
  <2> QED
    BY <2>1 DEF SdkInv, SdkTypeOK, SdkBalanced
<1>2. CASE h \in holders
  <2>1. /\ IsFiniteSet(holders')
        /\ Cardinality(holders') = Cardinality(holders) - 1
    BY <1>2, FS_RemoveElement DEF ReleaseSdk, SdkInv
  <2>2. holders' = {} <=> Cardinality(holders') = 0
    BY <2>1, FS_EmptySet
  <2>3. Cardinality(holders) \in Nat
    BY FS_CardinalityType DEF SdkInv
  <2>4. holders' \subseteq Handles
    BY DEF ReleaseSdk, SdkInv, SdkTypeOK
  <2>5. sdk' = Released(h, sdk)
    BY DEF ReleaseSdk
  <2>6. sdk'.on <=> holders' # {}
    BY <1>2, <2>1, <2>2, <2>3, <2>5, ReleasedCounts
  <2> QED
    BY <1>2, <2>1, <2>4, <2>5, <2>6, ReleasedCounts DEF SdkInv, SdkTypeOK, SdkBalanced
<1> QED
  BY <1>1, <1>2

\* So does handing a claim over.
LEMMA MoveKeeps ==
  ASSUME SdkInv, NEW h \in Handles, NEW g \in Handles, MoveSdk(h, g)
  PROVE  SdkInv'
<1>1. CASE g \notin holders
  <2>1. ReleaseSdk(h)
    BY <1>1 DEF MoveSdk, ReleaseSdk
  <2> QED
    BY <2>1, ReleaseKeeps
<1>2. CASE g \in holders
  <2>1. /\ IsFiniteSet(holders \ {g})
        /\ Cardinality(holders \ {g}) = Cardinality(holders) - 1
    BY <1>2, FS_RemoveElement DEF SdkInv
  <2>2. holders' = (holders \ {g}) \cup {h} /\ h # g /\ sdk' = Released(h, sdk)
    BY <1>2 DEF MoveSdk
  <2>3. /\ IsFiniteSet(holders')
        /\ Cardinality(holders') =
             IF h \in holders \ {g} THEN Cardinality(holders \ {g})
             ELSE Cardinality(holders \ {g}) + 1
    BY <2>1, <2>2, FS_AddElement
  <2>4. Cardinality(holders) \in Nat
    BY FS_CardinalityType DEF SdkInv
  <2>5. holders' \subseteq Handles /\ holders' # {}
    BY <2>2 DEF SdkInv, SdkTypeOK
  <2>6. CASE h \notin holders
    <3>1. sdk' = sdk /\ Cardinality(holders') = Cardinality(holders)
      BY <2>1, <2>2, <2>3, <2>4, <2>6 DEF Released
    <3> QED
      BY <1>2, <2>3, <2>5, <3>1 DEF SdkInv, SdkTypeOK, SdkBalanced
  <2>7. CASE h \in holders
    <3>1. Cardinality(holders') = Cardinality(holders) - 1
      BY <2>1, <2>2, <2>3, <2>7
    <3>2. Cardinality(holders') # 0
      BY <2>3, <2>5, FS_EmptySet
    <3> QED
      BY <2>2, <2>3, <2>4, <2>5, <2>7, <3>1, <3>2, ReleasedCounts
      DEF SdkInv, SdkTypeOK, SdkBalanced
  <2> QED
    BY <2>6, <2>7
<1> QED
  BY <1>1, <1>2

\* However handles are acquired, released, destroyed and moved, the SDK is up exactly
\* while one of them holds it (sdk_context.cpp).
THEOREM SdkAlwaysBalanced == SdkSpec => [](SdkTypeOK /\ SdkBalanced)
<1>1. SdkInv /\ [SdkNext]_sdkVars => SdkInv'
  <2> SUFFICES ASSUME SdkInv, [SdkNext]_sdkVars PROVE SdkInv'
    OBVIOUS
  <2>1. ASSUME NEW h \in Handles, AcquireSdk(h) \/ ReleaseSdk(h) PROVE SdkInv'
    BY <2>1, AcquireKeeps, ReleaseKeeps
  <2>2. ASSUME NEW h \in Handles, NEW g \in Handles, MoveSdk(h, g) PROVE SdkInv'
    BY <2>2, MoveKeeps
  <2>3. CASE UNCHANGED sdkVars
    BY <2>3 DEF sdkVars, SdkInv, SdkTypeOK, SdkBalanced
  <2> QED
    BY <2>1, <2>2, <2>3 DEF SdkNext
<1>2. SdkInv => SdkTypeOK /\ SdkBalanced
  BY DEF SdkInv
<1> QED
  BY <1>1, <1>2, SdkStarts, PTL DEF SdkSpec

-----------------------------------------------------------------------------
(***************************************************************************)
(* A run gives the SDK back                                                *)
(***************************************************************************)

USE RealAssumption DEF RealAssumption

HoldersByPlace ==
  /\ pc \in {"new", "configure", "apply", "refused", "open", "failed", "paused", "done"} =>
       holders = {}
  /\ pc = "discover" => holders = {"discovery"}
  /\ pc \in {"stream", "append", "measure"} => holders \subseteq {"backend"}

HolderInv == SdkInv /\ HoldersByPlace

\* A fresh process has nobody in the SDK: the first handle initialises it.
LEMMA DiscoveryStarts ==
  ASSUME HolderInv, BeginReal
  PROVE  SdkInv'
<1>0. sdk' = [on |-> TRUE, users |-> 1, inits |-> 1, shutdowns |-> 0]
  BY DEF HolderInv, HoldersByPlace, BeginReal, CanBegin, Acquired, SdkOff
<1>1. holders' = {} \cup {"discovery"}
  BY DEF BeginReal
<1>2. IsFiniteSet(holders') /\ Cardinality(holders') = 1
  <2>1. /\ Cardinality({} \cup {"discovery"}) = Cardinality({}) + 1
        /\ IsFiniteSet({} \cup {"discovery"})
    BY FS_EmptySet, FS_AddElement
  <2> QED
    BY <1>1, <2>1, FS_EmptySet
<1> QED
  BY <1>0, <1>1, <1>2 DEF SdkInv, SdkTypeOK, SdkBalanced

\* The SDK's count survives every step of a run.
LEMMA RunKeepsSdk == HolderInv /\ [Next]_vars => SdkInv'
<1> SUFFICES ASSUME HolderInv, [Next]_vars PROVE SdkInv'
  OBVIOUS
<1>0. SdkInv
  BY DEF HolderInv
<1>1. ASSUME UNCHANGED sdkVars PROVE SdkInv'
  BY <1>0, <1>1 DEF sdkVars, SdkInv, SdkTypeOK, SdkBalanced
<1>2. ASSUME NEW t \in Clock, BeginSim(t) PROVE SdkInv'
  BY <1>1, <1>2 DEF BeginSim, sdkVars
<1>3. ASSUME NEW t \in Clock, OpenCamera(t) PROVE SdkInv'
  BY <1>0, <1>3, AcquireKeeps DEF OpenCamera, OpenReal
<1>4. CASE Discovered \/ NothingDiscovered
  BY <1>0, <1>4, ReleaseKeeps DEF Discovered, NothingDiscovered
<1>5. CASE KeyMapFails \/ ReportRefusal \/ ReportFails \/ PullFails \/ Pause \/ Measure
  BY <1>0, <1>5, ReleaseKeeps
  DEF KeyMapFails, ReportRefusal, ReportFails, PullFails, Pause, Measure, Ends, DestroyReal
<1>6. CASE KeyMapLoads \/ ApplyParam \/ ParamUnsupported \/ ReportApplied \/ PullSim
           \/ PullRealFrames \/ AppendFrame \/ CompleteChunk
  BY <1>1, <1>6
  DEF KeyMapLoads, ApplyParam, ParamUnsupported, ReportApplied, PullSim, PullRealFrames,
      AppendFrame, CompleteChunk, cameraVars
<1>7. CASE UNCHANGED vars
  BY <1>1, <1>7 DEF vars, cameraVars
<1> QED
  BY <1>2, <1>3, <1>4, <1>5, <1>6, <1>7, DiscoveryStarts DEF Next, Finished

\* Who holds a handle follows from where the run is.
LEMMA HoldersFollow == HoldersByPlace /\ [Next]_vars => HoldersByPlace'
<1> SUFFICES ASSUME HoldersByPlace, [Next]_vars PROVE HoldersByPlace'
  OBVIOUS
<1>1. ASSUME NEW t \in Clock, BeginSim(t) PROVE HoldersByPlace'
  BY <1>1 DEF BeginSim, CanBegin, sdkVars, HoldersByPlace
<1>2. ASSUME NEW t \in Clock, OpenCamera(t) PROVE HoldersByPlace'
  BY <1>2 DEF OpenCamera, OpenReal, AcquireSdk, HoldersByPlace
<1>3. CASE BeginReal
  BY <1>3 DEF BeginReal, HoldersByPlace
<1>4. CASE Discovered \/ NothingDiscovered
  BY <1>4 DEF Discovered, NothingDiscovered, ReleaseSdk, HoldersByPlace
<1>5. CASE KeyMapFails \/ ReportRefusal \/ ReportFails \/ PullFails \/ Pause \/ Measure
  BY <1>5
  DEF KeyMapFails, ReportRefusal, ReportFails, PullFails, Pause, Measure, Ends, DestroyReal,
      ReleaseSdk, HoldersByPlace
<1>6. CASE KeyMapLoads \/ ApplyParam \/ ParamUnsupported \/ ReportApplied
  BY <1>6
  DEF KeyMapLoads, ApplyParam, ParamUnsupported, ReportApplied, cameraVars, sdkVars,
      HoldersByPlace
<1>7. CASE PullSim \/ PullRealFrames \/ AppendFrame \/ CompleteChunk
  BY <1>7
  DEF PullSim, PullRealFrames, Pulled, AppendFrame, CompleteChunk, cameraVars, sdkVars,
      HoldersByPlace
<1>8. CASE UNCHANGED vars
  BY <1>8 DEF vars, cameraVars, sdkVars, HoldersByPlace
<1> QED
  BY <1>1, <1>2, <1>3, <1>4, <1>5, <1>6, <1>7, <1>8 DEF Next, Finished

\* Both hold throughout a run.
LEMMA HoldersAreKnown == Spec => []HolderInv
<1>1. Init => HolderInv
  BY SdkStarts DEF Init, HolderInv, HoldersByPlace, SdkInit
<1>2. HolderInv /\ [Next]_vars => HolderInv'
  BY RunKeepsSdk, HoldersFollow DEF HolderInv
<1> QED
  BY <1>1, <1>2, PTL DEF Spec

\* By whichever of its paths a run ends, its process leaves no handle behind and the
\* SDK shut down: enumeration's and the backend's are given back in every case.
THEOREM SdkIsReleased == Spec => []SdkReleased
<1>1. HolderInv => SdkReleased
  BY DEF HolderInv, SdkInv, HoldersByPlace, SdkReleased
<1> QED
  BY <1>1, HoldersAreKnown, PTL

-----------------------------------------------------------------------------
(***************************************************************************)
(* Applied parameters                                                      *)
(***************************************************************************)

\* A sequence with one more element.
LEMMA Appending ==
  ASSUME NEW s, s \in Seq(Range(s)), NEW x
  PROVE  /\ Append(s, x) \in Seq(Range(Append(s, x)))
         /\ DOMAIN Append(s, x) = 1 .. Len(s) + 1
         /\ \A i \in 1 .. Len(s) : Append(s, x)[i] = s[i]
         /\ Append(s, x)[Len(s) + 1] = x
<1> DEFINE S == Range(s) \cup {x}
<1>1. s \in Seq(S) /\ x \in S
  OBVIOUS
<1>2. Append(s, x) \in Seq(S) /\ Len(Append(s, x)) = Len(s) + 1
  BY <1>1
<1>3. \A i \in 1 .. Len(s) : Append(s, x)[i] = s[i]
  BY <1>1
<1>4. Append(s, x)[Len(s) + 1] = x
  BY <1>1
<1>5. \A i \in DOMAIN Append(s, x) : Append(s, x)[i] \in Range(Append(s, x))
  BY DEF Range
<1>6. Append(s, x) \in Seq(Range(Append(s, x)))
  <2> DEFINE t == Append(s, x)
  <2>1. t \in [1 .. Len(s) + 1 -> S]
    BY <1>1, <1>2, LenProperties
  <2>2. t \in [1 .. Len(s) + 1 -> Range(t)]
    BY <1>5, <2>1
  <2>3. Len(s) + 1 \in Nat
    BY <1>1
  <2> HIDE DEF t
  <2>4. t \in Seq(Range(t))
    BY <2>2, <2>3
  <2> QED
    BY <2>4 DEF t
<1> QED
  BY <1>2, <1>3, <1>4, <1>6

\* Rows of a run that has not been refused.
StrictInv ==
  /\ rows \in Seq(Range(rows))
  /\ pc = "configure" => rows = <<>>
  /\ plan.strict /\ plan.backend = "real"
       /\ pc \in {"configure", "apply", "open", "stream", "append", "measure"} =>
       \A i \in DOMAIN rows : rows[i].applied \/ rows[i].key \in Lenient

\* A row keeps them so unless it ends the run.
LEMMA ApplyingStaysStrict ==
  ASSUME StrictInv, ApplyParam \/ ParamUnsupported
  PROVE  StrictInv'
<1>1. PICK row : rows' = Append(rows, row) /\
        (pc' = "apply" /\ plan.strict => row.applied \/ row.key \in Lenient)
  <2>1. CASE ApplyParam
    BY <2>1 DEF ApplyParam, AppliedRow
  <2>2. CASE ParamUnsupported
    <3> DEFINE r == Head(todo)
    <3>1. /\ rows' = Append(rows, UnsupportedRow(r, NodeOf(r, plan.keys)))
          /\ pc' = "apply" /\ plan.strict => r.key \in Lenient
      BY <2>2 DEF ParamUnsupported, IsStrict
    <3>2. UnsupportedRow(r, NodeOf(r, plan.keys)).key = r.key
      BY DEF UnsupportedRow
    <3> QED
      BY <3>1, <3>2
  <2> QED
    BY <2>1, <2>2
<1>2. rows' \in Seq(Range(rows'))
  BY <1>1, Appending DEF StrictInv
<1>3. pc = "apply" /\ plan' = plan /\ pc' \in {"apply", "refused"}
  BY DEF ApplyParam, ParamUnsupported
<1>4. ASSUME plan.strict, plan.backend = "real", pc' = "apply", NEW i \in DOMAIN rows'
      PROVE  rows'[i].applied \/ rows'[i].key \in Lenient
  <2>1. \A j \in DOMAIN rows : rows[j].applied \/ rows[j].key \in Lenient
    BY <1>3, <1>4 DEF StrictInv
  <2>2. DOMAIN rows = 1 .. Len(rows) /\ Len(rows) \in Nat
    BY DEF StrictInv
  <2>3. CASE i = Len(rows) + 1
    BY <1>1, <1>4, <2>3, Appending DEF StrictInv
  <2>4. CASE i \in 1 .. Len(rows)
    BY <1>1, <2>1, <2>2, <2>4, Appending DEF StrictInv
  <2> QED
    BY <1>1, <1>4, <2>2, <2>3, <2>4, Appending DEF StrictInv
<1> QED
  BY <1>2, <1>3, <1>4 DEF StrictInv

\* A run configured strictly streams only if everything it tried was applied or is
\* best effort in any mode, whatever the key map, the nodes and the order
\* (ApplyParams stops at the first refusal, apply_params.cpp).
THEOREM StrictMeansAsAsked == Spec => []StrictStreamsAsAsked
<1>1. Init => StrictInv
  BY DEF Init, StrictInv
<1>2. StrictInv /\ [Next]_vars => StrictInv'
  <2> SUFFICES ASSUME StrictInv, [Next]_vars PROVE StrictInv'
    OBVIOUS
  <2>1. CASE ApplyParam \/ ParamUnsupported
    BY <2>1, ApplyingStaysStrict
  <2>2. ASSUME NEW t \in Clock, BeginSim(t) \/ OpenCamera(t) PROVE StrictInv'
    BY <2>2 DEF BeginSim, OpenCamera, configVars, paramVars, StrictInv
  <2>3. CASE BeginReal \/ NothingDiscovered
    BY <2>3 DEF BeginReal, NothingDiscovered, configVars, paramVars, StrictInv
  <2>4. CASE Discovered
    BY <2>4 DEF Discovered, StrictInv
  <2>5. CASE KeyMapFails \/ ReportRefusal \/ ReportFails \/ PullFails \/ Pause \/ Measure
    BY <2>5
    DEF KeyMapFails, ReportRefusal, ReportFails, PullFails, Pause, Measure, Ends, configVars,
        paramVars, StrictInv
  <2>6. CASE KeyMapLoads \/ ReportApplied
    BY <2>6 DEF KeyMapLoads, ReportApplied, paramVars, StrictInv
  <2>7. CASE PullSim \/ PullRealFrames \/ AppendFrame \/ CompleteChunk
    BY <2>7
    DEF PullSim, PullRealFrames, Pulled, AppendFrame, CompleteChunk, configVars, paramVars,
        StrictInv
  <2>8. CASE UNCHANGED vars
    BY <2>8 DEF vars, configVars, paramVars, StrictInv
  <2> QED
    BY <2>1, <2>2, <2>3, <2>4, <2>5, <2>6, <2>7, <2>8 DEF Next, Finished
<1>3. StrictInv => StrictStreamsAsAsked
  BY DEF StrictInv, StrictStreamsAsAsked, Configured
<1> QED
  BY <1>1, <1>2, <1>3, PTL DEF Spec

USE ParamAssumption DEF ParamAssumption

\* The requests in hand are some of the plan's.
RequestInv == plan \in Plans /\ todo \in Seq(Request)

\* What is left out or put in another order is still a list of requests.
LEMMA OrderedTyped ==
  ASSUME NEW s \in Seq(Request)
  PROVE  Ordered(s) \in Seq(Request)
<1> DEFINE of(rank) == Kept(s, {i \in DOMAIN s : Priority[s[i].key] = rank})
<1>1. ASSUME NEW rank PROVE of(rank) \in Seq(Request)
  <2>1. {i \in DOMAIN s : Priority[s[i].key] = rank} \subseteq DOMAIN s
    OBVIOUS
  <2> QED
    BY <2>1, KeptProperties
<1>2. Ordered(s) = of(0) \o of(1) \o of(2) \o of(3) \o of(10)
  BY DEF Ordered
<1> HIDE DEF of
<1>3. /\ of(0) \in Seq(Request) /\ of(1) \in Seq(Request) /\ of(2) \in Seq(Request)
      /\ of(3) \in Seq(Request) /\ of(10) \in Seq(Request)
  BY <1>1
<1> QED
  BY <1>2, <1>3

LEMMA RequestStep ==
  ASSUME RequestInv, [Next]_vars
  PROVE  RequestInv'
<1>1. ASSUME plan' = plan, todo' = todo PROVE RequestInv'
  BY <1>1 DEF RequestInv
<1>2. CASE KeyMapLoads
  <2>1. plan.requests \in Seq(Request) /\ plan' = plan
    BY <1>2, PlanAssumption DEF RequestInv, KeyMapLoads
  <2>2. Kept(plan.requests, (DOMAIN plan.requests) \ Skipped) \in Seq(Request)
    BY <2>1, KeptProperties
  <2>3. todo' \in Seq(Request)
    BY <1>2, <2>2, OrderedTyped DEF KeyMapLoads
  <2> QED
    BY <2>1, <2>3 DEF RequestInv
<1>3. CASE ApplyParam \/ ParamUnsupported
  <2>1. plan' = plan /\ todo # <<>> /\ todo' = Tail(todo)
    BY <1>3 DEF ApplyParam, ParamUnsupported
  <2> QED
    BY <2>1, HeadTailProperties DEF RequestInv
<1>4. CASE Discovered
  BY <1>4 DEF Discovered, RequestInv
<1>5. ASSUME NEW t \in Clock, BeginSim(t) \/ OpenCamera(t) PROVE RequestInv'
  BY <1>1, <1>5 DEF BeginSim, OpenCamera, configVars, paramVars
<1>6. CASE BeginReal \/ NothingDiscovered
  BY <1>1, <1>6 DEF BeginReal, NothingDiscovered, configVars, paramVars
<1>7. CASE KeyMapFails \/ ReportRefusal \/ ReportFails \/ PullFails \/ Pause \/ Measure
  BY <1>1, <1>7
  DEF KeyMapFails, ReportRefusal, ReportFails, PullFails, Pause, Measure, configVars, paramVars
<1>8. CASE ReportApplied
  BY <1>1, <1>8 DEF ReportApplied, paramVars
<1>9. CASE PullSim \/ PullRealFrames \/ AppendFrame \/ CompleteChunk
  BY <1>1, <1>9
  DEF PullSim, PullRealFrames, Pulled, AppendFrame, CompleteChunk, configVars, paramVars
<1>10. CASE UNCHANGED vars
  BY <1>1, <1>10 DEF vars, configVars, paramVars
<1> QED
  BY <1>2, <1>3, <1>4, <1>5, <1>6, <1>7, <1>8, <1>9, <1>10 DEF Next, Finished

\* Every request in hand is one that a scenario may make.
LEMMA RequestsAreKnown == Spec => []RequestInv
<1>1. Init => RequestInv
  BY DEF Init, RequestInv
<1> QED
  BY <1>1, RequestStep, PTL DEF Spec

InRange(node, value) ==
  Nodes[node].type = "number" => value.at \in Nodes[node].min .. Nodes[node].max

\* No later row writes the node of row i.
Latest(i) == \A j \in i + 1 .. Len(rows) : rows[j].applied => rows[j].node # rows[i].node

MirrorInv ==
  /\ rows \in Seq(Range(rows))
  /\ nodes = [n \in DOMAIN Nodes |-> nodes[n]]
  /\ \A i \in DOMAIN rows : rows[i].applied =>
       /\ rows[i].node \in DOMAIN Nodes /\ rows[i].node \in DOMAIN params
       /\ InRange(rows[i].node, rows[i].actual)
       /\ Latest(i) => /\ params[rows[i].node] = rows[i].actual
                       /\ nodes[rows[i].node] = rows[i].actual

\* A number is clamped into the range of its node.
LEMMA PreparedInRange ==
  ASSUME NEW r \in Request, NEW node \in DOMAIN Nodes
  PROVE  InRange(node, Prepared(r, node))
<1> SUFFICES ASSUME Nodes[node].type = "number"
             PROVE  Prepared(r, node).at \in Nodes[node].min .. Nodes[node].max
  BY DEF InRange
<1>1. Prepared(r, node) = Clamped(r.value, Nodes[node])
  BY DEF Prepared
<1>2. r.value \in [kind : {"number", "word"}, at : Int, exact : BOOLEAN]
  BY DEF Request
<1>3. Clamped(r.value, Nodes[node]).at =
        IF r.value.at < Nodes[node].min THEN Nodes[node].min
        ELSE IF r.value.at > Nodes[node].max THEN Nodes[node].max ELSE r.value.at
  BY <1>2 DEF Clamped
<1>4. /\ Nodes[node].min \in Int /\ Nodes[node].max \in Int
      /\ Nodes[node].min <= Nodes[node].max /\ r.value.at \in Int
  BY <1>2
<1> QED
  BY <1>1, <1>3, <1>4

\* A row that was not applied concerns no other.
LEMMA UnsupportedMirrors ==
  ASSUME MirrorInv, ParamUnsupported
  PROVE  MirrorInv'
<1>1. PICK row : rows' = Append(rows, row) /\ ~row.applied
  BY DEF ParamUnsupported, UnsupportedRow
<1>2. /\ rows' \in Seq(Range(rows'))
      /\ DOMAIN rows' = 1 .. Len(rows) + 1 /\ Len(rows') = Len(rows) + 1
      /\ \A i \in 1 .. Len(rows) : rows'[i] = rows[i]
      /\ rows'[Len(rows) + 1] = row
      /\ Len(rows) \in Nat /\ DOMAIN rows = 1 .. Len(rows)
  BY <1>1, Appending DEF MirrorInv
<1>3. nodes' = nodes /\ params' = params
  BY DEF ParamUnsupported
<1>4. ASSUME NEW i \in DOMAIN rows', rows'[i].applied
      PROVE  /\ i \in DOMAIN rows /\ rows'[i] = rows[i]
             /\ Latest(i)' => Latest(i)
  <2>1. i \in 1 .. Len(rows)
    BY <1>1, <1>2, <1>4
  <2>2. Latest(i)' => Latest(i)
    BY <1>2, <2>1 DEF Latest
  <2> QED
    BY <1>2, <2>1, <2>2
<1>5. \A i \in DOMAIN rows' : rows'[i].applied =>
        /\ rows'[i].node \in DOMAIN Nodes /\ rows'[i].node \in DOMAIN params'
        /\ InRange(rows'[i].node, rows'[i].actual)
        /\ Latest(i)' => /\ params'[rows'[i].node] = rows'[i].actual
                         /\ nodes'[rows'[i].node] = rows'[i].actual
  BY <1>3, <1>4 DEF MirrorInv
<1> QED
  BY <1>2, <1>3, <1>5 DEF MirrorInv

\* An applied row mirrors its node, and leaves the rows of others alone.
LEMMA AppliedMirrors ==
  ASSUME MirrorInv, RequestInv, ApplyParam
  PROVE  MirrorInv'
<1> DEFINE r    == Head(todo)
           node == NodeOf(r, plan.keys)
           row  == AppliedRow(r, node)
<1>1. r \in Request
  BY HeadTailProperties DEF ApplyParam, RequestInv
<1>2. /\ node \in DOMAIN Nodes
      /\ nodes' = [nodes EXCEPT ![node] = Prepared(r, node)]
      /\ params' = [n \in DOMAIN params \cup {node} |->
                      IF n = node THEN Prepared(r, node) ELSE params[n]]
      /\ rows' = Append(rows, row)
  BY DEF ApplyParam, Accepts, BackendValue
<1>3. row.applied /\ row.node = node /\ row.actual = Prepared(r, node)
  BY DEF AppliedRow
<1>4. InRange(node, row.actual)
  BY <1>1, <1>2, <1>3, PreparedInRange
<1> HIDE DEF r, node, row
<1>5. /\ rows' \in Seq(Range(rows'))
      /\ DOMAIN rows' = 1 .. Len(rows) + 1 /\ Len(rows') = Len(rows) + 1
      /\ \A i \in 1 .. Len(rows) : rows'[i] = rows[i]
      /\ rows'[Len(rows) + 1] = row
      /\ Len(rows) \in Nat /\ DOMAIN rows = 1 .. Len(rows)
  BY <1>2, Appending DEF MirrorInv
<1>6. /\ nodes' = [n \in DOMAIN Nodes |-> nodes'[n]]
      /\ nodes'[node] = row.actual /\ params'[node] = row.actual
      /\ DOMAIN params' = DOMAIN params \cup {node}
      /\ \A n \in DOMAIN Nodes : n # node => nodes'[n] = nodes[n]
      /\ \A n \in DOMAIN params : n # node => params'[n] = params[n]
  BY <1>2, <1>3 DEF MirrorInv
<1>7. ASSUME NEW i \in DOMAIN rows', rows'[i].applied
      PROVE  /\ rows'[i].node \in DOMAIN Nodes /\ rows'[i].node \in DOMAIN params'
             /\ InRange(rows'[i].node, rows'[i].actual)
             /\ Latest(i)' => /\ params'[rows'[i].node] = rows'[i].actual
                              /\ nodes'[rows'[i].node] = rows'[i].actual
  <2>1. CASE i = Len(rows) + 1
    <3>1. rows'[i] = row
      BY <1>5, <2>1
    <3> QED
      BY <1>2, <1>3, <1>4, <1>6, <3>1
  <2>2. CASE i # Len(rows) + 1
    <3>1. i \in 1 .. Len(rows) /\ rows'[i] = rows[i] /\ i \in DOMAIN rows
      BY <1>5, <2>2
    <3>2. /\ rows[i].node \in DOMAIN Nodes /\ rows[i].node \in DOMAIN params
          /\ InRange(rows[i].node, rows[i].actual)
          /\ Latest(i) => /\ params[rows[i].node] = rows[i].actual
                          /\ nodes[rows[i].node] = rows[i].actual
      BY <1>7, <3>1 DEF MirrorInv
    <3>3. Latest(i)' => Latest(i) /\ rows[i].node # node
      <4>1. Latest(i)' => Latest(i)
        BY <1>5, <3>1 DEF Latest
      <4>2. Latest(i)' => rows'[Len(rows) + 1].node # rows'[i].node
        BY <1>3, <1>5, <3>1 DEF Latest
      <4> QED
        BY <1>3, <1>5, <3>1, <4>1, <4>2
    <3> QED
      BY <1>6, <3>1, <3>2, <3>3
  <2> QED
    BY <2>1, <2>2
<1> QED
  BY <1>5, <1>6, <1>7 DEF MirrorInv

\* The rows read back for the configuration say what the node map and the backend
\* hold while frames are taken (apply_params.cpp, SetParam of real_backend.cpp).
THEOREM ReadbackIsActual == Spec => []VerifiedIsActual
<1>1. Init => MirrorInv
  BY DEF Init, FreshNodes, MirrorInv
<1>2. MirrorInv /\ RequestInv /\ [Next]_vars => MirrorInv'
  <2> SUFFICES ASSUME MirrorInv, RequestInv, [Next]_vars PROVE MirrorInv'
    OBVIOUS
  <2>1. CASE ApplyParam \/ ParamUnsupported
    BY <2>1, AppliedMirrors, UnsupportedMirrors
  <2>2. ASSUME rows' = rows, nodes' = nodes, params' = params PROVE MirrorInv'
    BY <2>2 DEF MirrorInv, Latest
  <2>3. ASSUME NEW t \in Clock, BeginSim(t) \/ OpenCamera(t) PROVE MirrorInv'
    BY <2>2, <2>3 DEF BeginSim, OpenCamera, configVars, paramVars
  <2>4. CASE BeginReal \/ NothingDiscovered
    BY <2>2, <2>4 DEF BeginReal, NothingDiscovered, configVars, paramVars
  <2>5. CASE Discovered
    BY <2>5 DEF Discovered, FreshNodes, MirrorInv
  <2>6. CASE KeyMapFails \/ ReportRefusal \/ ReportFails \/ PullFails \/ Pause \/ Measure
    BY <2>2, <2>6
    DEF KeyMapFails, ReportRefusal, ReportFails, PullFails, Pause, Measure, configVars, paramVars
  <2>7. CASE KeyMapLoads \/ ReportApplied
    BY <2>2, <2>7 DEF KeyMapLoads, ReportApplied, paramVars
  <2>8. CASE PullSim \/ PullRealFrames \/ AppendFrame \/ CompleteChunk
    BY <2>2, <2>8
    DEF PullSim, PullRealFrames, Pulled, AppendFrame, CompleteChunk, configVars, paramVars
  <2>9. CASE UNCHANGED vars
    BY <2>2, <2>9 DEF vars, configVars, paramVars
  <2> QED
    BY <2>1, <2>3, <2>4, <2>5, <2>6, <2>7, <2>8, <2>9 DEF Next, Finished
<1>3. MirrorInv => VerifiedIsActual
  BY DEF MirrorInv, InRange, Latest, VerifiedIsActual
<1> QED
  BY <1>1, <1>2, <1>3, RequestsAreKnown, PTL DEF Spec

-----------------------------------------------------------------------------
(***************************************************************************)
(* What a pull delivers                                                    *)
(***************************************************************************)

USE CaptureTimeAssumption DEF CaptureTimeAssumption

\* Hashes are unsigned integers.
HashesAreNumbers ==
  \A seed, id \in Nat : JitterMix(seed, id) \in Nat /\ OrderMix(seed, id) \in Nat

\* The simulated camera at work
SimReady ==
  /\ cfg \in Configs \cup {Defaults}
  /\ cam \in [connected : BOOLEAN, running : BOOLEAN, next : Nat, start : Int]

IdsUp(fs) == \A i, j \in DOMAIN fs : i < j => fs[i].id < fs[j].id

\* What cutting to whole frames leaves.
LEMMA Quotient ==
  ASSUME NEW x \in Nat, NEW d \in Nat \ {0}
  PROVE  /\ x \div d \in Nat
         /\ (x \div d) * d <= x
         /\ x < (x \div d) * d + d
  OBVIOUS

\* The knobs of a camera are numbers, and so is what follows from them.
LEMMA SimNumbers ==
  ASSUME HashesAreNumbers, SimReady
  PROVE  /\ cfg.fps \in Nat /\ cfg.jitter \in Nat /\ cfg.size \in Nat
         /\ cfg.reorder \in Nat /\ cfg.seed \in Nat
         /\ cam.next \in Nat /\ cam.start \in Int
         /\ \A id \in Nat : Jitter(id) \in Int /\ OrderMix(cfg.seed, id) \in Nat
         /\ cfg.fps > 0 => Period \in Nat
         /\ \A s \in Nat : FrameCount(s) \in Nat
<1>1. /\ cfg.fps \in Nat /\ cfg.jitter \in Nat /\ cfg.size \in Nat
      /\ cfg.reorder \in Nat /\ cfg.seed \in Nat
  BY SimAssumption DEF SimAssumption, SimReady
<1>2. \A id \in Nat : JitterMix(cfg.seed, id) \in Nat /\ OrderMix(cfg.seed, id) \in Nat
  BY <1>1 DEF HashesAreNumbers
<1>3. \A id \in Nat : Jitter(id) \in Int
  <2> SUFFICES ASSUME NEW id \in Nat PROVE Jitter(id) \in Int
    OBVIOUS
  <2>1. \A a, b \in Nat : a % (2 * b + 1) \in Int
    OBVIOUS
  <2>2. JitterMix(cfg.seed, id) % (2 * cfg.jitter + 1) \in Int
    BY <1>1, <1>2, <2>1
  <2> QED
    BY <1>1, <2>2 DEF Jitter
<1>4. cfg.fps > 0 => Period \in Nat
  <2>1. Window \in Nat
    BY DEF Window
  <2>2. cfg.fps > 0 => Window \div cfg.fps \in Nat
    BY <1>1, <2>1, Quotient
  <2> QED
    BY <2>2 DEF Period
<1>5. \A s \in Nat : FrameCount(s) \in Nat
  <2> SUFFICES ASSUME NEW s \in Nat PROVE FrameCount(s) \in Nat
    OBVIOUS
  <2>1. s * cfg.fps \in Nat
    BY <1>1
  <2> QED
    BY <2>1, Quotient DEF FrameCount
<1> QED
  BY <1>1, <1>2, <1>3, <1>4, <1>5 DEF SimReady

\* Stamps are numbers, and each is after the one before it, whatever the jitter.
LEMMA StampsGoOn ==
  ASSUME HashesAreNumbers, SimReady, cfg.fps > 0, NEW first \in Nat, NEW n \in Nat
  PROVE  /\ \A i \in 0 .. n : Stamps(first, n)[i] \in Int
         /\ \A i \in 2 .. n : Stamps(first, n)[i - 1] < Stamps(first, n)[i]
<1> DEFINE raw(id) == cam.start + Period * id + Jitter(id)
           next(i, v) == IF i > 1 /\ raw(first + i - 1) <= v THEN v + 1 ELSE raw(first + i - 1)
           T == [i \in 0 .. n |-> Int]
           G == [x \in (1 .. n) \X Int |-> next(x[1], x[2])]
           Is(f) == f = [i \in 0 .. n |-> IF i = 0 THEN 0 ELSE next(i, f[i - 1])]
<1>1. \A id \in Nat : raw(id) \in Int
  <2> SUFFICES ASSUME NEW id \in Nat PROVE raw(id) \in Int
    OBVIOUS
  <2>1. Period \in Nat /\ cam.start \in Int /\ Jitter(id) \in Int
    BY SimNumbers
  <2>2. Period * id \in Int
    BY <2>1
  <2> QED
    BY <2>1, <2>2
<1> HIDE DEF raw
<1>2. \A i \in 1 .. n : \A v \in Int : next(i, v) \in Int /\ (i > 1 => v < next(i, v))
  <2> SUFFICES ASSUME NEW i \in 1 .. n, NEW v \in Int
               PROVE  next(i, v) \in Int /\ (i > 1 => v < next(i, v))
    OBVIOUS
  <2>1. first + i - 1 \in Nat
    OBVIOUS
  <2>2. raw(first + i - 1) \in Int
    BY <1>1, <2>1
  <2> QED
    BY <2>2
<1>3. \A i \in 1 .. n : \A v \in T[i - 1] : G[<<i, v>>] = next(i, v) /\ next(i, v) \in T[i]
  <2> SUFFICES ASSUME NEW i \in 1 .. n, NEW v \in T[i - 1]
               PROVE  G[<<i, v>>] = next(i, v) /\ next(i, v) \in T[i]
    OBVIOUS
  <2>1. i - 1 \in 0 .. n /\ i \in 0 .. n
    OBVIOUS
  <2>2. v \in Int /\ T[i] = Int
    BY <2>1
  <2> QED
    BY <1>2, <2>2
<1>4. 0 \in T[0]
  OBVIOUS
<1> HIDE DEF next
<1>5. \E f : Is(f)
  <2>0. \A i \in 1 .. n : \A v \in T[i - 1] : G[<<i, v>>] \in T[i]
    BY <1>3
  <2> HIDE DEF T, G
  <2>1. PICK f : f = [i \in 0 .. n |-> f[i]] /\ Recurs(f, n, 0, G)
    BY <1>4, <2>0, RecursionExists
  <2>2. \A i \in 0 .. n : f[i] \in T[i]
    BY <1>4, <2>0, <2>1, RecursionTyped
  <2>3. ASSUME NEW i \in 0 .. n
        PROVE  f[i] = IF i = 0 THEN 0 ELSE next(i, f[i - 1])
    <3>1. CASE i = 0
      BY <2>1, <3>1 DEF Recurs
    <3>2. CASE i # 0
      <4>1. i \in 1 .. n /\ i - 1 \in 0 .. n
        BY <3>2
      <4>2. f[i] = G[<<i, f[i - 1]>>] /\ f[i - 1] \in T[i - 1]
        BY <2>1, <2>2, <4>1 DEF Recurs
      <4> QED
        BY <1>3, <3>2, <4>1, <4>2
    <3> QED
      BY <3>1, <3>2
  <2>4. Is(f)
    BY <2>1, <2>3
  <2> QED
    BY <2>4
<1>6. Is(Stamps(first, n))
  <2>1. Stamps(first, n) = CHOOSE f : Is(f)
    BY DEF Stamps, raw, next
  <2> HIDE DEF Is
  <2> QED
    BY <1>5, <2>1
<1> DEFINE s == Stamps(first, n)
<1>7. s[0] = 0 /\ \A i \in 1 .. n : s[i] = next(i, s[i - 1])
  <2>1. 0 \in 0 .. n
    OBVIOUS
  <2> QED
    BY <1>6, <2>1
<1> HIDE DEF s
<1>8. \A i \in 0 .. n : s[i] \in Int
  <2> DEFINE S == {i \in 0 .. n : s[i] \in Int}
  <2>1. 0 \in S
    BY <1>7
  <2>2. ASSUME NEW k \in 0 .. n - 1, k \in S PROVE k + 1 \in S
    <3>1. k + 1 \in 1 .. n /\ k + 1 \in 0 .. n /\ (k + 1) - 1 = k /\ s[k] \in Int
      BY <2>2
    <3>2. s[k + 1] = next(k + 1, s[k])
      BY <1>7, <3>1
    <3>3. s[k + 1] \in Int
      BY <1>2, <3>1, <3>2
    <3> QED
      BY <3>1, <3>3
  <2> HIDE DEF S
  <2>3. 0 .. n \subseteq S
    BY <2>1, <2>2, CountingUp
  <2> QED
    BY <2>3 DEF S
<1>9. \A i \in 2 .. n : s[i - 1] < s[i]
  <2> SUFFICES ASSUME NEW i \in 2 .. n PROVE s[i - 1] < s[i]
    OBVIOUS
  <2>1. i \in 1 .. n /\ i - 1 \in 0 .. n /\ i > 1
    OBVIOUS
  <2>2. s[i] = next(i, s[i - 1]) /\ s[i - 1] \in Int
    BY <1>7, <1>8, <2>1
  <2> QED
    BY <1>2, <2>1, <2>2
<1> QED
  BY <1>8, <1>9 DEF s

\* A sequence of numbers each of which is after the one before it.
LEMMA Climbing ==
  ASSUME NEW n \in Nat, NEW s, \A i \in 1 .. n : s[i] \in Int,
         \A i \in 2 .. n : s[i - 1] < s[i]
  PROVE  \A i, j \in 1 .. n : i < j => s[i] < s[j]
<1> DEFINE S == {k \in 0 .. n : \A i, j \in 1 .. k : i < j => s[i] < s[j]}
<1>1. 0 \in S
  OBVIOUS
<1>2. ASSUME NEW k \in 0 .. n - 1, k \in S PROVE k + 1 \in S
  <2> SUFFICES ASSUME NEW i \in 1 .. k + 1, NEW j \in 1 .. k + 1, i < j
               PROVE  s[i] < s[j]
    OBVIOUS
  <2>1. CASE j \in 1 .. k
    BY <1>2, <2>1
  <2>2. CASE j = k + 1
    <3>1. j \in 2 .. n /\ i \in 1 .. k /\ k \in 1 .. n /\ j - 1 = k
      BY <2>2
    <3>2. s[k] < s[j] /\ s[i] \in Int /\ s[k] \in Int /\ s[j] \in Int
      <4>1. i \in 1 .. n /\ j \in 1 .. n
        OBVIOUS
      <4> QED
        BY <3>1, <4>1
    <3>3. i = k \/ s[i] < s[k]
      BY <1>2, <3>1
    <3> QED
      BY <3>2, <3>3
  <2> QED
    BY <2>1, <2>2
<1> HIDE DEF S
<1>3. 0 .. n \subseteq S
  BY <1>1, <1>2, CountingUp
<1>4. n \in S
  BY <1>3
<1> QED
  BY <1>4 DEF S

\* The frames of a pull before they are reordered: numbered on and stamped in order.
LEMMA GeneratedFrames ==
  ASSUME HashesAreNumbers, SimReady, cfg.fps > 0, NEW first \in Nat, NEW n \in Nat
  PROVE  /\ Generated(first, n) \in Seq(Frame) /\ Len(Generated(first, n)) = n
         /\ DOMAIN Generated(first, n) = 1 .. n
         /\ \A i \in 1 .. n : Generated(first, n)[i].id = first + i - 1
         /\ \A i, j \in 1 .. n : i < j => Generated(first, n)[i].ts < Generated(first, n)[j].ts
<1> DEFINE fs == Generated(first, n)
           s  == Stamps(first, n)
<1>1. /\ DOMAIN fs = 1 .. n /\ fs = [i \in 1 .. n |-> fs[i]]
      /\ \A i \in 1 .. n :
           /\ fs[i] = [id |-> first + i - 1, ts |-> s[i], size |-> fs[i].size,
                       outcome |-> fs[i].outcome]
           /\ fs[i].size \in {0, cfg.size} /\ fs[i].outcome \in {"dropped", "received"}
  BY DEF Generated
<1>2. \A i \in 0 .. n : s[i] \in Int
  BY StampsGoOn
<1>3. \A i \in 2 .. n : s[i - 1] < s[i]
  BY StampsGoOn
<1>4. cfg.size \in Nat
  BY SimNumbers
<1> HIDE DEF fs, s
<1>5. \A i \in 1 .. n : fs[i].id = first + i - 1 /\ fs[i].ts = s[i]
  BY <1>1
<1>6. \A i \in 1 .. n : fs[i] \in Frame
  <2> SUFFICES ASSUME NEW i \in 1 .. n PROVE fs[i] \in Frame
    OBVIOUS
  <2>1. first + i - 1 \in Nat /\ i \in 0 .. n
    OBVIOUS
  <2> QED
    BY <1>1, <1>2, <1>4, <2>1 DEF Frame, Outcomes
<1>7. fs \in Seq(Frame) /\ Len(fs) = n
  <2>1. fs \in [1 .. n -> Frame]
    BY <1>1, <1>6
  <2> QED
    BY <2>1
<1>8. \A i, j \in 1 .. n : i < j => s[i] < s[j]
  <2>1. \A i \in 1 .. n : s[i] \in Int
    BY <1>2
  <2> QED
    BY <1>3, <2>1, Climbing
<1> QED
  BY <1>1, <1>5, <1>7, <1>8 DEF fs

\* Different places have different ids and different stamps.
Distinct(fs) ==
  \A i, j \in DOMAIN fs : fs[i].id = fs[j].id \/ fs[i].ts = fs[j].ts => i = j

\* Reordering is an arrangement of the places.
LEMMA ReorderedFrames ==
  ASSUME HashesAreNumbers, SimReady, NEW fs \in Seq(Frame), Distinct(fs)
  PROVE  /\ Reordered(fs) \in Seq(Frame) /\ Len(Reordered(fs)) = Len(fs)
         /\ Distinct(Reordered(fs))
         /\ \A i \in DOMAIN Reordered(fs) : \E j \in DOMAIN fs : Reordered(fs)[i] = fs[j]
<1> DEFINE n == Len(fs)
           D == DOMAIN fs
           R == {p \in D \X D : Before(fs, p[1], p[2])}
           at == Arranged(D, R)
           w(k) == (k - 1) \div cfg.reorder
           key(k) == OrderMix(cfg.seed, fs[k].id)
           t == Reordered(fs)
<1>0. n \in Nat /\ D = 1 .. n /\ \A i \in D : fs[i] \in Frame
  BY LenProperties, ElementOfSeq
<1>1. CASE cfg.reorder <= 1
  BY <1>1, <1>0 DEF Reordered
<1>2. CASE ~(cfg.reorder <= 1)
  <2>1. cfg.reorder \in Nat \ {0}
    <3>1. cfg.reorder \in Nat
      BY SimNumbers
    <3> QED
      BY <1>2, <3>1
  <2>2. \A k \in D : w(k) \in Int /\ key(k) \in Nat /\ fs[k].id \in Nat
    <3> SUFFICES ASSUME NEW k \in D PROVE w(k) \in Int /\ key(k) \in Nat /\ fs[k].id \in Nat
      OBVIOUS
    <3>1. fs[k].id \in Nat
      BY <1>0 DEF Frame
    <3>2. k - 1 \in Nat
      BY <1>0
    <3>3. w(k) \in Nat
      BY <2>1, <3>2, Quotient
    <3>4. key(k) \in Nat
      BY <3>1, SimNumbers
    <3> QED
      BY <3>1, <3>3, <3>4
  <2>3. \A j, i \in D : <<j, i>> \in R <=>
          w(j) < w(i) \/ (w(j) = w(i) /\ key(j) < key(i))
            \/ (w(j) = w(i) /\ key(j) = key(i) /\ fs[j].id < fs[i].id)
    BY DEF Before
  <2>4. \A j, i \in D : fs[j].id = fs[i].id => j = i
    BY DEF Distinct
  <2>5. t = [p \in D |-> fs[at[p]]]
    BY <1>2 DEF Reordered
  <2> HIDE DEF R, w, key, D, t, n
  <2>6. Orders(R, D)
    <3>1. \A a \in D : <<a, a>> \notin R
      BY <2>2, <2>3
    <3>2. ASSUME NEW a \in D, NEW b \in D, NEW c \in D, <<a, b>> \in R, <<b, c>> \in R
          PROVE  <<a, c>> \in R
      <4>1. /\ w(a) \in Int /\ w(b) \in Int /\ w(c) \in Int
            /\ key(a) \in Nat /\ key(b) \in Nat /\ key(c) \in Nat
            /\ fs[a].id \in Nat /\ fs[b].id \in Nat /\ fs[c].id \in Nat
        BY <2>2
      <4>2. /\ w(a) <= w(b) /\ (w(a) = w(b) => key(a) <= key(b))
            /\ w(b) <= w(c) /\ (w(b) = w(c) => key(b) <= key(c))
            /\ w(a) = w(b) /\ key(a) = key(b) => fs[a].id < fs[b].id
            /\ w(b) = w(c) /\ key(b) = key(c) => fs[b].id < fs[c].id
        BY <2>3, <3>2, <4>1
      <4>3. \/ w(a) < w(c)
            \/ w(a) = w(c) /\ key(a) < key(c)
            \/ w(a) = w(c) /\ key(a) = key(c) /\ fs[a].id < fs[c].id
        BY <4>1, <4>2
      <4> QED
        BY <2>3, <4>3
    <3>3. \A a, b \in D : a # b => <<a, b>> \in R \/ <<b, a>> \in R
      BY <2>2, <2>3, <2>4
    <3> QED
      BY <3>1, <3>2, <3>3 DEF Orders
  <2>7. IsFiniteSet(D) /\ Cardinality(D) = n
    <3>1. 1 \in Int /\ n \in Int
      BY <1>0
    <3> QED
      BY <1>0, <3>1, FS_Interval
  <2>8. /\ at \in Seq(D) /\ Len(at) = n
        /\ \A i, j \in 1 .. n : at[i] = at[j] => i = j
    BY <2>6, <2>7, ArrangedProperties
  <2> HIDE DEF at
  <2>9. \A i \in D : at[i] \in D
    BY <1>0, <2>8
  <2>10. t \in [1 .. n -> Frame]
    BY <1>0, <2>5, <2>9
  <2>11. t \in Seq(Frame) /\ Len(t) = n /\ DOMAIN t = 1 .. n
    BY <1>0, <2>10
  <2>12. Distinct(t)
    BY <1>0, <2>5, <2>8, <2>9, <2>11 DEF Distinct, D
  <2> QED
    BY <1>0, <2>5, <2>9, <2>11, <2>12 DEF D, t, n
<1> QED
  BY <1>1, <1>2

\* A pull delivers frames of its own numbers, each once.
LEMMA DeliveredFrames ==
  ASSUME HashesAreNumbers, SimReady, cfg.fps > 0, NEW s \in Nat
  PROVE  /\ Delivered(s) \in Seq(Frame) /\ Len(Delivered(s)) = FrameCount(s)
         /\ Distinct(Delivered(s))
         /\ \A i \in DOMAIN Delivered(s) :
              Delivered(s)[i].id \in cam.next .. cam.next + FrameCount(s) - 1
         /\ cfg.reorder <= 1 => IdsUp(Delivered(s))
<1> DEFINE n  == FrameCount(s)
           fs == Generated(cam.next, n)
<1>1. n \in Nat /\ cam.next \in Nat
  BY SimNumbers
<1>2. /\ fs \in Seq(Frame) /\ Len(fs) = n /\ DOMAIN fs = 1 .. n
      /\ \A i \in 1 .. n : fs[i].id = cam.next + i - 1
      /\ \A i, j \in 1 .. n : i < j => fs[i].ts < fs[j].ts
  BY <1>1, GeneratedFrames
<1>3. Delivered(s) = Reordered(fs)
  BY DEF Delivered
<1> HIDE DEF n, fs
<1>4. \A i \in 1 .. n : fs[i].ts \in Int
  <2>1. \A i \in 1 .. n : fs[i] \in Frame
    BY <1>2, ElementOfSeq
  <2> QED
    BY <2>1 DEF Frame
<1>5. Distinct(fs)
  <2> SUFFICES ASSUME NEW i \in 1 .. n, NEW j \in 1 .. n,
                      fs[i].id = fs[j].id \/ fs[i].ts = fs[j].ts
               PROVE  i = j
    BY <1>2 DEF Distinct
  <2>1. CASE fs[i].id = fs[j].id
    BY <1>1, <1>2, <2>1
  <2>2. CASE fs[i].ts = fs[j].ts
    BY <1>1, <1>2, <1>4, <2>2
  <2> QED
    BY <2>1, <2>2
<1>6. /\ Reordered(fs) \in Seq(Frame) /\ Len(Reordered(fs)) = n
      /\ Distinct(Reordered(fs))
      /\ \A i \in DOMAIN Reordered(fs) : \E j \in DOMAIN fs : Reordered(fs)[i] = fs[j]
  BY <1>2, <1>5, ReorderedFrames
<1>7. \A i \in DOMAIN Reordered(fs) : Reordered(fs)[i].id \in cam.next .. cam.next + n - 1
  <2> SUFFICES ASSUME NEW i \in DOMAIN Reordered(fs)
               PROVE  Reordered(fs)[i].id \in cam.next .. cam.next + n - 1
    OBVIOUS
  <2>1. PICK j \in 1 .. n : Reordered(fs)[i] = fs[j]
    BY <1>2, <1>6
  <2>2. Reordered(fs)[i].id = cam.next + j - 1
    BY <1>2, <2>1
  <2> QED
    BY <1>1, <2>2
<1>8. cfg.reorder <= 1 => IdsUp(Reordered(fs))
  <2> SUFFICES ASSUME cfg.reorder <= 1 PROVE IdsUp(fs)
    BY DEF Reordered
  <2> QED
    BY <1>1, <1>2 DEF IdsUp
<1> QED
  BY <1>3, <1>6, <1>7, <1>8 DEF n

\* The real camera at work
RealStates ==
  [connected : BOOLEAN, running : BOOLEAN, latched : BOOLEAN, next : Nat, start : Int, pulls : Nat]

RealReady ==
  /\ real \in RealStates
  /\ FrameRate \in Nat \ {0}

\* It numbers on and stamps in order, too.
LEMMA RealFramesOnce ==
  ASSUME RealReady, NEW s \in Nat
  PROVE  /\ RealCount(s) \in Nat
         /\ RealFrames(s) \in Seq(Frame) /\ Len(RealFrames(s)) = RealCount(s)
         /\ Distinct(RealFrames(s)) /\ IdsUp(RealFrames(s))
<1> DEFINE n == RealCount(s)
           fs == RealFrames(s)
           first == real.next
           p == RealPeriod
<1>1. n \in Nat
  <2>1. s * FrameRate \in Nat
    BY DEF RealReady
  <2> QED
    BY <2>1, Quotient DEF RealCount
<1>2. p \in Nat \ {0}
  <2>1. Window \in Nat
    BY DEF Window
  <2>2. FrameRate \div 2 \in Nat
    BY DEF RealReady
  <2>3. Window + FrameRate \div 2 \in Nat
    BY <2>1, <2>2
  <2>4. (Window + FrameRate \div 2) \div FrameRate \in Nat
    BY <2>3, Quotient DEF RealReady
  <2> QED
    BY <2>4 DEF RealPeriod
<1>3. first \in Nat /\ real.start \in Int
  BY DEF RealReady, RealStates
<1>4. \A id : /\ RealOutcome(id) \in {"received", "timeout", "incomplete"}
              /\ RealSize(RealOutcome(id)) \in Nat
  <2> SUFFICES ASSUME NEW id
               PROVE  /\ RealOutcome(id) \in {"received", "timeout", "incomplete"}
                      /\ RealSize(RealOutcome(id)) \in Nat
    OBVIOUS
  <2>1. RealOutcome(id) \in {"received", "timeout", "incomplete"}
    BY DEF RealOutcome
  <2>2. PayloadSize \in Nat /\ PayloadSize \div 4 \in Nat
    OBVIOUS
  <2> QED
    BY <2>1, <2>2 DEF RealSize
<1>5. /\ DOMAIN fs = 1 .. n /\ fs = [i \in 1 .. n |-> fs[i]]
      /\ \A i \in 1 .. n :
           fs[i] = [id |-> first + i - 1, ts |-> real.start + p * (first + i - 1),
                    outcome |-> RealOutcome(first + i - 1),
                    size |-> RealSize(RealOutcome(first + i - 1))]
  BY DEF RealFrames
<1> HIDE DEF fs, n, p, first
<1>6. \A i \in 1 .. n : p * (first + i - 1) \in Int
  <2>1. \A i \in 1 .. n : first + i - 1 \in Nat
    BY <1>1, <1>3
  <2>2. \A x \in Nat : p * x \in Int
    BY <1>2
  <2> QED
    BY <2>1, <2>2
<1>7. \A i \in 1 .. n : fs[i] \in Frame
  <2> SUFFICES ASSUME NEW i \in 1 .. n PROVE fs[i] \in Frame
    OBVIOUS
  <2>1. first + i - 1 \in Nat
    BY <1>1, <1>3
  <2>2. real.start + p * (first + i - 1) \in Int
    BY <1>3, <1>6
  <2> QED
    BY <1>4, <1>5, <2>1, <2>2 DEF Frame, Outcomes
<1>8. fs \in Seq(Frame) /\ Len(fs) = n
  <2>1. fs \in [1 .. n -> Frame]
    BY <1>5, <1>7
  <2> QED
    BY <1>1, <2>1
<1>9. ASSUME NEW i \in 1 .. n, NEW j \in 1 .. n, i < j
      PROVE  fs[i].id < fs[j].id /\ fs[i].ts < fs[j].ts
  <2>1. fs[i].id = first + i - 1 /\ fs[j].id = first + j - 1
    BY <1>5
  <2>2. p * (first + i - 1) < p * (first + j - 1)
    <3>1. \A x, y \in Nat : x < y => p * x < p * y
      BY <1>2
    <3>2. first + i - 1 \in Nat /\ first + j - 1 \in Nat /\ first + i - 1 < first + j - 1
      BY <1>1, <1>3, <1>9
    <3> QED
      BY <3>1, <3>2
  <2>3. fs[i].ts < fs[j].ts
    BY <1>3, <1>5, <1>6, <2>2
  <2> QED
    BY <1>1, <1>3, <1>9, <2>1, <2>3
<1>10. IdsUp(fs)
  BY <1>5, <1>9 DEF IdsUp
<1>11. Distinct(fs)
  <2> SUFFICES ASSUME NEW i \in 1 .. n, NEW j \in 1 .. n, i < j
               PROVE  fs[i].id # fs[j].id /\ fs[i].ts # fs[j].ts
    BY <1>1, <1>5 DEF Distinct
  <2>1. fs[i] \in Frame /\ fs[j] \in Frame
    BY <1>7
  <2> QED
    BY <1>9, <2>1 DEF Frame
<1> QED
  BY <1>1, <1>8, <1>10, <1>11 DEF fs, n

-----------------------------------------------------------------------------
(*****************************************************************************)
(* Numbers                                                                   *)
(*****************************************************************************)

\* Milliseconds of the plan.
PlanTimes == plan.duration \in Nat /\ plan.interval \in Nat \ {0} /\ plan.config \in Configs

CaptureInv ==
  /\ plan \in Plans
  /\ pc \in {"new", "discover", "configure", "apply", "refused", "open", "stream", "append",
             "measure", "paused", "failed", "done"}
  /\ begins \in 0 .. MaxBegins
  /\ completed \in Nat /\ completed <= plan.duration /\ span \in Nat
  /\ pc = "append" => span = NextSpan
  /\ received \in Nat /\ dropped \in Nat
  /\ logged \in [Outcomes -> Nat]

\* A chunk is as long as what remains of the run, or shorter.
LEMMA SpanFitsPlan ==
  ASSUME CaptureInv
  PROVE  PlanTimes /\ NextSpan \in Nat /\ completed + NextSpan <= plan.duration
<1>1. PlanTimes
  BY PlanAssumption DEF PlanTimes, CaptureInv
<1> QED
  BY <1>1 DEF PlanTimes, CaptureInv, NextSpan

\* Frames of one outcome are some of the frames.
LEMMA TallyType ==
  ASSUME NEW fs \in Seq(Frame), NEW outcome
  PROVE  Tally(fs, outcome) \in Nat /\ Len(fs) - Tally(fs, outcome) \in Nat
<1> DEFINE S == {i \in DOMAIN fs : fs[i].outcome = outcome}
<1>1. DOMAIN fs = 1 .. Len(fs) /\ Len(fs) \in Nat
  BY LenProperties
<1>2. IsFiniteSet(DOMAIN fs) /\ Cardinality(DOMAIN fs) = Len(fs)
  BY <1>1, FS_Interval
<1>3. IsFiniteSet(S) /\ Cardinality(S) <= Len(fs)
  BY <1>2, FS_Subset
<1>4. Cardinality(S) \in Nat
  BY <1>3, FS_CardinalityType
<1> QED
  BY <1>1, <1>3, <1>4 DEF Tally

\* One more event leaves numbers of events.
LEMMA OneMoreLogged ==
  ASSUME NEW counts \in [Outcomes -> Nat], NEW x
  PROVE  [counts EXCEPT ![x] = @ + 1] \in [Outcomes -> Nat]
<1>1. [counts EXCEPT ![x] = @ + 1]
        = [o \in Outcomes |-> IF o = x THEN counts[o] + 1 ELSE counts[o]]
  BY DEF Outcomes
<1>2. \A o \in Outcomes : (IF o = x THEN counts[o] + 1 ELSE counts[o]) \in Nat
  OBVIOUS
<1> QED
  BY <1>1, <1>2

\* Frames read back from the cache are those that were written to it, but for the way
\* in which they were lost.
LEMMA ReloadedKeeps ==
  ASSUME NEW fs \in Seq(Frame)
  PROVE  /\ Reloaded(fs) \in Seq(Frame)
         /\ DOMAIN Reloaded(fs) = DOMAIN fs /\ Len(Reloaded(fs)) = Len(fs)
         /\ \A i \in DOMAIN fs :
              /\ Reloaded(fs)[i].id = fs[i].id /\ Reloaded(fs)[i].ts = fs[i].ts
              /\ Reloaded(fs)[i].outcome \in {"received", "dropped"}
<1>1. DOMAIN fs = 1 .. Len(fs) /\ Len(fs) \in Nat /\ \A i \in DOMAIN fs : fs[i] \in Frame
  BY LenProperties, ElementOfSeq
<1>2. ASSUME NEW i \in DOMAIN fs
      PROVE  /\ Reloaded(fs)[i] \in Frame
             /\ Reloaded(fs)[i].id = fs[i].id /\ Reloaded(fs)[i].ts = fs[i].ts
             /\ Reloaded(fs)[i].outcome \in {"received", "dropped"}
  <2>1. fs[i] \in Frame
    BY <1>1
  <2>2. CASE fs[i].outcome = "received"
    BY <2>1, <2>2 DEF Reloaded
  <2>3. CASE fs[i].outcome # "received"
    <3>1. Reloaded(fs)[i] = [fs[i] EXCEPT !.outcome = "dropped"]
      BY <2>3 DEF Reloaded
    <3> QED
      BY <2>1, <3>1 DEF Frame, Outcomes
  <2> QED
    BY <2>2, <2>3
<1>3. DOMAIN Reloaded(fs) = DOMAIN fs
  BY DEF Reloaded
<1>4. Reloaded(fs) \in [1 .. Len(fs) -> Frame]
  BY <1>1, <1>2, <1>3 DEF Reloaded
<1>5. Reloaded(fs) \in Seq(Frame)
  BY <1>1, <1>4
<1> QED
  BY <1>1, <1>2, <1>3, <1>5, LenProperties

\* A process that begins counts the frames it has read.
LEMMA RecountingKeepsTypes ==
  ASSUME CaptureInv, frames \in Seq(Frame), Recounted, plan' = plan, pc' = "stream",
         begins' \in 0 .. MaxBegins
  PROVE  CaptureInv'
<1>1. frames' = Reloaded(frames) /\ frames' \in Seq(Frame)
  BY ReloadedKeeps DEF Recounted
<1>2. received' \in Nat /\ dropped' \in Nat
  BY <1>1, TallyType DEF Recounted
<1>3. logged' \in [Outcomes -> Nat]
  BY DEF Recounted, NoneLogged
<1> QED
  BY <1>2, <1>3 DEF CaptureInv, Recounted

\* The numbers of a run stay numbers, and no chunk is longer than it may be.
LEMMA CaptureStep ==
  ASSUME CaptureInv, frames \in Seq(Frame), [Next]_vars
  PROVE  CaptureInv'
<1>1. ASSUME NEW t \in Clock, BeginSim(t) PROVE CaptureInv'
  <2>1. begins' \in 0 .. MaxBegins
    BY <1>1, PlanAssumption DEF BeginSim, CanBegin, CaptureInv
  <2> QED
    BY <1>1, <2>1, RecountingKeepsTypes DEF BeginSim
<1>2. ASSUME NEW t \in Clock, OpenCamera(t) PROVE CaptureInv'
  <2>1. begins' \in 0 .. MaxBegins
    BY <1>2 DEF OpenCamera, CaptureInv
  <2> QED
    BY <1>2, <2>1, RecountingKeepsTypes DEF OpenCamera
<1>3. ASSUME captureVars' = captureVars, plan' = plan, begins' \in 0 .. MaxBegins,
             pc' \in {"discover", "configure", "apply", "refused", "open", "measure", "paused",
                      "failed", "done"}
      PROVE  CaptureInv'
  BY <1>3 DEF captureVars, CaptureInv
<1>4. CASE BeginReal
  <2>1. begins' \in 0 .. MaxBegins
    BY <1>4, PlanAssumption DEF BeginReal, CanBegin, CaptureInv
  <2> QED
    BY <1>3, <1>4, <2>1 DEF BeginReal
<1>5. CASE Discovered \/ NothingDiscovered \/ KeyMapLoads \/ ApplyParam \/ ParamUnsupported
           \/ ReportApplied
  <2>1. begins' \in 0 .. MaxBegins
    BY <1>5
    DEF Discovered, NothingDiscovered, KeyMapLoads, ApplyParam, ParamUnsupported, ReportApplied,
        CaptureInv
  <2> QED
    BY <1>3, <1>5, <2>1
    DEF Discovered, NothingDiscovered, KeyMapLoads, ApplyParam, ParamUnsupported, ReportApplied
<1>6. CASE KeyMapFails \/ ReportRefusal \/ ReportFails \/ PullFails \/ Pause \/ Measure
  <2>1. begins' \in 0 .. MaxBegins
    BY <1>6
    DEF KeyMapFails, ReportRefusal, ReportFails, PullFails, Pause, Measure, CaptureInv
  <2> QED
    BY <1>3, <1>6, <2>1
    DEF KeyMapFails, ReportRefusal, ReportFails, PullFails, Pause, Measure, Ends
<1>7. CASE PullSim \/ PullRealFrames
  <2>1. /\ pc' = "append" /\ span' = NextSpan
        /\ UNCHANGED <<plan, begins, completed, received, dropped, logged>>
    BY <1>7 DEF PullSim, PullRealFrames, Pulled
  <2>2. NextSpan' = NextSpan
    BY <2>1 DEF NextSpan
  <2> QED
    BY <2>1, <2>2, SpanFitsPlan DEF CaptureInv
<1>8. CASE AppendFrame
  <2>1. /\ UNCHANGED <<pc, plan, begins, completed, span>>
        /\ received' = received + (IF Normalised(Head(chunk)).outcome = "received" THEN 1 ELSE 0)
        /\ dropped' = dropped + (IF Normalised(Head(chunk)).outcome = "received" THEN 0 ELSE 1)
        /\ logged' = [logged EXCEPT ![Normalised(Head(chunk)).outcome] = @ + 1]
    BY <1>8 DEF AppendFrame
  <2>2. NextSpan' = NextSpan
    BY <2>1 DEF NextSpan
  <2>3. logged' \in [Outcomes -> Nat]
    BY <2>1, OneMoreLogged DEF CaptureInv
  <2> QED
    BY <2>1, <2>2, <2>3 DEF CaptureInv
<1>9. CASE CompleteChunk
  <2>1. /\ completed' = completed + NextSpan
        /\ pc' \in {"stream", "measure"}
        /\ UNCHANGED <<plan, begins, span, received, dropped, logged>>
    BY <1>9 DEF CompleteChunk, CaptureInv
  <2> QED
    BY <2>1, SpanFitsPlan DEF CaptureInv, PlanTimes
<1>10. CASE UNCHANGED vars
  <2>1. UNCHANGED <<pc, plan, begins, completed, span, received, dropped, logged>>
        /\ NextSpan' = NextSpan
    BY <1>10 DEF vars, captureVars, NextSpan
  <2> QED
    BY <2>1 DEF CaptureInv
<1> QED
  BY <1>1, <1>2, <1>4, <1>5, <1>6, <1>7, <1>8, <1>9, <1>10 DEF Next, Finished

CameraInv ==
  /\ SimReady
  /\ real \in RealStates
  /\ RateNode \in DOMAIN params =>
       params[RateNode].at \in Nodes[RateNode].min .. Nodes[RateNode].max

\* The rate of the real camera is a positive number.
LEMMA CameraReady ==
  ASSUME CameraInv
  PROVE  RealReady
<1>1. FrameRate \in Nat \ {0}
  <2>1. CASE RateNode \in DOMAIN params
    <3>1. Nodes[RateNode].min \in Int /\ Nodes[RateNode].max \in Int
      BY RateAssumption
    <3>2. params[RateNode].at \in Nat \ {0}
      BY <2>1, <3>1, RateAssumption DEF CameraInv
    <3> QED
      BY <2>1, <3>2 DEF FrameRate
  <2>2. CASE RateNode \notin DOMAIN params
    BY <2>2 DEF FrameRate
  <2> QED
    BY <2>1, <2>2
<1> QED
  BY <1>1 DEF CameraInv, RealReady

\* The states of the two cameras at the beginning of a process
LEMMA CamerasOff ==
  /\ Off \in [connected : BOOLEAN, running : BOOLEAN, next : Nat, start : Int]
  /\ RealOff \in RealStates
  BY DEF Off, RealOff, RealStates

\* The cameras keep to their knobs, and count in numbers.
LEMMA CameraStep ==
  ASSUME HashesAreNumbers, CaptureInv, RequestInv, CameraInv, [Next]_vars
  PROVE  CameraInv'
<1>1. ASSUME cfg' = cfg, cam' \in {cam, Off}, real' \in {real, RealOff}, params' = params
      PROVE  CameraInv'
  BY <1>1, CamerasOff DEF CameraInv, SimReady
<1>2. ASSUME NEW t \in Clock, BeginSim(t) PROVE CameraInv'
  <2>1. t \in Int /\ plan.config \in Configs
    BY PlanAssumption DEF CaptureInv
  <2> QED
    BY <1>2, <2>1
    DEF BeginSim, OpenAt, ApplyScenarioConfig, configVars, CameraInv, SimReady
<1>3. ASSUME NEW t \in Clock, OpenCamera(t) PROVE CameraInv'
  <2>1. t \in Int
    BY PlanAssumption
  <2>2. real' = [real EXCEPT !.connected = TRUE, !.running = TRUE,
                             !.start = IF real.next = 0 THEN t ELSE @]
        /\ UNCHANGED <<cam, cfg, params>>
    BY <1>3 DEF OpenCamera, OpenReal, configVars
  <2>3. real' \in RealStates
    BY <2>1, <2>2 DEF CameraInv, RealStates
  <2> QED
    BY <2>2, <2>3 DEF CameraInv, SimReady
<1>4. CASE BeginReal \/ NothingDiscovered
  BY <1>1, <1>4 DEF BeginReal, NothingDiscovered, configVars
<1>5. CASE Discovered
  <2>1. /\ params' = [n \in {RateNode} |-> Nodes[RateNode].first]
        /\ real' = RealOff /\ UNCHANGED <<cam, cfg>>
    BY <1>5 DEF Discovered
  <2> QED
    BY <2>1, CamerasOff, RateAssumption DEF CameraInv, SimReady
<1>6. CASE KeyMapFails \/ ReportRefusal \/ ReportFails \/ PullFails \/ Pause \/ Measure
  BY <1>1, <1>6
  DEF KeyMapFails, ReportRefusal, ReportFails, PullFails, Pause, Measure, Ends, DestroyReal,
      configVars
<1>7. CASE KeyMapLoads \/ ParamUnsupported \/ ReportApplied \/ AppendFrame \/ CompleteChunk
  BY <1>1, <1>7
  DEF KeyMapLoads, ParamUnsupported, ReportApplied, AppendFrame, CompleteChunk, cameraVars,
      configVars
<1>8. CASE ApplyParam
  <2> DEFINE r == Head(todo)
             node == NodeOf(r, plan.keys)
  <2>1. /\ node \in DOMAIN Nodes
        /\ params' = [n \in DOMAIN params \cup {node} |->
                        IF n = node THEN Prepared(r, node) ELSE params[n]]
        /\ UNCHANGED <<cam, cfg, real>>
    BY <1>8 DEF ApplyParam, Accepts, BackendValue, cameraVars
  <2>2. r \in Request
    BY <1>8, HeadTailProperties DEF ApplyParam, RequestInv
  <2>3. InRange(node, Prepared(r, node))
    BY <2>1, <2>2, PreparedInRange
  <2> HIDE DEF r, node
  <2>4. RateNode \in DOMAIN params' =>
          params'[RateNode].at \in Nodes[RateNode].min .. Nodes[RateNode].max
    BY <2>1, <2>3, RateAssumption DEF InRange, CameraInv
  <2> QED
    BY <2>1, <2>4 DEF CameraInv, SimReady
<1>9. CASE PullSim
  <2>1. /\ cam' = [cam EXCEPT !.next = @ + FrameCount(NextSpan)]
        /\ UNCHANGED <<cfg, real, params>>
    BY <1>9 DEF PullSim, Pulled, PullFrames, configVars
  <2>2. FrameCount(NextSpan) \in Nat /\ cam.next \in Nat
    BY SimNumbers, SpanFitsPlan DEF CameraInv
  <2>3. cam.next + FrameCount(NextSpan) \in Nat
    BY <2>2
  <2> QED
    BY <2>1, <2>3 DEF CameraInv, SimReady
<1>10. CASE PullRealFrames
  <2>1. /\ real' = [real EXCEPT !.pulls = @ + 1, !.next = @ + RealCount(NextSpan)]
        /\ UNCHANGED <<cfg, cam, params>>
    BY <1>10 DEF PullRealFrames, Pulled, PullReal, configVars
  <2>2. RealCount(NextSpan) \in Nat
    BY CameraReady, RealFramesOnce, SpanFitsPlan
  <2>3. real.next + RealCount(NextSpan) \in Nat /\ real.pulls + 1 \in Nat
    BY <2>2 DEF CameraInv, RealStates
  <2> QED
    BY <2>1, <2>3 DEF CameraInv, SimReady, RealStates
<1>11. CASE UNCHANGED vars
  BY <1>1, <1>11 DEF vars, cameraVars, configVars
<1> QED
  BY <1>2, <1>3, <1>4, <1>5, <1>6, <1>7, <1>8, <1>9, <1>10, <1>11 DEF Next, Finished

PullsTyped == chunk \in Seq(Frame)

\* What a pull delivers is a sequence of frames.
LEMMA PullStep ==
  ASSUME HashesAreNumbers, CaptureInv, CameraInv, PullsTyped, [Next]_vars
  PROVE  PullsTyped'
<1>1. CASE PullSim
  <2>1. chunk' = Delivered(NextSpan) /\ cfg.fps > 0
    BY <1>1 DEF PullSim, Pulled, Usable
  <2> QED
    BY <2>1, DeliveredFrames, SpanFitsPlan DEF CameraInv, PullsTyped
<1>2. CASE PullRealFrames
  <2>1. chunk' = RealFrames(NextSpan)
    BY <1>2 DEF PullRealFrames, Pulled
  <2> QED
    BY <2>1, CameraReady, RealFramesOnce, SpanFitsPlan DEF PullsTyped
<1>3. CASE AppendFrame
  BY <1>3, HeadTailProperties DEF AppendFrame, PullsTyped
<1>4. ASSUME chunk' = chunk PROVE PullsTyped'
  BY <1>4 DEF PullsTyped
<1>5. ASSUME NEW t \in Clock, BeginSim(t) \/ OpenCamera(t) PROVE PullsTyped'
  BY <1>4, <1>5 DEF BeginSim, OpenCamera, Recounted
<1>6. CASE BeginReal \/ Discovered \/ NothingDiscovered \/ KeyMapFails \/ KeyMapLoads
           \/ ApplyParam \/ ParamUnsupported \/ ReportRefusal \/ ReportApplied \/ ReportFails
           \/ PullFails \/ CompleteChunk \/ Pause \/ Measure \/ UNCHANGED vars
  BY <1>4, <1>6
  DEF BeginReal, Discovered, NothingDiscovered, KeyMapFails, KeyMapLoads, ApplyParam,
      ParamUnsupported, ReportRefusal, ReportApplied, ReportFails, PullFails, CompleteChunk, Pause,
      Measure, captureVars, vars
<1> QED
  BY <1>1, <1>2, <1>3, <1>5, <1>6 DEF Next, Finished

-----------------------------------------------------------------------------
(***************************************************************************)
(* The order of the evidence                                               *)
(***************************************************************************)

InOrder(fs) == \A i, j \in DOMAIN fs : i < j => fs[i].ts < fs[j].ts

\* The newest stamp is at least that of the last frame.
NewestKnown == latest # <<>> /\ frames[Len(frames)].ts <= latest[1]

TimeInv ==
  /\ frames \in Seq(Frame) /\ offset \in Nat
  /\ latest = <<>> \/ \E ts \in Int : latest = <<ts>>
  /\ plan.soak => InOrder(frames)
  /\ pc = "new" => frames = <<>>
  /\ pc \in {"discover", "configure", "apply", "open"} /\ frames # <<>> => plan.soak
  /\ plan.soak /\ pc \in {"stream", "append"} /\ frames # <<>> => NewestKnown

\* Frames are stamped with numbers.
LEMMA FrameTimes ==
  ASSUME NEW fs \in Seq(Frame)
  PROVE  /\ DOMAIN fs = 1 .. Len(fs) /\ Len(fs) \in Nat
         /\ \A i \in DOMAIN fs : fs[i].ts \in Int
<1>1. \A i \in DOMAIN fs : fs[i] \in Frame
  BY ElementOfSeq, LenProperties
<1> QED
  BY <1>1, LenProperties DEF Frame

\* Of frames in order, the last is the newest.
LEMMA LastIsNewest ==
  ASSUME NEW fs \in Seq(Frame), fs # <<>>, InOrder(fs)
  PROVE  Newest(fs) = <<fs[Len(fs)].ts>>
<1> DEFINE stamps == [i \in DOMAIN fs |-> fs[i].ts]
           last   == fs[Len(fs)].ts
<1>1. /\ DOMAIN fs = 1 .. Len(fs) /\ Len(fs) \in Nat \ {0}
      /\ \A i \in DOMAIN fs : fs[i].ts \in Int
  BY FrameTimes, EmptySeq
<1>2. \A i \in DOMAIN fs : fs[i].ts <= last
  <2> SUFFICES ASSUME NEW i \in DOMAIN fs PROVE fs[i].ts <= last
    OBVIOUS
  <2>1. CASE i = Len(fs)
    BY <1>1, <2>1
  <2>2. CASE i # Len(fs)
    BY <1>1, <2>2 DEF InOrder
  <2> QED
    BY <2>1, <2>2
<1>3. last \in {stamps[i] : i \in DOMAIN stamps} /\ \A i \in DOMAIN stamps : stamps[i] <= last
  BY <1>1, <1>2
<1>4. \A x \in {stamps[i] : i \in DOMAIN stamps} :
        (\A i \in DOMAIN stamps : stamps[i] <= x) => x = last
  BY <1>1, <1>2
<1>5. Largest(stamps) = last
  BY <1>3, <1>4 DEF Largest
<1> QED
  BY <1>5 DEF Newest

\* A process that begins to stream has read its frames.
LEMMA RecountingKeepsTime ==
  ASSUME TimeInv, Recounted, plan' = plan, pc' = "stream",
         frames # <<>> => plan.soak
  PROVE  TimeInv'
<1> DEFINE fs == Reloaded(frames)
<1>1. frames' = fs /\ offset' = offset /\ latest' = Newest(fs)
  BY DEF Recounted
<1>2. fs \in Seq(Frame) /\ (fs # <<>> => frames # <<>>)
  BY ReloadedKeeps, EmptySeq DEF TimeInv
<1>3. plan.soak => InOrder(fs)
  BY ReloadedKeeps DEF TimeInv, InOrder
<1> HIDE DEF fs
<1>4. CASE fs = <<>>
  BY <1>1, <1>2, <1>3, <1>4 DEF TimeInv, Newest
<1>5. CASE fs # <<>>
  <2>1. latest' = <<fs[Len(fs)].ts>>
    BY <1>1, <1>2, <1>3, <1>5, LastIsNewest
  <2>2. Len(fs) \in 1 .. Len(fs)
    BY <1>2, <1>5, EmptySeq
  <2>3. fs[Len(fs)].ts \in Int
    BY <1>2, <2>2, FrameTimes
  <2>4. NewestKnown'
    BY <1>1, <2>1, <2>3 DEF NewestKnown
  <2> QED
    BY <1>1, <1>2, <1>3, <2>1, <2>3, <2>4 DEF TimeInv
<1> QED
  BY <1>4, <1>5

\* A frame appended to a soak run is after every frame before it.
LEMMA AppendingKeepsTime ==
  ASSUME TimeInv, PullsTyped, AppendFrame
  PROVE  TimeInv'
<1> DEFINE h == Head(chunk)
           f == Normalised(h)
<1>1. h \in Frame
  BY DEF AppendFrame, PullsTyped
<1>2. /\ f \in Frame
      /\ plan.soak /\ latest # <<>> => latest[1] < f.ts
  <2>1. offset \in Nat /\ (latest # <<>> => latest[1] \in Int)
    BY DEF TimeInv
  <2>2. h.id + offset \in Nat /\ h.ts \in Int
    BY <1>1, <2>1 DEF Frame
  <2>3. CASE plan.soak /\ latest # <<>> /\ h.ts <= latest[1]
    <3>1. /\ f.id = h.id + offset /\ f.ts = latest[1] + 1
          /\ f \in Frame
      <4>1. latest[1] + 1 \in Int
        BY <2>1, <2>3
      <4>2. f = [h EXCEPT !.id = h.id + offset, !.ts = latest[1] + 1]
        BY <2>3 DEF Normalised
      <4> QED
        BY <1>1, <2>2, <4>1, <4>2 DEF Frame
    <3> QED
      BY <2>1, <2>3, <3>1
  <2>4. CASE ~(plan.soak /\ latest # <<>> /\ h.ts <= latest[1])
    <3>1. f.id = h.id + offset /\ f.ts = h.ts /\ f \in Frame
      BY <1>1, <2>2, <2>4 DEF Normalised, Frame
    <3> QED
      BY <2>1, <2>2, <2>4, <3>1
  <2> QED
    BY <2>3, <2>4
<1>3. /\ frames' = Append(frames, f)
      /\ latest' = <<IF latest = <<>> THEN f.ts ELSE Larger(latest[1], f.ts)>>
      /\ pc = "append" /\ pc' = pc /\ plan' = plan /\ offset' = offset
  BY DEF AppendFrame
<1> HIDE DEF h, f
<1>4. f.ts \in Int
  BY <1>2 DEF Frame
<1>5. /\ frames' \in Seq(Frame) /\ Len(frames') = Len(frames) + 1
      /\ frames'[Len(frames')] = f
      /\ \A i \in 1 .. Len(frames) : frames'[i] = frames[i]
      /\ Len(frames) \in Nat /\ DOMAIN frames = 1 .. Len(frames)
      /\ DOMAIN frames' = 1 .. Len(frames) + 1
  BY <1>2, <1>3 DEF TimeInv
<1>6. /\ \E ts \in Int : latest' = <<ts>>
      /\ f.ts <= latest'[1]
  <2>1. CASE latest = <<>>
    BY <1>3, <1>4, <2>1
  <2>2. CASE latest # <<>>
    <3>1. latest[1] \in Int
      BY <2>2 DEF TimeInv
    <3>2. Larger(latest[1], f.ts) \in Int /\ f.ts <= Larger(latest[1], f.ts)
      BY <1>4, <3>1 DEF Larger
    <3>3. latest' = <<Larger(latest[1], f.ts)>>
      BY <1>3, <2>2
    <3> QED
      BY <3>2, <3>3
  <2> QED
    BY <2>1, <2>2
<1>7. NewestKnown'
  BY <1>5, <1>6 DEF NewestKnown
<1>8. ASSUME plan.soak, NEW i \in DOMAIN frames', NEW j \in DOMAIN frames', i < j
      PROVE  frames'[i].ts < frames'[j].ts
  <2>1. InOrder(frames) /\ \A k \in DOMAIN frames : frames[k].ts \in Int
    BY <1>8, FrameTimes DEF TimeInv
  <2>2. CASE j # Len(frames) + 1
    BY <1>5, <1>8, <2>1, <2>2 DEF InOrder
  <2>3. CASE j = Len(frames) + 1
    <3>1. i \in 1 .. Len(frames) /\ frames # <<>> /\ Len(frames) \in 1 .. Len(frames)
      BY <1>5, <1>8, <2>3
    <3>2. latest # <<>> /\ frames[Len(frames)].ts <= latest[1] /\ latest[1] \in Int
      BY <1>3, <1>8, <3>1 DEF TimeInv, NewestKnown
    <3>3. frames[i].ts <= frames[Len(frames)].ts
      <4>1. CASE i = Len(frames)
        BY <1>5, <2>1, <3>1, <4>1
      <4>2. CASE i # Len(frames)
        BY <1>5, <2>1, <3>1, <4>2 DEF InOrder
      <4> QED
        BY <4>1, <4>2
    <3>4. latest[1] < f.ts
      BY <1>2, <1>8, <3>2
    <3> QED
      BY <1>4, <1>5, <2>1, <2>3, <3>1, <3>2, <3>3, <3>4
  <2> QED
    BY <2>2, <2>3
<1> QED
  BY <1>3, <1>5, <1>6, <1>7, <1>8 DEF TimeInv, InOrder

\* Every step keeps the order.
LEMMA TimeStep ==
  ASSUME TimeInv, PullsTyped, [Next]_vars
  PROVE  TimeInv'
<1>1. CASE AppendFrame
  BY <1>1, AppendingKeepsTime
<1>2. ASSUME NEW t \in Clock, BeginSim(t) PROVE TimeInv'
  <2>1. frames # <<>> => plan.soak
    BY <1>2 DEF BeginSim, CanBegin, TimeInv
  <2> QED
    BY <1>2, <2>1, RecountingKeepsTime DEF BeginSim
<1>3. ASSUME NEW t \in Clock, OpenCamera(t) PROVE TimeInv'
  <2>1. frames # <<>> => plan.soak
    BY <1>3 DEF OpenCamera, TimeInv
  <2> QED
    BY <1>3, <2>1, RecountingKeepsTime DEF OpenCamera
<1>4. ASSUME captureVars' = captureVars, plan' = plan, pc' # "new", pc' # "append",
             pc' # "stream",
             pc' \in {"discover", "configure", "apply", "open"} /\ frames # <<>> => plan.soak
      PROVE  TimeInv'
  BY <1>4 DEF captureVars, TimeInv, InOrder, NewestKnown
<1>5. CASE BeginReal
  <2>1. frames # <<>> => plan.soak
    BY <1>5 DEF BeginReal, CanBegin, TimeInv
  <2> QED
    BY <1>4, <1>5, <2>1 DEF BeginReal
<1>6. CASE Discovered \/ NothingDiscovered \/ KeyMapLoads \/ ApplyParam \/ ParamUnsupported
           \/ ReportApplied
  BY <1>4, <1>6
  DEF Discovered, NothingDiscovered, KeyMapLoads, ApplyParam, ParamUnsupported, ReportApplied,
      TimeInv
<1>7. CASE KeyMapFails \/ ReportRefusal \/ ReportFails \/ PullFails \/ Pause \/ Measure
  BY <1>4, <1>7
  DEF KeyMapFails, ReportRefusal, ReportFails, PullFails, Pause, Measure, Ends
<1>8. CASE PullSim \/ PullRealFrames
  <2>1. /\ pc = "stream" /\ pc' = "append" /\ plan' = plan
        /\ frames' = frames /\ latest' = latest /\ offset' = IdOffset
    BY <1>8 DEF PullSim, PullRealFrames, Pulled
  <2>2. IdOffset \in Nat
    <3>1. CASE frames = <<>>
      BY <3>1 DEF IdOffset
    <3>2. CASE frames # <<>>
      <4>1. Len(frames) \in 1 .. Len(frames) /\ frames[Len(frames)] \in Frame
        BY <3>2, EmptySeq, ElementOfSeq DEF TimeInv
      <4> QED
        BY <4>1 DEF IdOffset, Frame
    <3> QED
      BY <3>1, <3>2
  <2> QED
    BY <2>1, <2>2 DEF TimeInv, InOrder, NewestKnown
<1>9. CASE CompleteChunk
  BY <1>9 DEF CompleteChunk, TimeInv, InOrder, NewestKnown
<1>10. CASE UNCHANGED vars
  BY <1>10 DEF vars, captureVars, TimeInv, InOrder, NewestKnown
<1> QED
  BY <1>1, <1>2, <1>3, <1>5, <1>6, <1>7, <1>8, <1>9, <1>10 DEF Next, Finished

EvidenceInv == RequestInv /\ CaptureInv /\ CameraInv /\ PullsTyped /\ TimeInv

\* Together they hold throughout a run.
LEMMA EvidenceIsKnown ==
  ASSUME HashesAreNumbers
  PROVE  Spec => []EvidenceInv
<1>1. Init => EvidenceInv
  <2> SUFFICES ASSUME Init PROVE EvidenceInv
    OBVIOUS
  <2>1. RequestInv /\ CaptureInv
    BY PlanAssumption DEF Init, NoneLogged, RequestInv, CaptureInv
  <2>2. CameraInv
    BY CamerasOff DEF Init, CameraInv, SimReady
  <2>3. PullsTyped /\ TimeInv
    BY DEF Init, PullsTyped, TimeInv, InOrder, NewestKnown
  <2> QED
    BY <2>1, <2>2, <2>3 DEF EvidenceInv
<1>2. EvidenceInv /\ [Next]_vars => EvidenceInv'
  <2> SUFFICES ASSUME EvidenceInv, [Next]_vars PROVE EvidenceInv'
    OBVIOUS
  <2>1. RequestInv /\ CaptureInv /\ CameraInv /\ PullsTyped /\ TimeInv
    BY DEF EvidenceInv
  <2>2. RequestInv' /\ CameraInv' /\ PullsTyped' /\ TimeInv'
    BY <2>1, RequestStep, CameraStep, PullStep, TimeStep
  <2>3. CaptureInv'
    BY <2>1, CaptureStep DEF TimeInv
  <2> QED
    BY <2>2, <2>3 DEF EvidenceInv
<1> QED
  BY <1>1, <1>2, PTL DEF Spec

\* The evidence of a soak run is in time order whatever the backend delivers, and
\* whatever the clock does between two processes (router.cpp, append_frame_event).
THEOREM SoakEvidenceInTimeOrder ==
  ASSUME HashesAreNumbers
  PROVE  Spec => []EvidenceInTimeOrder
<1>1. EvidenceInv => EvidenceInTimeOrder
  BY DEF EvidenceInv, TimeInv, InOrder, EvidenceInTimeOrder
<1> QED
  BY <1>1, EvidenceIsKnown, PTL

-----------------------------------------------------------------------------
(*****************************************************************************)
(* Types                                                                     *)
(*****************************************************************************)

\* Every reachable state of a run is well typed on either camera, for every plan, clock and
\* hash, and no chunk in hand passes the duration of the run.
THEOREM EvidenceTypeCorrect ==
  ASSUME HashesAreNumbers
  PROVE  Spec => []TypeOK
<1>1. EvidenceInv /\ HolderInv => TypeOK
  <2> SUFFICES ASSUME CaptureInv, TimeInv, HolderInv, PullsTyped PROVE TypeOK
    BY DEF EvidenceInv
  <2>1. latest \in Seq(Int) /\ Len(latest) <= 1
    <3>1. CASE latest = <<>>
      BY <3>1
    <3>2. CASE latest # <<>>
      <4>1. PICK ts \in Int : latest = <<ts>>
        BY <3>2 DEF TimeInv
      <4> QED
        BY <4>1
    <3> QED
      BY <3>1, <3>2
  <2>2. pc = "append" => completed + span <= plan.duration
    BY SpanFitsPlan DEF CaptureInv
  <2> QED
    BY <2>1, <2>2 DEF CaptureInv, TimeInv, HolderInv, SdkInv, PullsTyped, TypeOK
<1> QED
  BY <1>1, EvidenceIsKnown, HoldersAreKnown, PTL
=============================================================================
