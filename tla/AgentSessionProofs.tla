------------------------ MODULE AgentSessionProofs -------------------------
(***************************************************************************)
(* Theorems about a triage session: the knobs, for every width of the      *)
(* program's integers; the variants that experiments are made with, for    *)
(* every base, every revision and every generation that fails; what the    *)
(* validator and the loader of a run make of any document; and the stops,  *)
(* packets and comparisons, for every sequence of results.                 *)
(***************************************************************************)
EXTENDS AgentSession, DataLemmas

LOCAL INSTANCE SequencesExt
LOCAL INSTANCE FiniteSetsExt

-----------------------------------------------------------------------------
(***************************************************************************)
(* Knobs                                                                   *)
(***************************************************************************)

IntegerPaths == {Delay, Fps, Reorder, DropPercent}

\* The larger and the smaller of two integers.
LEMMA MaxOfTwo ==
  ASSUME NEW a \in Int, NEW b \in Int
  PROVE  Max({a, b}) = IF a >= b THEN a ELSE b
<1>1. \E m \in {a, b} : \A y \in {a, b} : m >= y
  OBVIOUS
<1>2. Max({a, b}) \in {a, b} /\ \A y \in {a, b} : Max({a, b}) >= y
  BY <1>1 DEF Max
<1> QED
  BY <1>2

LEMMA MinOfTwo ==
  ASSUME NEW a \in Int, NEW b \in Int
  PROVE  Min({a, b}) = IF a <= b THEN a ELSE b
<1>1. \E m \in {a, b} : \A y \in {a, b} : m <= y
  OBVIOUS
<1>2. Min({a, b}) \in {a, b} /\ \A y \in {a, b} : Min({a, b}) <= y
  BY <1>1 DEF Min
<1> QED
  BY <1>2

\* A percentage that is clamped.
LEMMA ClampedPercent ==
  ASSUME NEW n \in Int
  PROVE  Clamped(n) = IF n < 0 THEN 0 ELSE IF n > 100 THEN 100 ELSE n
<1>1. Min({n, 100}) = IF n <= 100 THEN n ELSE 100
  BY MinOfTwo
<1>2. Max({0, Min({n, 100})}) = IF 0 >= Min({n, 100}) THEN 0 ELSE Min({n, 100})
  BY <1>1, MaxOfTwo
<1> QED
  BY <1>1, <1>2 DEF Clamped

\* Whatever the base has, up to the last 5000 integers where a sum wraps, a knob gives a
\* rate of at least one frame and percentages that are ones; and what was in range moves,
\* unless it is at its end: a rate of one frame, a reordering of all.
THEOREM KnobsStayInRange ==
  ASSUME NEW n \in -MaxI64 - 1 .. MaxI64 - 5000
  PROVE  /\ Candidate(Delay, n) = n + 5000
         /\ Candidate(Fps, n) >= 1
         /\ Candidate(Reorder, n) \in 0 .. 100
         /\ Candidate(DropPercent, n) \in 0 .. 100
         /\ n > 1 => Candidate(Fps, n) = n - 1
         /\ n = 1 => Candidate(Fps, n) = 1
         /\ n \in 0 .. 99 => Candidate(Reorder, n) > n
         /\ n \in 0 .. 100 => Candidate(DropPercent, n) # n
<1>0. MaxI64 \in Nat /\ n \in Int /\ n <= MaxI64 - 5000
  BY ScenarioAssumption
<1>1. Delay # Fps /\ Delay # Reorder /\ Delay # DropPercent /\ Fps # Reorder
        /\ Fps # DropPercent /\ Reorder # DropPercent
  BY DEF Delay, Fps, Reorder, DropPercent
<1>2. Wrapped(n + 5000) \in Int /\ Wrapped(n + 5) \in Int /\ Wrapped(n + 10) \in Int
        /\ Wrapped(n - 1) \in Int
  BY <1>0 DEF Wrapped
<1>3. Candidate(Delay, n) = n + 5000
  <2>1. Wrapped(n + 5000) = n + 5000
    BY <1>0 DEF Wrapped
  <2> QED
    BY <1>1, <2>1 DEF Candidate
<1>4. /\ Candidate(Fps, n) >= 1
      /\ n > 1 => Candidate(Fps, n) = n - 1
      /\ n = 1 => Candidate(Fps, n) = 1
  <2>1. Candidate(Fps, n) = Max({1, Wrapped(n - 1)})
    BY <1>1 DEF Candidate
  <2>2. n >= 1 => Wrapped(n - 1) = n - 1
    BY <1>0 DEF Wrapped
  <2>3. Max({1, Wrapped(n - 1)}) = IF 1 >= Wrapped(n - 1) THEN 1 ELSE Wrapped(n - 1)
    BY <1>2, MaxOfTwo
  <2> QED
    BY <1>0, <1>2, <2>1, <2>2, <2>3
<1>5. Candidate(Reorder, n) \in 0 .. 100 /\ (n \in 0 .. 99 => Candidate(Reorder, n) > n)
  <2>1. Candidate(Reorder, n) = Clamped(Wrapped(n + 5))
    BY <1>1 DEF Candidate
  <2>2. n \in 0 .. 99 => Wrapped(n + 5) = n + 5
    BY <1>0 DEF Wrapped
  <2> QED
    BY <1>0, <1>2, <2>1, <2>2, ClampedPercent
<1>6. /\ Candidate(DropPercent, n) \in 0 .. 100
      /\ n \in 0 .. 100 => Candidate(DropPercent, n) # n
  <2>1. Candidate(DropPercent, n) = IF n >= 100 THEN 90 ELSE Clamped(Wrapped(n + 10))
    BY <1>1 DEF Candidate
  <2>2. n \in 0 .. 99 => Wrapped(n + 10) = n + 10
    BY <1>0 DEF Wrapped
  <2> QED
    BY <1>0, <1>2, <2>1, <2>2, ClampedPercent
<1> QED
  BY <1>3, <1>4, <1>5, <1>6

-----------------------------------------------------------------------------
(***************************************************************************)
(* Variants                                                                *)
(***************************************************************************)

\* A sequence with one more element.
LEMMA OneMore ==
  ASSUME NEW S, NEW s \in Seq(S), NEW x \in S
  PROVE  /\ Append(s, x) \in Seq(S)
         /\ Len(Append(s, x)) = Len(s) + 1
         /\ \A i \in 1 .. Len(s) : Append(s, x)[i] = s[i]
         /\ Append(s, x)[Len(s) + 1] = x
  OBVIOUS

\* The playbook names each knob once.
LEMMA PlaybookKnobs ==
  /\ Len(Playbook) = 5 /\ DOMAIN Playbook = 1 .. 5
  /\ Knobs = {Playbook[i] : i \in 1 .. 5}
  /\ \A i, j \in 1 .. 5 : Playbook[i] = Playbook[j] => i = j
<1>1. Len(Playbook) = 5 /\ DOMAIN Playbook = 1 .. 5
  BY DEF Playbook
<1>2. \A i, j \in 1 .. 5 : Playbook[i] = Playbook[j] => i = j
  BY DEF Playbook
<1>3. Knobs = {Playbook[i] : i \in 1 .. 5}
  BY <1>1 DEF Knobs, ToSet
<1> QED
  BY <1>1, <1>2, <1>3

Told == {Entry(d, k) : d \in Bases, k \in Knobs}

Attempt == [sequence : Nat, run : Nat, knob : Knobs, result : Results]

\* Where experiments are made: from the end of a generation to the next.
Experimenting ==
  {"generated", "baseline", "ran", "compared", "recorded", "decided", "done", "aborted"}

\* The first variants of the playbook are those of the present base, in their files.
Generated(entries) ==
  \A i \in 1 .. Len(entries) :
    /\ entries[i] = Entry(base, Playbook[i])
    /\ files[Playbook[i]] = Serialized(Variant(base, Playbook[i]))

VariantInv ==
  /\ at \in Places
  /\ base \in Bases
  /\ DOMAIN files = Knobs
  /\ result \in Seq(Told) /\ Len(result) <= 5
  /\ manifest \in Seq(Told) /\ Len(manifest) \in {0, 5}
  /\ \A i \in 1 .. Len(result) : result[i].knob = Playbook[i]
  /\ \A i \in 1 .. Len(manifest) : manifest[i].knob = Playbook[i]
  /\ at = "writing" => Generated(result)
  /\ at \in Experimenting => manifest = result /\ Len(result) = 5 /\ Generated(result)

\* A generation starts, goes on, ends or fails.
LEMMA GenerationStep ==
  ASSUME VariantInv, StartGenerate \/ RefuseGenerate \/ WriteVariant \/ WriteManifest
                       \/ WriteFails \/ EditBase
  PROVE  VariantInv'
<1> USE DEF VariantInv
<1>1. CASE StartGenerate \/ RefuseGenerate
  <2>1. /\ UNCHANGED <<base, files, manifest>>
        /\ result' = <<>> /\ at' \in {"writing", "refused"}
    BY <1>1 DEF StartGenerate, RefuseGenerate
  <2>2. result' \in Seq(Told) /\ Len(result') = 0
    BY <2>1
  <2>3. Generated(result)'
    BY <2>2 DEF Generated
  <2> QED
    BY <2>1, <2>2, <2>3 DEF Places, Experimenting
<1>2. CASE WriteVariant
  <2> DEFINE n == Len(result)
             knob == Playbook[n + 1]
  <2>0. n \in Nat /\ n + 1 \in 1 .. 5 /\ knob \in Knobs
    BY <1>2, PlaybookKnobs DEF WriteVariant
  <2>1. Entry(base, knob) \in Told /\ Entry(base, knob).knob = knob
    BY <2>0 DEF Told, Entry
  <2>2. /\ result' \in Seq(Told) /\ Len(result') = n + 1
        /\ \A i \in 1 .. n : result'[i] = result[i]
        /\ result'[n + 1] = Entry(base, knob)
    BY <1>2, <2>1, OneMore DEF WriteVariant
  <2>3. /\ DOMAIN files' = Knobs
        /\ files'[knob] = Serialized(Variant(base, knob))
        /\ \A k \in Knobs \ {knob} : files'[k] = files[k]
    BY <1>2, <2>0 DEF WriteVariant
  <2>4. base' = base /\ at = "writing" /\ at' = "writing" /\ manifest' = manifest
    BY <1>2 DEF WriteVariant
  <2>5. Generated(result)'
    <3> SUFFICES ASSUME NEW i \in 1 .. n + 1
                 PROVE  /\ result'[i] = Entry(base, Playbook[i])
                        /\ files'[Playbook[i]] = Serialized(Variant(base, Playbook[i]))
      BY <2>2, <2>4 DEF Generated
    <3>1. CASE i = n + 1
      BY <2>2, <2>3, <3>1
    <3>2. CASE i \in 1 .. n
      <4>1. Playbook[i] \in Knobs /\ Playbook[i] # knob
        BY <2>0, <3>2, PlaybookKnobs
      <4> QED
        BY <2>2, <2>3, <2>4, <3>2, <4>1 DEF Generated
    <3> QED
      BY <2>0, <3>1, <3>2
  <2>6. \A i \in 1 .. Len(result') : result'[i].knob = Playbook[i]
    <3> SUFFICES ASSUME NEW i \in 1 .. n + 1 PROVE result'[i].knob = Playbook[i]
      BY <2>2
    <3>1. CASE i = n + 1
      BY <2>1, <2>2, <3>1
    <3>2. CASE i \in 1 .. n
      BY <2>2, <3>2
    <3> QED
      BY <2>0, <3>1, <3>2
  <2> QED
    BY <2>0, <2>2, <2>3, <2>4, <2>5, <2>6 DEF Experimenting
<1>3. CASE WriteManifest
  <2>1. /\ UNCHANGED <<base, files, result>> /\ manifest' = result
        /\ at = "writing" /\ at' = "generated" /\ Len(result) = 5
    BY <1>3, PlaybookKnobs DEF WriteManifest
  <2> QED
    BY <2>1 DEF Places, Experimenting, Generated
<1>4. CASE WriteFails
  BY <1>4 DEF WriteFails, Places, Experimenting
<1>5. CASE EditBase
  BY <1>5, SessionAssumption DEF EditBase, Places, Experimenting
<1> QED
  BY <1>1, <1>2, <1>3, <1>4, <1>5

\* Experiments leave base, files and manifest alone.
LEMMA ExperimentStep ==
  ASSUME VariantInv, RunBaseline \/ RunVariant \/ Compare \/ Record \/ Decide \/ WritePacket
  PROVE  VariantInv'
<1>1. UNCHANGED <<base, files, manifest, result>>
  BY DEF RunBaseline, RunVariant, Compare, Record, Decide, WritePacket
<1>2. at \in Experimenting /\ at' \in Experimenting
  BY DEF RunBaseline, RunVariant, Compare, Record, Decide, WritePacket, Experimenting
<1> QED
  BY <1>1, <1>2 DEF VariantInv, Generated, Experimenting, Places

\* The invariant of generation.
LEMMA VariantsFollow == Spec => []VariantInv
<1>1. Init => VariantInv
  BY PlaybookKnobs DEF Init, VariantInv, Places, Experimenting
<1>2. VariantInv /\ [Next]_vars => VariantInv'
  <2> SUFFICES ASSUME VariantInv, [Next]_vars PROVE VariantInv'
    OBVIOUS
  <2>1. CASE UNCHANGED vars
    BY <2>1 DEF vars, VariantInv, Generated
  <2> QED
    BY <2>1, GenerationStep, ExperimentStep DEF Next
<1> QED
  BY <1>1, <1>2, PTL DEF Spec

\* From a generation that succeeded to the next one, the manifest has the row of every
\* knob of the playbook for the base that the baselines run, and the file of the knob is
\* the variant of that base, whatever earlier generations left or failed to write.
ExperimentsUseThisBase ==
  at \in Experimenting =>
    \A i \in 1 .. 5 :
      /\ manifest[i] = Entry(base, Playbook[i])
      /\ files[Playbook[i]] = Serialized(Variant(base, Playbook[i]))

\* It is so for every base and every revision of it, and however generations and edits
\* alternate (OaatVariantGenerator::Generate writes into one directory).
THEOREM VariantsAreOfThisBase == Spec => []ExperimentsUseThisBase
<1>1. VariantInv => ExperimentsUseThisBase
  BY DEF VariantInv, Generated, ExperimentsUseThisBase
<1> QED
  BY <1>1, VariantsFollow, PTL

-----------------------------------------------------------------------------
(***************************************************************************)
(* Documents                                                               *)
(***************************************************************************)

\* The objects on the way to the numbers that knobs set
OnTheWay == {Camera, Network, Faults, Roi}

RoiFields == In(Roi, {"x", "y", "width", "height"})

\* The texts, selectors and the rest that a document has besides
TextPaths ==
  TextFields \cup {<<"description">>} \cup DOMAIN AllowedTexts
    \cup {<<"scenario_id">>, <<"netem_profile">>, <<"apply_mode">>,
          <<"webcam", "requested_pixel_format">>}

SelectorPaths ==
  {<<"backend">>, <<"device_selector">>, WebcamSelector}
    \cup In(WebcamSelector, {"index", "id", "name_contains"})

OaatPaths == {Oaat} \cup In(Oaat, {"enabled", "variables", "stop_on_first_failure"})

OtherPaths ==
  TextPaths \cup SelectorPaths \cup OaatPaths \cup ThresholdFields
    \cup {RequestedFps, <<"tags">>, <<"schema_version">>, <<"duration">>, DurationMs, Thresholds}

\* Documents that have the same at paths P
SameAt(d, e, P) == \A p \in P : (p \in DOMAIN d <=> p \in DOMAIN e) /\ (p \in DOMAIN d => d[p] = e[p])

\* The numbers of a document pass the validator.
NumbersPass(d) ==
  /\ \A p \in PositiveFields \cap DOMAIN d : IsPositive(d[p])
  /\ \A p \in NaturalFields \cap DOMAIN d : IsNatural(d[p])
  /\ \A p \in AmountFields \cap DOMAIN d : IsAmount(d[p])
  /\ \A p \in PercentFields \cap DOMAIN d : ~OverPercent(d[p])
  /\ RequestedFps \in DOMAIN d => IsAmount(d[RequestedFps]) /\ d[RequestedFps] # Num(0)

\* What it is to be valid.
LEMMA ValidMeans ==
  ASSUME NEW d
  PROVE  Valid(d) <=>
           /\ Required \subseteq DOMAIN d
           /\ \A p \in Sections \cap DOMAIN d : d[p] = Obj
           /\ NumbersPass(d)
           /\ TextIssues(d) = {} /\ SelectorIssues(d) = {} /\ OaatIssues(d) = {}
           /\ Roi \in DOMAIN d /\ d[Roi] = Obj => RoiFields \subseteq DOMAIN d
           /\ ThresholdFields \cap DOMAIN d # {}
           /\ <<"tags">> \in DOMAIN d =>
                IsList(d[<<"tags">>]) /\ "bad" \notin d[<<"tags">>].list
<1> DEFINE tags == {p \in {<<"tags">>} \cap DOMAIN d : ~IsList(d[p]) \/ "bad" \in d[p].list}
           sides == {p \in RoiFields \ DOMAIN d : Roi \in DOMAIN d /\ d[Roi] = Obj}
           none == {p \in {Thresholds} : ThresholdFields \cap DOMAIN d = {}}
           objects == Failing(d, Sections, IsObject)
<1>1. Issues(d) = (Required \ DOMAIN d) \cup objects \cup NumberIssues(d) \cup TextIssues(d)
                    \cup SelectorIssues(d) \cup OaatIssues(d) \cup sides \cup none \cup tags
  BY DEF Issues, RoiFields
<1>2. NumberIssues(d) = {} <=> NumbersPass(d)
  BY DEF NumberIssues, NumbersPass, Failing
<1>3. objects = {} <=> \A p \in Sections \cap DOMAIN d : d[p] = Obj
  BY DEF Failing, IsObject
<1>4. tags = {} <=> (<<"tags">> \in DOMAIN d =>
                       IsList(d[<<"tags">>]) /\ "bad" \notin d[<<"tags">>].list)
  OBVIOUS
<1>5. sides = {} <=> (Roi \in DOMAIN d /\ d[Roi] = Obj => RoiFields \subseteq DOMAIN d)
  OBVIOUS
<1>6. none = {} <=> ThresholdFields \cap DOMAIN d # {}
  OBVIOUS
<1>7. Required \ DOMAIN d = {} <=> Required \subseteq DOMAIN d
  OBVIOUS
<1> HIDE DEF tags, sides, none, objects
<1> QED
  BY <1>1, <1>2, <1>3, <1>4, <1>5, <1>6, <1>7 DEF Valid

Keys == IntegerKeys \cup NumberKeys \cup TextKeys

\* Keys of one kind are not of another.
LEMMA KeysApart ==
  /\ \A p \in IntegerKeys : Len(p) > 1
  /\ NumberKeys \cap IntegerKeys = {}
  /\ TextKeys \cap (IntegerKeys \cup NumberKeys) = {}
  /\ \A p \in Keys : Len(p) > 1 \/ \E k : p = <<k>>
<1> USE DEF IntegerKeys, NumberKeys, TextKeys, DurationMs, Fps, Delay, In, Faults, Webcam, Camera,
            ThresholdFields, AmountFields, Thresholds, RequestedFps
<1>1. \A p \in IntegerKeys : Len(p) > 1
  OBVIOUS
<1>2. NumberKeys \cap IntegerKeys = {}
  OBVIOUS
<1>3. TextKeys \cap (IntegerKeys \cup NumberKeys) = {}
  OBVIOUS
<1>4. \A p \in NumberKeys : Len(p) > 1
  OBVIOUS
<1>5. \A p \in TextKeys : Len(p) > 1 \/ \E k : p = <<k>>
  OBVIOUS
<1> QED
  BY <1>1, <1>2, <1>3, <1>4, <1>5 DEF Keys

\* Without the keys of old fixtures a value is found at its path or nowhere.
LEMMA FoundAtPath ==
  ASSUME NEW d, Legacy(d) = {}, NEW p \in Keys
  PROVE  Find(d, p) = IF p \in DOMAIN d THEN d[p] ELSE Unset
<1>1. CASE Len(p) > 1
  <2>1. <<Last(p)>> \notin DOMAIN d
    BY <1>1 DEF Legacy, Keys
  <2> QED
    BY <2>1 DEF Find
<1>2. CASE \E k : p = <<k>>
  <2>1. <<Last(p)>> = p
    BY <1>2 DEF Last
  <2> QED
    BY <2>1 DEF Find
<1> QED
  BY <1>1, <1>2, KeysApart

\* What the model of such a document has.
LEMMA ModelOf ==
  ASSUME NEW d, Legacy(d) = {}
  PROVE  /\ DOMAIN Model(d) = Keys
         /\ \A p \in Keys \ DOMAIN d : Model(d)[p] = Unset
         /\ \A p \in IntegerKeys \cap DOMAIN d : Model(d)[p] = AsNatural(d[p])
         /\ \A p \in NumberKeys \cap DOMAIN d : Model(d)[p] = AsNumber(d[p])
         /\ \A p \in TextKeys \cap DOMAIN d : Model(d)[p] = AsText(d[p])
         /\ \A p \in Keys : Model(d)[p] # Unset => p \in DOMAIN d /\ Model(d)[p] = d[p]
<1>0. ~IsNatural(Unset) /\ ~IsNumber(Unset) /\ ~IsString(Unset)
  BY DEF IsNatural, IsNumber, IsString, Unset
<1>1. DOMAIN Model(d) = Keys
  BY DEF Model, Keys
<1>2. \A p \in Keys : Model(d)[p] = CASE p \in IntegerKeys -> AsNatural(Find(d, p))
                                      [] p \in NumberKeys -> AsNumber(Find(d, p))
                                      [] OTHER -> AsText(Find(d, p))
  BY DEF Model, Keys
<1>3. \A p \in IntegerKeys : Model(d)[p] = AsNatural(Find(d, p))
  BY <1>2, KeysApart DEF Keys
<1>4. \A p \in NumberKeys : Model(d)[p] = AsNumber(Find(d, p))
  BY <1>2, KeysApart DEF Keys
<1>5. \A p \in TextKeys : Model(d)[p] = AsText(Find(d, p))
  BY <1>2, KeysApart DEF Keys
<1>6. \A p \in Keys : Find(d, p) = IF p \in DOMAIN d THEN d[p] ELSE Unset
  BY FoundAtPath
<1>7. \A p \in Keys \ DOMAIN d : Model(d)[p] = Unset
  BY <1>0, <1>3, <1>4, <1>5, <1>6 DEF Keys, AsNatural, AsNumber, AsText
<1>8. \A p \in Keys : Model(d)[p] # Unset => p \in DOMAIN d /\ Model(d)[p] = d[p]
  BY <1>3, <1>4, <1>5, <1>6, <1>7 DEF Keys, AsNatural, AsNumber, AsText
<1> QED
  BY <1>1, <1>3, <1>4, <1>5, <1>6, <1>7, <1>8 DEF Keys

\* The keys of a webcam's selector are in a selector.
InSelector(d) ==
  In(WebcamSelector, {"index", "id", "name_contains"}) \cap DOMAIN d # {} =>
    WebcamSelector \in DOMAIN d

\* What the two parsers make of a valid document.
LEMMA ValidIsAccepted ==
  ASSUME NEW d, Valid(d), Legacy(d) = {}, InSelector(d)
  PROVE  Refusals(d) \subseteq TooWide(Model(d))
<1> DEFINE m == Model(d)
           amounts == {p \in ThresholdFields : m[p] # Unset /\ ~IsAmount(m[p])}
           drop == <<"thresholds", "max_drop_rate_percent">>
           count == <<"thresholds", "max_disconnect_count">>
           backend == <<"backend">>
           mode == <<"apply_mode">>
           netem == <<"netem_profile">>
           device == <<"device_selector">>
           format == <<"webcam", "requested_pixel_format">>
<1>1. /\ Required \subseteq DOMAIN d
      /\ \A p \in Sections \cap DOMAIN d : d[p] = Obj
      /\ NumbersPass(d)
      /\ TextIssues(d) = {} /\ SelectorIssues(d) = {}
      /\ Roi \in DOMAIN d /\ d[Roi] = Obj => RoiFields \subseteq DOMAIN d
  BY ValidMeans
<1>2. \A p \in Keys : m[p] # Unset => p \in DOMAIN d /\ m[p] = d[p]
  BY ModelOf
<1>3. \A p \in Keys \ DOMAIN d : m[p] = Unset
  BY ModelOf
<1>4. /\ \A p \in IntegerKeys \cap DOMAIN d : m[p] = AsNatural(d[p])
      /\ \A p \in TextKeys \cap DOMAIN d : m[p] = AsText(d[p])
  BY ModelOf
<1> HIDE DEF m
<1>5. m[DurationMs] # Unset /\ m[DurationMs] # Num(0)
  <2>1. DurationMs \in DOMAIN d /\ DurationMs \in IntegerKeys /\ DurationMs \in PositiveFields
    BY <1>1 DEF Required, IntegerKeys, PositiveFields
  <2>2. IsPositive(d[DurationMs])
    BY <1>1, <2>1 DEF NumbersPass
  <2>3. m[DurationMs] = d[DurationMs]
    BY <1>4, <2>1, <2>2 DEF AsNatural, IsPositive
  <2> QED
    BY <2>2, <2>3 DEF IsPositive, IsNatural, IsNumber, Unset, Num
<1>6. /\ DropPercent \in PercentFields /\ DropPercent \in Keys
      /\ drop \in PercentFields /\ drop \in ThresholdFields
      /\ count \in NaturalFields /\ count \in ThresholdFields
      /\ ThresholdFields \subseteq NumberKeys /\ ThresholdFields \subseteq AmountFields \cup {count}
      /\ NumberKeys \subseteq Keys /\ TextKeys \subseteq Keys
      /\ RequestedFps \in NumberKeys
      /\ {backend, mode, netem, device, format} \subseteq TextKeys
  BY DEF PercentFields, Keys, IntegerKeys, NaturalFields, ThresholdFields, AmountFields, NumberKeys,
         TextKeys, In, Thresholds, DropPercent, Faults
<1>7. ASSUME NEW p \in ThresholdFields, m[p] # Unset PROVE IsAmount(m[p])
  <2>1. p \in DOMAIN d /\ m[p] = d[p]
    BY <1>2, <1>6, <1>7
  <2>2. CASE p \in AmountFields
    BY <1>1, <2>1, <2>2 DEF NumbersPass
  <2>3. CASE p = count
    <3>1. IsNatural(d[p])
      BY <1>1, <1>6, <2>1, <2>3 DEF NumbersPass
    <3> QED
      BY <2>1, <3>1, ScenarioAssumption DEF IsNatural, IsAmount
  <2> QED
    BY <1>6, <2>2, <2>3
<1>8. ASSUME NEW p \in {DropPercent, drop}, m[p] # Unset PROVE AtMost100(m[p])
  <2>1. p \in DOMAIN d /\ m[p] = d[p] /\ p \in PercentFields /\ p \in Keys
    BY <1>2, <1>6, <1>8
  <2>2. IsNumber(d[p])
    <3>1. CASE p = drop
      BY <1>6, <1>7, <1>8, <2>1, <3>1 DEF IsAmount
    <3>2. CASE p = DropPercent
      <4>1. p \in NaturalFields
        BY <3>2 DEF NaturalFields, In, Faults, DropPercent
      <4> QED
        BY <1>1, <2>1, <4>1 DEF NumbersPass, IsNatural
    <3> QED
      BY <3>1, <3>2
  <2> QED
    BY <1>1, <2>1, <2>2 DEF NumbersPass, OverPercent
<1>9. m[count] # Unset => IsNatural(m[count])
  <2>1. m[count] # Unset => count \in DOMAIN d /\ m[count] = d[count]
    BY <1>2, <1>6
  <2> QED
    BY <1>1, <1>6, <2>1 DEF NumbersPass
<1>10. m[RequestedFps] # Unset => IsAmount(m[RequestedFps]) /\ m[RequestedFps] # Num(0)
  <2>1. m[RequestedFps] # Unset => RequestedFps \in DOMAIN d /\ m[RequestedFps] = d[RequestedFps]
    BY <1>2, <1>6
  <2> QED
    BY <1>1, <2>1 DEF NumbersPass
<1>11. \A p \in {backend, mode, netem, device, format} :
         m[p] # Unset => p \in DOMAIN d /\ m[p] = d[p]
  BY <1>2, <1>6
<1>12. /\ backend \in DOMAIN d => IsText(d[backend]) /\ d[backend].str \in AllowedTexts[backend]
       /\ mode \in DOMAIN d => Trimmed(d[mode].str) \in {"strict", "best_effort", "best-effort"}
       /\ netem \in DOMAIN d => IsLowercaseSlug(d[netem].str)
       /\ format \in DOMAIN d => d[format].str \in FourCharacters
  <2>1. backend \in TextFields /\ backend \in DOMAIN AllowedTexts /\ netem \in TextFields
    BY DEF TextFields, AllowedTexts
  <2>2. backend \in DOMAIN d => IsText(d[backend]) /\ d[backend].str \in AllowedTexts[backend]
    BY <1>1, <2>1 DEF TextIssues, Failing
  <2>3. mode \in DOMAIN d => Trimmed(d[mode].str) \in {"strict", "best_effort", "best-effort"}
    BY <1>1 DEF TextIssues
  <2>4. netem \in DOMAIN d => IsText(d[netem])
    BY <1>1, <2>1 DEF TextIssues, Failing
  <2>5. netem \in DOMAIN d => IsLowercaseSlug(d[netem].str)
    BY <1>1, <2>4 DEF TextIssues, IsText
  <2>6. format \in DOMAIN d => d[format].str \in FourCharacters
    BY <1>1 DEF TextIssues
  <2> QED
    BY <2>2, <2>3, <2>5, <2>6
<1>13. RunsOn(m) = BackendNamed(d) /\ RunsOn(m) \in AllowedTexts[backend]
  <2>1. CASE backend \in DOMAIN d
    <3>1. IsString(d[backend]) /\ IsText(d[backend])
      BY <1>12, <2>1 DEF IsText
    <3>2. m[backend] = d[backend]
      BY <1>4, <1>6, <2>1, <3>1 DEF AsText
    <3>3. d[backend] # Unset
      BY <3>1 DEF IsString, Unset
    <3> QED
      BY <1>12, <2>1, <3>1, <3>2, <3>3 DEF RunsOn, BackendNamed
  <2>2. CASE backend \notin DOMAIN d
    <3>1. m[backend] = Unset
      BY <1>3, <1>6, <2>2
    <3>2. RunsOn(m) = "sim" /\ BackendNamed(d) = "sim"
      BY <2>2, <3>1 DEF RunsOn, BackendNamed
    <3>3. AllowedTexts[backend] = {"sim", "webcam", "real_stub"}
      BY DEF AllowedTexts, Last
    <3> QED
      BY <3>2, <3>3
  <2> QED
    BY <2>1, <2>2
<1>14. m[device] # Unset => ParseDeviceSelector(m[device]) /\ RunsOn(m) = "real_stub"
  <2>1. device \in DOMAIN d => ParseDeviceSelector(d[device]) /\ BackendNamed(d) = "real_stub"
    BY <1>1 DEF SelectorIssues
  <2> QED
    BY <1>11, <1>13, <2>1
<1>15. WebcamKeys(d) # {} => RunsOn(m) = "webcam"
  <2> SUFFICES ASSUME WebcamKeys(d) # {} PROVE RunsOn(m) = "webcam"
    OBVIOUS
  <2>1. WebcamSelector \in DOMAIN d /\ WebcamSelector \in Sections
    BY DEF WebcamKeys, InSelector, Sections
  <2>2. d[WebcamSelector] = Obj
    BY <1>1, <2>1
  <2>3. BackendNamed(d) = "webcam"
    BY <1>1, <2>1, <2>2 DEF SelectorIssues
  <2> QED
    BY <1>13, <2>3
<1>16. m[format] # Str("")
  <2>1. m[format] # Unset => m[format].str \in FourCharacters
    BY <1>11, <1>12
  <2>2. Str("") # Unset /\ Str("").str \notin FourCharacters
    BY DEF Str, Unset, FourCharacters
  <2> QED
    BY <2>1, <2>2
<1>17. RoiParses(d)
  <2>1. CASE Roi \in DOMAIN d
    <3>1. d[Roi] = Obj /\ RoiFields \subseteq DOMAIN d
      BY <1>1, <2>1 DEF Sections
    <3>2. \A p \in RoiFields : IsNatural(d[p])
      <4>1. RoiFields \subseteq PositiveFields \cup NaturalFields
        BY DEF RoiFields, PositiveFields, NaturalFields, In
      <4> QED
        BY <1>1, <3>1, <4>1 DEF NumbersPass, IsPositive
    <3> QED
      BY <2>1, <3>1, <3>2 DEF RoiParses, RoiPath, RoiFields
  <2>2. CASE Roi \notin DOMAIN d
    <3>1. <<"roi">> \notin DOMAIN d
      BY DEF Legacy
    <3> QED
      BY <2>2, <3>1 DEF RoiParses, RoiPath
  <2> QED
    BY <2>1, <2>2
<1>18. ASSUME NEW p \in Refusals(d) PROVE p \in TooWide(m)
  <2> SUFFICES ASSUME p \notin TooWide(m) PROVE FALSE
    OBVIOUS
  <2> QED
    BY <1>5, <1>7, <1>8, <1>9, <1>10, <1>11, <1>12, <1>13, <1>14, <1>15, <1>16, <1>17
       DEF Refusals, m
<1> QED
  BY <1>18 DEF m

\* Values that a run reads arrive in the plan.
LEMMA ValidIsPlanned ==
  ASSUME NEW d, Valid(d), Legacy(d) = {}, NEW p \in DOMAIN d
  PROVE  /\ p \in DOMAIN Planned(d) => \/ Planned(d)[p] = d[p]
                                       \/ p = DurationMs /\ d[p].num > MaxI64
         /\ p \in {Fps, Delay, Reorder, DropPercent} =>
              p \in DOMAIN Planned(d) /\ Planned(d)[p] = d[p]
<1> DEFINE m == Model(d)
           set == {q \in DOMAIN m : m[q] \notin {Unset, Str("")}}
           roi == IF RoiPath(d) \in DOMAIN d THEN In(Roi, {"x", "y", "width", "height"}) ELSE {}
           planned == Planned(d)
<1>1. /\ \A q \in Sections \cap DOMAIN d : d[q] = Obj
      /\ NumbersPass(d)
  BY ValidMeans
<1>2. /\ DOMAIN m = Keys
      /\ \A q \in Keys : m[q] # Unset => q \in DOMAIN d /\ m[q] = d[q]
      /\ \A q \in IntegerKeys \cap DOMAIN d : m[q] = AsNatural(d[q])
  BY ModelOf
<1>3. IntegerPaths \subseteq IntegerKeys /\ DurationMs \in IntegerKeys /\ IntegerKeys \subseteq Keys
  BY DEF IntegerPaths, IntegerKeys, Keys, In, Reorder, DropPercent, Faults
<1>4. IntegerPaths \subseteq PositiveFields \cup NaturalFields
  BY DEF IntegerPaths, PositiveFields, NaturalFields, In, Reorder, DropPercent, Faults
<1>5. ASSUME p \in IntegerPaths PROVE m[p] = d[p] /\ m[p] \notin {Unset, Str("")}
  <2>1. IsNatural(d[p])
    BY <1>1, <1>4, <1>5 DEF NumbersPass, IsPositive
  <2>2. m[p] = d[p]
    BY <1>2, <1>3, <1>5, <2>1 DEF AsNatural
  <2>3. ~IsNatural(Unset) /\ ~IsNatural(Str(""))
    BY DEF IsNatural, IsNumber, Unset, Str
  <2> QED
    BY <2>1, <2>2, <2>3
<1> HIDE DEF m
<1>6. /\ DOMAIN planned = set \cup roi \cup WebcamKeys(d) \cup {Fps, Reorder, DropPercent}
      /\ \A q \in DOMAIN planned :
           planned[q] = CASE q = Fps -> PlannedFps(m)
                          [] q = DurationMs -> AsSigned(m[q])
                          [] q \in set \ {Fps, DurationMs} -> m[q]
                          [] q \in roi -> d[Append(RoiPath(d), Last(q))]
                          [] q \in WebcamKeys(d) -> d[q]
                          [] OTHER -> SimDefault(q)
  BY DEF Planned, m
<1>7. /\ Fps # DurationMs /\ DurationMs \notin {Reorder, DropPercent} /\ Fps \notin {Reorder, DropPercent}
      /\ roi \cap Keys = {} /\ WebcamKeys(d) \cap Keys = {} /\ roi \cap WebcamKeys(d) = {}
      /\ set \subseteq Keys
  <2>1. Fps # DurationMs /\ DurationMs \notin {Reorder, DropPercent} /\ Fps \notin {Reorder, DropPercent}
    BY DEF Fps, DurationMs, Reorder, DropPercent
  <2>2. RoiFields \cap Keys = {}
    BY DEF RoiFields, Roi, In, Keys, IntegerKeys, NumberKeys, TextKeys, DurationMs, Fps, Delay, Faults,
           Webcam, Camera, ThresholdFields, AmountFields, Thresholds, RequestedFps
  <2>3. In(WebcamSelector, {"index", "id", "name_contains"}) \cap Keys = {}
    BY DEF WebcamSelector, In, Keys, IntegerKeys, NumberKeys, TextKeys, DurationMs, Fps, Delay, Faults,
           Webcam, Camera, ThresholdFields, AmountFields, Thresholds, RequestedFps
  <2>4. In(WebcamSelector, {"index", "id", "name_contains"}) \cap RoiFields = {}
    BY DEF WebcamSelector, In, RoiFields, Roi
  <2> QED
    BY <1>2, <2>1, <2>2, <2>3, <2>4 DEF RoiFields, WebcamKeys
<1> HIDE DEF planned, set, roi
<1>8. CASE p = Fps
  <2>1. planned[p] = PlannedFps(m) /\ p \in DOMAIN planned
    BY <1>3, <1>6, <1>7, <1>8 DEF IntegerPaths
  <2>2. m[Fps] # Unset /\ m[Fps] = d[Fps]
    BY <1>5, <1>8 DEF IntegerPaths
  <2> QED
    BY <1>8, <2>1, <2>2 DEF PlannedFps, planned
<1>9. CASE p = DurationMs
  <2>1. p \in DOMAIN planned => planned[p] = AsSigned(m[p])
    BY <1>3, <1>6, <1>7, <1>9
  <2>2. IsNatural(d[p])
    BY <1>1, <1>9 DEF NumbersPass, PositiveFields, IsPositive
  <2>3. m[p] = d[p]
    BY <1>2, <1>3, <1>9, <2>2 DEF AsNatural
  <2>4. p \notin {Fps, Delay, Reorder, DropPercent}
    BY <1>9 DEF Fps, Delay, DurationMs, Reorder, DropPercent
  <2> QED
    BY <1>9, <2>1, <2>3, <2>4 DEF AsSigned, planned
<1>10. CASE p \notin {Fps, DurationMs} /\ p \in set
  <2>1. p \in DOMAIN planned /\ planned[p] = m[p]
    BY <1>6, <1>7, <1>10
  <2>2. m[p] = d[p]
    BY <1>2, <1>10 DEF set
  <2> QED
    BY <1>10, <2>1, <2>2 DEF planned
<1>11. CASE p \notin {Fps, DurationMs} /\ p \notin set /\ p \in roi
  <2>1. planned[p] = d[Append(RoiPath(d), Last(p))]
    BY <1>6, <1>7, <1>11
  <2>2. RoiPath(d) = Roi
    <3>1. <<"roi">> \notin DOMAIN d
      BY DEF Legacy
    <3> QED
      BY <1>11, <3>1 DEF roi, RoiPath
  <2>3. Append(Roi, Last(p)) = p
    <3>1. PICK k \in {"x", "y", "width", "height"} : p = Append(Roi, k)
      BY <1>11 DEF roi, In
    <3>2. Last(p) = k
      BY <3>1 DEF Last, Roi
    <3> QED
      BY <3>1, <3>2
  <2>4. p \notin IntegerPaths
    BY <1>2, <1>3, <1>5, <1>11 DEF set
  <2> QED
    BY <2>1, <2>2, <2>3, <2>4 DEF IntegerPaths, planned
<1>12. CASE p \notin {Fps, DurationMs} /\ p \notin set /\ p \notin roi
  <2>1. p \notin IntegerPaths
    BY <1>2, <1>3, <1>5, <1>12 DEF set
  <2>2. p \in DOMAIN planned => p \in WebcamKeys(d)
    BY <1>6, <1>12, <2>1 DEF IntegerPaths
  <2>3. p \in DOMAIN planned => planned[p] = d[p]
    BY <1>6, <1>12, <2>2
  <2> QED
    BY <2>1, <2>3 DEF IntegerPaths, planned
<1> QED
  BY <1>8, <1>9, <1>10, <1>11, <1>12

\* A document, by what its paths and its numbers are
IsDocument(d) ==
  \A p \in DOMAIN d :
    /\ p \in Seq(STRING) /\ Len(p) >= 1
    /\ \A i \in 1 .. Len(p) - 1 : SubSeq(p, 1, i) \in DOMAIN d /\ d[SubSeq(p, 1, i)] = Obj
    /\ IsNumber(d[p]) => d[p] \in [num : Int, part : {"none", "half", "fine"}]

\* In a document a selector has its keys.
LEMMA SelectorsThere ==
  ASSUME NEW d, IsDocument(d)
  PROVE  InSelector(d)
<1> SUFFICES ASSUME NEW k \in {"index", "id", "name_contains"}, Append(WebcamSelector, k) \in DOMAIN d
             PROVE  WebcamSelector \in DOMAIN d
  BY DEF InSelector, In
<1> DEFINE p == Append(WebcamSelector, k)
<1>1. Len(p) = 3 /\ SubSeq(p, 1, 2) = WebcamSelector
  <2>1. Len(p) = 3 /\ p[1] = "webcam" /\ p[2] = "device_selector"
    BY DEF WebcamSelector
  <2> DEFINE two == [i \in 1 .. 2 |-> IF i = 1 THEN "webcam" ELSE "device_selector"]
  <2>2. SubSeq(p, 1, 2) = two
    BY <2>1
  <2>3. WebcamSelector = two
    BY DEF WebcamSelector
  <2> QED
    BY <2>1, <2>2, <2>3
<1>2. \A i \in 1 .. Len(p) - 1 : SubSeq(p, 1, i) \in DOMAIN d
  BY DEF IsDocument
<1> HIDE DEF p
<1>3. 2 \in 1 .. Len(p) - 1
  BY <1>1
<1> QED
  BY <1>1, <1>2, <1>3

\* What `labops validate` accepts is what `labops run` runs, for every document: the two
\* parsers, which are written twice (ValidateScenarioObject, validator.cpp, and
\* LoadRunPlanFromScenario, router.cpp), part only over integers beyond 32 bits and
\* durations beyond int64.
THEOREM ValidDocumentsRun == Spec => []ValidatedRuns
<1>1. VariantInv => ValidatedRuns
  <2> SUFFICES ASSUME VariantInv, Valid(base), Legacy(base) = {} PROVE ValidatedRuns
    BY DEF ValidatedRuns
  <2>1. IsDocument(base)
    BY DocumentAssumption DEF VariantInv, IsDocument
  <2>2. Refusals(base) \subseteq TooWide(Model(base))
    BY <2>1, SelectorsThere, ValidIsAccepted
  <2>3. \A p \in DOMAIN base \cap DOMAIN Planned(base) :
          \/ Planned(base)[p] = base[p]
          \/ p = DurationMs /\ base[p].num > MaxI64
    BY ValidIsPlanned
  <2> QED
    BY <2>2, <2>3 DEF ValidatedRuns
<1> QED
  BY <1>1, VariantsFollow, PTL

KnobPaths == IntegerPaths \cup RoiFields

\* Where knobs write, a document has nothing else.
LEMMA PathsApart ==
  /\ OtherPaths \cap (KnobPaths \cup OnTheWay) = {}
  /\ \A p \in OtherPaths : ~IsPrefix(Roi, p)
  /\ (PositiveFields \cup NaturalFields \cup PercentFields) \cap OnTheWay = {}
  /\ KnobPaths \cap OnTheWay = {}
  /\ Sections \cap KnobPaths = {}
  /\ AmountFields \cup ThresholdFields \cup {RequestedFps, <<"tags">>, Thresholds} \subseteq OtherPaths
  /\ Required \subseteq OtherPaths \cup {Camera}
<1> DEFINE triggers == {"trigger_mode", "trigger_source", "trigger_activation"}
           Written(p) == p[1] \in {"camera", "sim_faults"} /\ ~(Len(p) = 2 /\ p[2] \in triggers)
<1>1. \A p \in KnobPaths \cup OnTheWay : Written(p)
  BY DEF KnobPaths, IntegerPaths, RoiFields, OnTheWay, In, Delay, Fps, Reorder, DropPercent, Camera,
         Network, Faults, Roi
<1>2. \A p \in OtherPaths : ~Written(p)
  <2>1. \A p \in TextPaths : ~Written(p)
    BY DEF TextPaths, TextFields, In, WebcamSelector, AllowedTexts
  <2>2. \A p \in SelectorPaths \cup OaatPaths : ~Written(p)
    BY DEF SelectorPaths, OaatPaths, Oaat, In, WebcamSelector
  <2>3. \A p \in ThresholdFields : ~Written(p)
    BY DEF ThresholdFields, AmountFields, In, Thresholds
  <2>4. \A p \in {RequestedFps, <<"tags">>, <<"schema_version">>, <<"duration">>, DurationMs, Thresholds} :
          ~Written(p)
    BY DEF RequestedFps, DurationMs, Thresholds
  <2> HIDE DEF Written
  <2> QED
    BY <2>1, <2>2, <2>3, <2>4 DEF OtherPaths
<1>3. \A p : IsPrefix(Roi, p) => p[1] = "camera" /\ p[2] = "roi"
  <2> SUFFICES ASSUME NEW p, SubSeq(Roi, 1, 2) = SubSeq(p, 1, 2)
               PROVE  p[1] = "camera" /\ p[2] = "roi"
    BY DEF IsPrefix, Roi
  <2>1. SubSeq(Roi, 1, 2)[1] = SubSeq(p, 1, 2)[1] /\ SubSeq(Roi, 1, 2)[2] = SubSeq(p, 1, 2)[2]
    OBVIOUS
  <2>2. \A s : SubSeq(s, 1, 2)[1] = s[1] /\ SubSeq(s, 1, 2)[2] = s[2]
    OBVIOUS
  <2> QED
    BY <2>1, <2>2 DEF Roi
<1>4. OtherPaths \cap (KnobPaths \cup OnTheWay) = {}
  <2> HIDE DEF Written
  <2> QED
    BY <1>1, <1>2
<1>5. \A p \in OtherPaths : ~IsPrefix(Roi, p)
  BY <1>2, <1>3
<1>6. (PositiveFields \cup NaturalFields \cup PercentFields) \cap OnTheWay = {}
  BY DEF PositiveFields, NaturalFields, PercentFields, OnTheWay, In, DurationMs, Delay, Fps, Reorder,
         DropPercent, Camera, Network, Faults, Roi, Webcam
<1>7. KnobPaths \cap OnTheWay = {}
  BY DEF KnobPaths, IntegerPaths, RoiFields, OnTheWay, In, Delay, Fps, Reorder, DropPercent, Camera,
         Network, Faults, Roi
<1>8. Sections \cap KnobPaths = {}
  BY DEF KnobPaths, IntegerPaths, RoiFields, Sections, In, Delay, Fps, Reorder, DropPercent, Camera,
         Network, Faults, Roi, Thresholds, Webcam, WebcamSelector, Oaat
<1>9. AmountFields \cup ThresholdFields \cup {RequestedFps, <<"tags">>, Thresholds} \subseteq OtherPaths
  BY DEF OtherPaths, ThresholdFields
<1>10. Required \subseteq OtherPaths \cup {Camera}
  BY DEF Required, OtherPaths, TextPaths, TextFields
<1> QED
  BY <1>4, <1>5, <1>6, <1>7, <1>8, <1>9, <1>10

\* What the validator says of the rest of a document depends on the rest alone.
LEMMA RestAgrees ==
  ASSUME NEW d, NEW e, SameAt(d, e, OtherPaths)
  PROVE  /\ TextIssues(e) = TextIssues(d)
         /\ SelectorIssues(e) = SelectorIssues(d)
         /\ OaatIssues(e) = OaatIssues(d)
         /\ InSelector(d) => InSelector(e)
<1>1. SameAt(d, e, TextPaths) /\ SameAt(d, e, SelectorPaths) /\ SameAt(d, e, OaatPaths)
  BY DEF SameAt, OtherPaths
<1>2. TextIssues(e) = TextIssues(d)
  <2>1. Failing(e, TextFields, IsText) = Failing(d, TextFields, IsText)
    BY <1>1 DEF SameAt, TextPaths, Failing
  <2>2. Failing(e, {<<"description">>}, IsString) = Failing(d, {<<"description">>}, IsString)
    BY <1>1 DEF SameAt, TextPaths, Failing
  <2>3. {p \in DOMAIN AllowedTexts \cap DOMAIN e : ~IsString(e[p]) \/ e[p].str \notin AllowedTexts[p]}
          = {p \in DOMAIN AllowedTexts \cap DOMAIN d :
               ~IsString(d[p]) \/ d[p].str \notin AllowedTexts[p]}
    BY <1>1 DEF SameAt, TextPaths
  <2>4. \A p \in {<<"scenario_id">>, <<"netem_profile">>, <<"apply_mode">>,
                  <<"webcam", "requested_pixel_format">>} :
          (p \in DOMAIN d <=> p \in DOMAIN e) /\ (p \in DOMAIN d => d[p] = e[p])
    BY <1>1 DEF SameAt, TextPaths
  <2> DEFINE slugs(f) == {p \in {<<"scenario_id">>, <<"netem_profile">>} \cap DOMAIN f :
                            IsString(f[p]) /\ ~IsLowercaseSlug(f[p].str)}
             profiles(f) == {p \in {<<"netem_profile">>} \cap DOMAIN f :
                               IsString(f[p]) /\ f[p].str \notin Profiles}
             modes(f) == {p \in {<<"apply_mode">>} \cap DOMAIN f :
                            ~IsString(f[p])
                              \/ Trimmed(f[p].str) \notin {"strict", "best_effort", "best-effort"}}
             formats(f) == {p \in {<<"webcam", "requested_pixel_format">>} \cap DOMAIN f :
                              ~IsString(f[p]) \/ f[p].str \notin FourCharacters}
  <2>5. slugs(e) = slugs(d) /\ profiles(e) = profiles(d)
    BY <2>4
  <2>6. modes(e) = modes(d) /\ formats(e) = formats(d)
    BY <2>4
  <2> QED
    BY <2>1, <2>2, <2>3, <2>5, <2>6 DEF TextIssues
<1>3. BackendNamed(e) = BackendNamed(d)
  BY <1>1 DEF SameAt, SelectorPaths, BackendNamed
<1>4. SelectorIssues(e) = SelectorIssues(d)
  <2> DEFINE inside == In(WebcamSelector, {"index", "id", "name_contains"})
  <2>1. \A p \in {<<"device_selector">>, WebcamSelector} \cup inside :
          (p \in DOMAIN d <=> p \in DOMAIN e) /\ (p \in DOMAIN d => d[p] = e[p])
    BY <1>1 DEF SameAt, SelectorPaths
  <2>2. inside \cap DOMAIN e = {} <=> inside \cap DOMAIN d = {}
    BY <2>1
  <2> HIDE DEF inside
  <2> QED
    BY <1>3, <2>1, <2>2 DEF SelectorIssues, inside
<1>5. OaatIssues(e) = OaatIssues(d)
  <2>1. \A p \in {Oaat, Append(Oaat, "enabled"), Append(Oaat, "variables"),
                  Append(Oaat, "stop_on_first_failure")} :
          (p \in DOMAIN d <=> p \in DOMAIN e) /\ (p \in DOMAIN d => d[p] = e[p])
    BY <1>1 DEF SameAt, OaatPaths, In
  <2> QED
    BY <2>1 DEF OaatIssues, Failing
<1>6. InSelector(d) => InSelector(e)
  BY <1>1 DEF SameAt, SelectorPaths, InSelector
<1> QED
  BY <1>2, <1>4, <1>5, <1>6

\* Document e is d with numbers at M that the validator accepts, and the objects they are in.
Differs(d, e, M) ==
  /\ M \subseteq KnobPaths \cup OnTheWay
  /\ DOMAIN e = DOMAIN d \cup M
  /\ \A p \in DOMAIN d \ M : e[p] = d[p]
  /\ \A p \in M \cap OnTheWay : e[p] = Obj
  /\ \A p \in M \cap KnobPaths :
       /\ IsNatural(e[p]) /\ (p \in PositiveFields => IsPositive(e[p]))
       /\ p \in PercentFields => ~OverPercent(e[p])
  /\ Roi \in M => RoiFields \subseteq M

LEMMA ChangedIsValid ==
  ASSUME NEW d, Valid(d), NEW e, NEW M, Differs(d, e, M)
  PROVE  Valid(e)
<1>1. /\ Required \subseteq DOMAIN d
      /\ \A p \in Sections \cap DOMAIN d : d[p] = Obj
      /\ NumbersPass(d)
      /\ TextIssues(d) = {} /\ SelectorIssues(d) = {} /\ OaatIssues(d) = {}
      /\ Roi \in DOMAIN d /\ d[Roi] = Obj => RoiFields \subseteq DOMAIN d
      /\ ThresholdFields \cap DOMAIN d # {}
      /\ <<"tags">> \in DOMAIN d =>
           IsList(d[<<"tags">>]) /\ "bad" \notin d[<<"tags">>].list
  BY ValidMeans
<1>2. SameAt(d, e, OtherPaths)
  BY PathsApart DEF Differs, SameAt
<1>3. \A p \in Sections \cap DOMAIN e : e[p] = Obj
  BY <1>1, PathsApart DEF Differs
<1>4. NumbersPass(e)
  <2>1. \A p \in PositiveFields \cap DOMAIN e : IsPositive(e[p])
    BY <1>1, PathsApart DEF Differs, NumbersPass
  <2>2. \A p \in NaturalFields \cap DOMAIN e : IsNatural(e[p])
    BY <1>1, PathsApart DEF Differs, NumbersPass, IsPositive
  <2>3. \A p \in PercentFields \cap DOMAIN e : ~OverPercent(e[p])
    BY <1>1, PathsApart DEF Differs, NumbersPass
  <2>4. \A p \in AmountFields \cup {RequestedFps} :
          (p \in DOMAIN d <=> p \in DOMAIN e) /\ (p \in DOMAIN d => d[p] = e[p])
    BY <1>2, PathsApart DEF SameAt
  <2> QED
    BY <1>1, <2>1, <2>2, <2>3, <2>4 DEF NumbersPass
<1>5. Roi \in DOMAIN e => RoiFields \subseteq DOMAIN e
  <2>1. CASE Roi \in M
    BY <2>1 DEF Differs
  <2>2. CASE Roi \notin M
    BY <1>1, <2>2 DEF Differs, Sections
  <2> QED
    BY <2>1, <2>2
<1>6. ThresholdFields \cap DOMAIN e # {} /\ Required \subseteq DOMAIN e
  BY <1>1 DEF Differs
<1>7. <<"tags">> \in DOMAIN e => IsList(e[<<"tags">>]) /\ "bad" \notin e[<<"tags">>].list
  <2>1. <<"tags">> \in OtherPaths
    BY PathsApart
  <2> QED
    BY <1>1, <1>2, <2>1 DEF SameAt
<1>8. TextIssues(e) = {} /\ SelectorIssues(e) = {} /\ OaatIssues(e) = {}
  BY <1>1, <1>2, RestAgrees
<1> QED
  BY <1>3, <1>4, <1>5, <1>6, <1>7, <1>8, ValidMeans

\* A document without its region of interest is as valid as with it.
LEMMA WithoutRoiIsValid ==
  ASSUME NEW d, Valid(d), NEW e, DOMAIN e = {q \in DOMAIN d : ~IsPrefix(Roi, q)},
         \A q \in DOMAIN e : e[q] = d[q]
  PROVE  Valid(e)
<1>1. /\ Required \subseteq DOMAIN d
      /\ \A p \in Sections \cap DOMAIN d : d[p] = Obj
      /\ NumbersPass(d)
      /\ TextIssues(d) = {} /\ SelectorIssues(d) = {} /\ OaatIssues(d) = {}
      /\ ThresholdFields \cap DOMAIN d # {}
      /\ <<"tags">> \in DOMAIN d =>
           IsList(d[<<"tags">>]) /\ "bad" \notin d[<<"tags">>].list
  BY ValidMeans
<1>2. SameAt(d, e, OtherPaths)
  BY PathsApart DEF SameAt
<1>3. (\A p \in Sections \cap DOMAIN e : e[p] = Obj) /\ NumbersPass(e)
  BY <1>1 DEF NumbersPass
<1>4. ~IsPrefix(Roi, Camera) /\ IsPrefix(Roi, Roi)
  BY DEF IsPrefix, Roi, Camera
<1>5. Roi \notin DOMAIN e
  BY <1>4
<1>6. ThresholdFields \cap DOMAIN e # {} /\ Required \subseteq DOMAIN e
  BY <1>1, <1>2, <1>4, PathsApart DEF SameAt
<1>7. <<"tags">> \in DOMAIN e => IsList(e[<<"tags">>]) /\ "bad" \notin e[<<"tags">>].list
  BY <1>1
<1>8. TextIssues(e) = {} /\ SelectorIssues(e) = {} /\ OaatIssues(e) = {}
  BY <1>1, <1>2, RestAgrees
<1> QED
  BY <1>3, <1>5, <1>6, <1>7, <1>8, ValidMeans

\* A valid document whose numbers that are read as 32 bits are those of one that loads, or
\* fit in them, loads.
LEMMA NarrowLoads ==
  ASSUME NEW d, Loads(d), Legacy(d) = {},
         NEW e, Valid(e), Legacy(e) = {}, InSelector(e),
         \A p \in U32Keys \cap DOMAIN e :
           (p \in DOMAIN d /\ e[p] = d[p]) \/ e[p].num <= MaxU32
  PROVE  Loads(e)
<1>1. U32Keys \subseteq IntegerKeys
  BY DEF U32Keys, IntegerKeys, In
<1>2. TooWide(Model(d)) = {}
  BY DEF Loads, Refusals
<1>3. ASSUME NEW p \in U32Keys, Model(e)[p] # Unset, Model(e)[p].num > MaxU32 PROVE FALSE
  <2>1. p \in Keys /\ p \in IntegerKeys
    BY <1>1 DEF Keys
  <2>2. p \in DOMAIN e /\ Model(e)[p] = e[p]
    BY <1>3, <2>1, ModelOf
  <2>3. CASE p \in DOMAIN d /\ e[p] = d[p]
    <3>1. Model(d)[p] = Model(e)[p]
      BY <2>1, <2>2, <2>3, ModelOf
    <3> QED
      BY <1>2, <1>3, <3>1 DEF TooWide
  <2>4. CASE e[p].num <= MaxU32
    <3>1. IsNatural(e[p])
      BY <1>3, <2>1, <2>2, ModelOf DEF AsNatural
    <3> QED
      BY <1>3, <2>2, <2>4, <3>1, ScenarioAssumption DEF IsNatural
  <2> QED
    BY <2>2, <2>3, <2>4
<1>4. TooWide(Model(e)) = {}
  BY <1>3 DEF TooWide
<1> QED
  BY <1>4, ValidIsAccepted DEF Loads

\* The objects on the way to a path
AboveOf(path) == {SubSeq(path, 1, i) : i \in 1 .. Len(path) - 1}

\* Nothing of document d is below a path.
NothingBelow(d, path) == \A q \in DOMAIN d : ~IsStrictPrefix(path, q)

\* Document e is d with number n at a path and objects on the way to it.
HasInteger(d, e, path, n) ==
  /\ DOMAIN e = DOMAIN d \cup AboveOf(path) \cup {path}
  /\ e[path] = Num(n)
  /\ \A q \in AboveOf(path) : e[q] = Obj
  /\ \A q \in DOMAIN d \ (AboveOf(path) \cup {path}) : e[q] = d[q]

\* SetIntegerAtPath changes what is at the path and on the way to it.
LEMMA IntegerSet ==
  ASSUME NEW d, NEW path, NEW n, NothingBelow(d, path), path \notin AboveOf(path)
  PROVE  HasInteger(d, WithInteger(d, path, n), path, n)
<1> DEFINE above == AboveOf(path)
           kept == {q \in DOMAIN d : ~IsStrictPrefix(path, q)}
<1>1. kept = DOMAIN d
  BY DEF NothingBelow
<1>2. WithInteger(d, path, n) = [q \in kept \cup above \cup {path} |->
                                   CASE q = path -> Num(n) [] q \in above -> Obj [] OTHER -> d[q]]
  BY DEF WithInteger, AboveOf
<1> HIDE DEF above, kept
<1>3. path \notin above
  BY DEF above
<1> QED
  BY <1>1, <1>2, <1>3 DEF above, HasInteger

\* A sequence is not below one that is no shorter.
LEMMA LongerBelow ==
  ASSUME NEW S, NEW s \in Seq(S), NEW T, NEW t \in Seq(T), IsStrictPrefix(s, t)
  PROVE  Len(s) < Len(t) /\ SubSeq(t, 1, Len(s)) = s
<1>1. Len(s) <= Len(t) /\ SubSeq(s, 1, Len(s)) = SubSeq(t, 1, Len(s)) /\ s # t
  BY DEF IsStrictPrefix, IsPrefix
<1>2. SubSeq(s, 1, Len(s)) = s /\ SubSeq(t, 1, Len(t)) = t
  OBVIOUS
<1>3. Len(s) \in Nat /\ Len(t) \in Nat
  OBVIOUS
<1>4. Len(s) # Len(t)
  <2> SUFFICES ASSUME Len(s) = Len(t) PROVE FALSE
    OBVIOUS
  <2>1. SubSeq(t, 1, Len(t)) = t /\ SubSeq(s, 1, Len(s)) = s
    BY <1>2
  <2> QED
    BY <1>1, <2>1
<1>5. Len(s) < Len(t)
  BY <1>1, <1>3, <1>4
<1>6. SubSeq(t, 1, Len(s)) = s
  BY <1>1, <1>2
<1> QED
  BY <1>5, <1>6

\* Nothing is below a number.
LEMMA NumbersEnd ==
  ASSUME NEW d, IsDocument(d), NEW S, NEW path \in Seq(S), Len(path) >= 1,
         path \in DOMAIN d => d[path] # Obj
  PROVE  NothingBelow(d, path)
<1> SUFFICES ASSUME NEW q \in DOMAIN d, IsStrictPrefix(path, q) PROVE FALSE
  BY DEF NothingBelow
<1>1. q \in Seq(STRING) /\ Len(q) \in Nat /\ Len(path) \in Nat
  BY DEF IsDocument
<1>2. Len(path) < Len(q) /\ SubSeq(q, 1, Len(path)) = path
  BY <1>1, LongerBelow
<1>3. \A i \in 1 .. Len(q) - 1 : SubSeq(q, 1, i) \in DOMAIN d /\ d[SubSeq(q, 1, i)] = Obj
  BY DEF IsDocument
<1>4. Len(path) \in 1 .. Len(q) - 1
  BY <1>1, <1>2
<1>5. path \in DOMAIN d /\ d[path] = Obj
  BY <1>2, <1>3, <1>4
<1> QED
  BY <1>5

\* A sequence of two with one more element
LEMMA ThreeKeys ==
  ASSUME NEW S, NEW s \in Seq(S), NEW k \in S
  PROVE  /\ Append(s, k) \in Seq(S)
         /\ Len(s) = 2 => /\ Len(Append(s, k)) = 3
                          /\ Append(s, k)[1] = s[1] /\ Append(s, k)[2] = s[2]
<1> DEFINE t == Append(s, k)
<1>1. t \in Seq(S) /\ Len(t) = Len(s) + 1 /\ \A i \in 1 .. Len(s) : t[i] = s[i]
  OBVIOUS
<1> HIDE DEF t
<1>2. Len(s) = 2 => Len(t) = 3 /\ t[1] = s[1] /\ t[2] = s[2]
  BY <1>1
<1> QED
  BY <1>1, <1>2 DEF t

PathNames ==
  {"camera", "network", "inter_packet_delay_us", "fps", "sim_faults", "reorder", "drop_percent",
   "roi", "x", "y", "width", "height"}

\* The paths of integer knobs and of the fields of a region of interest.
LEMMA KnobPathsAre ==
  /\ AboveOf(Delay) = {Camera, Network} /\ AboveOf(Fps) = {Camera}
  /\ AboveOf(Reorder) = {Faults} /\ AboveOf(DropPercent) = {Faults}
  /\ \A p \in IntegerPaths : p \in Seq(PathNames) /\ Len(p) >= 1
  /\ \A p \in RoiFields :
       p \in Seq(PathNames) /\ Len(p) = 3 /\ p[2] = "roi" /\ AboveOf(p) = {Camera, Roi}
<1>1. AboveOf(Delay) = {Camera, Network} /\ AboveOf(Fps) = {Camera}
  BY DEF AboveOf, Delay, Fps, Camera, Network
<1>2. AboveOf(Reorder) = {Faults} /\ AboveOf(DropPercent) = {Faults}
  BY DEF AboveOf, Reorder, DropPercent, Faults
<1>3. \A p \in IntegerPaths : p \in Seq(PathNames) /\ Len(p) >= 1
  <2>1. Delay \in Seq(PathNames) /\ Len(Delay) >= 1
    BY DEF Delay, PathNames
  <2>2. Fps \in Seq(PathNames) /\ Len(Fps) >= 1
    BY DEF Fps, PathNames
  <2>3. Reorder \in Seq(PathNames) /\ Len(Reorder) >= 1
    BY DEF Reorder, PathNames
  <2>4. DropPercent \in Seq(PathNames) /\ Len(DropPercent) >= 1
    BY DEF DropPercent, PathNames
  <2> QED
    BY <2>1, <2>2, <2>3, <2>4 DEF IntegerPaths
<1>4. ASSUME NEW p \in RoiFields
      PROVE  p \in Seq(PathNames) /\ Len(p) = 3 /\ p[2] = "roi" /\ AboveOf(p) = {Camera, Roi}
  <2>1. PICK k \in {"x", "y", "width", "height"} : p = Append(Roi, k)
    BY DEF RoiFields, In
  <2>2. Roi \in Seq(PathNames) /\ Len(Roi) = 2 /\ Roi[1] = "camera" /\ Roi[2] = "roi"
    BY DEF Roi, PathNames
  <2>3. p \in Seq(PathNames) /\ Len(p) = 3 /\ p[1] = "camera" /\ p[2] = "roi"
    <3>1. k \in PathNames
      BY DEF PathNames
    <3> DEFINE r == Roi
    <3>2. r \in Seq(PathNames) /\ Len(r) = 2 /\ r[1] = "camera" /\ r[2] = "roi" /\ p = Append(r, k)
      BY <2>1, <2>2
    <3> HIDE DEF r
    <3> QED
      BY <3>1, <3>2, ThreeKeys
  <2> DEFINE one == [i \in 1 .. 1 |-> "camera"]
             two == [i \in 1 .. 2 |-> IF i = 1 THEN "camera" ELSE "roi"]
  <2>4. SubSeq(p, 1, 1) = one /\ SubSeq(p, 1, 2) = two
    BY <2>3
  <2>5. Camera = one /\ Roi = two
    BY DEF Camera, Roi
  <2>6. AboveOf(p) = {SubSeq(p, 1, 1), SubSeq(p, 1, 2)}
    <3>1. 1 .. Len(p) - 1 = {1, 2}
      BY <2>3
    <3> QED
      BY <3>1 DEF AboveOf
  <2> QED
    BY <2>3, <2>4, <2>5, <2>6
<1> QED
  BY <1>1, <1>2, <1>3, <1>4

\* The numbers of a document are written as they are.
PlainNumbers(d) ==
  \A p \in DOMAIN d : IsNumber(d[p]) =>
    /\ d[p] = [num |-> d[p].num, part |-> d[p].part]
    /\ d[p].part \in {"none", "half"} /\ d[p].num \in Int /\ d[p].num <= MaxI64

LEMMA PlainIsPlain ==
  ASSUME NEW d, IsDocument(d), IsPlain(d)
  PROVE  /\ PlainNumbers(d)
         /\ \A p \in DOMAIN d : IsNumber(d[p]) => d[p].num <= MaxI64 - 5000
<1> SUFFICES ASSUME NEW p \in DOMAIN d, IsNumber(d[p])
             PROVE  /\ d[p] = [num |-> d[p].num, part |-> d[p].part]
                    /\ d[p].part \in {"none", "half"} /\ d[p].num \in Int /\ d[p].num <= MaxI64
                    /\ d[p].num <= MaxI64 - 5000
  BY DEF PlainNumbers
<1> DEFINE v == d[p]
<1>1. v \in [num : Int, part : {"none", "half", "fine"}]
  BY DEF IsDocument
<1>2. v.part # "fine" /\ v.num <= MaxI64 - 5000
  BY DEF IsPlain, Numbers
<1> HIDE DEF v
<1>3. /\ v = [num |-> v.num, part |-> v.part]
      /\ v.part \in {"none", "half"} /\ v.num \in Int /\ v.num <= MaxI64
  BY <1>1, <1>2, ScenarioAssumption
<1> QED
  BY <1>2, <1>3 DEF v

LEMMA SerializedAsIs ==
  ASSUME NEW d, PlainNumbers(d)
  PROVE  DOMAIN Serialized(d) = DOMAIN d /\ \A p \in DOMAIN d : Serialized(d)[p] = d[p]
<1>1. ASSUME NEW p \in DOMAIN d, IsNumber(d[p]), d[p].part # "half" PROVE Num(AsInt64(d[p].num)) = d[p]
  <2> DEFINE v == d[p]
  <2>1. v = [num |-> v.num, part |-> "none"] /\ v.num \in Int /\ v.num <= MaxI64
    BY <1>1 DEF PlainNumbers
  <2> HIDE DEF v
  <2>2. AsInt64(v.num) = v.num
    BY <2>1, ScenarioAssumption DEF AsInt64
  <2>3. Num(v.num) = v
    BY <2>1 DEF Num
  <2> QED
    BY <2>2, <2>3 DEF v
<1> QED
  BY <1>1 DEF Serialized

\* Document e is d with numbers at M and the objects they are in; nothing is below a number.
Written(d, e, M) ==
  /\ M \subseteq KnobPaths \cup OnTheWay
  /\ DOMAIN e = DOMAIN d \cup M
  /\ \A p \in DOMAIN d \ M : e[p] = d[p]
  /\ \A p \in M \cap OnTheWay : e[p] = Obj
  /\ \A p \in M \cap KnobPaths : \E n \in 0 .. MaxI64 :
       e[p] = Num(n) /\ (p \in PositiveFields => n >= 1) /\ (p \in PercentFields => n <= 100)

\* SetIntegerAtPath writes one more.
LEMMA WriteInteger ==
  ASSUME NEW d, NEW e, NEW M, Written(d, e, M), NEW path \in KnobPaths, NothingBelow(e, path),
         NEW n \in 0 .. MaxI64, path \in PositiveFields => n >= 1, path \in PercentFields => n <= 100
  PROVE  /\ Written(d, WithInteger(e, path, n), M \cup AboveOf(path) \cup {path})
         /\ WithInteger(e, path, n)[path] = Num(n)
<1> DEFINE w == WithInteger(e, path, n)
           A == AboveOf(path)
<1>1. A \subseteq OnTheWay /\ path \notin OnTheWay
  BY KnobPathsAre, PathsApart DEF OnTheWay, KnobPaths, IntegerPaths
<1>2. path \notin A
  BY <1>1
<1>w. w = WithInteger(e, path, n)
  OBVIOUS
<1> HIDE DEF w
<1>3. /\ DOMAIN w = DOMAIN e \cup A \cup {path}
      /\ w[path] = Num(n)
      /\ \A q \in A : w[q] = Obj
      /\ \A q \in DOMAIN e \ (A \cup {path}) : w[q] = e[q]
  <2>1. HasInteger(e, w, path, n)
    BY <1>2, <1>w, IntegerSet
  <2> QED
    BY <2>1 DEF HasInteger
<1> HIDE DEF A
<1> DEFINE N == M \cup A \cup {path}
<1>4. KnobPaths \cap OnTheWay = {}
  BY PathsApart
<1>5. N \subseteq KnobPaths \cup OnTheWay /\ DOMAIN w = DOMAIN d \cup N
  BY <1>1, <1>3 DEF Written
<1>6. \A p \in DOMAIN d \ N : w[p] = d[p]
  BY <1>3 DEF Written
<1>7. \A p \in N \cap OnTheWay : w[p] = Obj
  BY <1>1, <1>3 DEF Written
<1>8. ASSUME NEW p \in N \cap KnobPaths
      PROVE  \E k \in 0 .. MaxI64 :
               w[p] = Num(k) /\ (p \in PositiveFields => k >= 1) /\ (p \in PercentFields => k <= 100)
  <2>1. CASE p = path
    BY <1>3, <2>1
  <2>2. CASE p # path
    <3>1. p \in M \cap KnobPaths /\ w[p] = e[p]
      BY <1>1, <1>3, <1>4, <2>2 DEF Written
    <3> QED
      BY <3>1 DEF Written
  <2> QED
    BY <2>1, <2>2
<1> QED
  BY <1>3, <1>5, <1>6, <1>7, <1>8 DEF Written, w, A

\* What was written is as the validator wants it, and is serialized as it is.
LEMMA WrittenIsChange ==
  ASSUME NEW d, PlainNumbers(d), NEW e, NEW M, Written(d, e, M), Roi \in M => RoiFields \subseteq M
  PROVE  /\ Differs(d, Serialized(e), M)
         /\ \A p \in DOMAIN e : Serialized(e)[p] = e[p]
<1>1. PlainNumbers(e)
  <2> SUFFICES ASSUME NEW p \in DOMAIN e, IsNumber(e[p])
               PROVE  /\ e[p] = [num |-> e[p].num, part |-> e[p].part]
                      /\ e[p].part \in {"none", "half"} /\ e[p].num \in Int /\ e[p].num <= MaxI64
    BY DEF PlainNumbers
  <2>1. CASE p \in M \cap KnobPaths
    <3>1. PICK n \in 0 .. MaxI64 : e[p] = Num(n)
      BY <2>1 DEF Written
    <3> QED
      BY <3>1, ScenarioAssumption DEF Num
  <2>2. CASE p \in M \cap OnTheWay
    <3>1. e[p] = Obj
      BY <2>2 DEF Written
    <3> QED
      BY <3>1 DEF Obj, IsNumber
  <2>3. CASE p \notin M
    <3>1. p \in DOMAIN d /\ e[p] = d[p]
      BY <2>3 DEF Written
    <3> QED
      BY <3>1 DEF PlainNumbers
  <2> QED
    BY <2>1, <2>2, <2>3 DEF Written
<1> DEFINE f == Serialized(e)
<1>2. DOMAIN f = DOMAIN e /\ \A p \in DOMAIN e : f[p] = e[p]
  BY <1>1, SerializedAsIs
<1> HIDE DEF f
<1>3. ASSUME NEW p \in M \cap KnobPaths
      PROVE  /\ IsNatural(f[p]) /\ (p \in PositiveFields => IsPositive(f[p]))
             /\ p \in PercentFields => ~OverPercent(f[p])
  <2>1. PICK n \in 0 .. MaxI64 :
          e[p] = Num(n) /\ (p \in PositiveFields => n >= 1) /\ (p \in PercentFields => n <= 100)
    BY DEF Written
  <2>2. f[p] = Num(n)
    BY <1>2, <2>1 DEF Written
  <2>3. n \in Int /\ MaxI64 \in Int /\ MaxU64 \in Int /\ MaxI64 < MaxU64
    BY ScenarioAssumption
  <2>4. IsNumber(Num(n)) /\ Num(n).part = "none" /\ Num(n).num = n
    BY DEF Num, IsNumber
  <2>5. IsNatural(Num(n))
    BY <2>3, <2>4 DEF IsNatural
  <2>6. n >= 1 => IsPositive(Num(n))
    BY <2>3, <2>4, <2>5 DEF IsPositive
  <2>7. n <= 100 => ~OverPercent(Num(n))
    <3>1. n <= 100 => n < 100 \/ n = 100
      BY <2>3
    <3> QED
      BY <2>4, <3>1 DEF OverPercent, AtMost100
  <2> QED
    BY <2>1, <2>2, <2>5, <2>6, <2>7
<1>4. Differs(d, f, M)
  BY <1>2, <1>3 DEF Written, Differs
<1> QED
  BY <1>2, <1>4 DEF f

\* An integer knob goes from n, the number of document d at a path or the default, to c.
Moves(d, path, n, c) ==
  /\ path \in DOMAIN d => d[path] = Num(n)
  /\ path \notin DOMAIN d => n = IF path = Fps THEN 30 ELSE 0
  /\ n \in 0 .. MaxI64 - 5000 /\ c \in 0 .. MaxI64
  /\ path = Fps => c >= 1 /\ (c < n \/ c = 1)
  /\ path \in {Reorder, DropPercent} => c <= 100
  /\ c = n => n \in {1, 100}
  /\ NothingBelow(d, path)

\* An integer knob starts from the number of the base or from the default, and what it
\* ends at is a number of the field.
LEMMA IntegerKnob ==
  ASSUME NEW d, IsDocument(d), Valid(d), IsPlain(d), NEW path \in IntegerPaths
  PROVE  Moves(d, path, ReadInteger(d, path), Candidate(path, ReadInteger(d, path)))
<1> DEFINE n == ReadInteger(d, path)
           v == d[path]
<1>1. path \in PositiveFields \cup NaturalFields /\ (path = Fps => path \in PositiveFields)
        /\ (path = DropPercent => path \in PercentFields)
  BY DEF IntegerPaths, PositiveFields, NaturalFields, PercentFields, In, Reorder, DropPercent, Faults
<1>2. NumbersPass(d)
  BY ValidMeans
<1>3. path \in DOMAIN d => /\ IsNatural(v) /\ (path = Fps => IsPositive(v))
                           /\ (path = DropPercent => ~OverPercent(v))
  BY <1>1, <1>2 DEF NumbersPass, IsPositive
<1>4. path \in DOMAIN d => /\ v = [num |-> v.num, part |-> v.part] /\ v.num <= MaxI64 - 5000
  <2>1. path \in DOMAIN d => IsNumber(v)
    BY <1>3 DEF IsNatural
  <2> QED
    BY <2>1, PlainIsPlain DEF PlainNumbers
<1>5. /\ MaxI64 \in Nat /\ MaxU64 \in Nat /\ 5000 < MaxI64 /\ MaxI64 < MaxU64
  BY ScenarioAssumption
<1>6. ASSUME path \in DOMAIN d
      PROVE  /\ v = Num(n) /\ n \in 0 .. MaxI64 - 5000 /\ (path = Fps => n >= 1)
             /\ (path = DropPercent => n <= 100)
  <2>1. /\ v = [num |-> v.num, part |-> "none"] /\ v.num \in 0 .. MaxU64 /\ IsNumber(v)
        /\ v.num <= MaxI64 - 5000
    BY <1>3, <1>4, <1>6 DEF IsNatural
  <2>2. n = AsInt64(v.num)
    BY <1>6, <2>1 DEF ReadInteger
  <2>3. n = v.num
    BY <1>5, <2>1, <2>2 DEF AsInt64
  <2>4. v = Num(n)
    BY <2>1, <2>3 DEF Num
  <2>5. path = Fps => n # 0
    BY <1>3, <1>6, <2>3 DEF IsPositive
  <2>6. path = DropPercent => n <= 100
    <3>1. path = DropPercent => v.num < 100 \/ v = Num(100)
      BY <1>3, <1>6, <2>1 DEF OverPercent, AtMost100
    <3>2. v = Num(100) => v.num = 100
      BY DEF Num
    <3> QED
      BY <1>5, <2>1, <2>3, <3>1, <3>2
  <2> QED
    BY <1>5, <2>1, <2>3, <2>4, <2>5, <2>6
<1>7. path \notin DOMAIN d => n = IF path = Fps THEN 30 ELSE 0
  <2>1. Last(path) \notin {"width", "height"}
    BY DEF IntegerPaths, Last, Delay, Fps, Reorder, DropPercent
  <2> QED
    BY <2>1 DEF ReadInteger, DefaultOf
<1>8. n \in 0 .. MaxI64 - 5000 /\ (path = Fps => n >= 1) /\ (path = DropPercent => n <= 100)
  <2>1. CASE path \in DOMAIN d
    BY <1>6, <2>1
  <2>2. CASE path \notin DOMAIN d
    <3>1. n \in {0, 30} /\ (path = Fps => n = 30) /\ (path # Fps => n = 0)
      BY <1>7, <2>2
    <3>2. DropPercent # Fps
      BY DEF DropPercent, Fps
    <3>3. 30 <= MaxI64 - 5000
      BY ScenarioAssumption
    <3> QED
      BY <1>5, <3>1, <3>2, <3>3
  <2> QED
    BY <2>1, <2>2
<1> HIDE DEF n
<1>9. n \in -MaxI64 - 1 .. MaxI64 - 5000
  BY <1>5, <1>8
<1>10. /\ Candidate(Delay, n) = n + 5000
       /\ Candidate(Fps, n) >= 1 /\ (n > 1 => Candidate(Fps, n) = n - 1)
       /\ n = 1 => Candidate(Fps, n) = 1
       /\ Candidate(Reorder, n) \in 0 .. 100 /\ (n \in 0 .. 99 => Candidate(Reorder, n) > n)
       /\ Candidate(DropPercent, n) \in 0 .. 100
       /\ n \in 0 .. 100 => Candidate(DropPercent, n) # n
  BY <1>9, KnobsStayInRange
<1>11. path \in DOMAIN d => d[path] # Obj
  <2>1. ~IsNatural(Obj)
    BY DEF IsNatural, IsNumber, Obj
  <2> QED
    BY <1>3, <2>1
<1>12. NothingBelow(d, path)
  BY <1>11, NumbersEnd, KnobPathsAre
<1> DEFINE c == Candidate(path, n)
<1>13. /\ c \in 0 .. MaxI64
       /\ path = Fps => c >= 1 /\ (c < n \/ c = 1)
       /\ path \in {Reorder, DropPercent} => c <= 100
       /\ c = n => n \in {1, 100}
  <2>1. CASE path = Delay
    <3>1. Delay \notin {Fps, Reorder, DropPercent}
      BY DEF Delay, Fps, Reorder, DropPercent
    <3> QED
      BY <1>5, <1>8, <1>10, <2>1, <3>1
  <2>2. CASE path = Fps
    <3>1. Fps \notin {Delay, Reorder, DropPercent}
      BY DEF Delay, Fps, Reorder, DropPercent
    <3> QED
      BY <1>5, <1>8, <1>10, <2>2, <3>1
  <2>3. CASE path = Reorder
    <3>1. Reorder \notin {Delay, Fps, DropPercent}
      BY DEF Delay, Fps, Reorder, DropPercent
    <3> QED
      BY <1>5, <1>8, <1>10, <2>3, <3>1
  <2>4. CASE path = DropPercent
    <3>1. DropPercent \notin {Delay, Fps, Reorder}
      BY DEF Delay, Fps, Reorder, DropPercent
    <3> QED
      BY <1>5, <1>8, <1>10, <2>4, <3>1
  <2> QED
    BY <2>1, <2>2, <2>3, <2>4 DEF IntegerPaths
<1> QED
  BY <1>6, <1>7, <1>8, <1>12, <1>13 DEF n, Moves

\* The variant of an integer knob is the document with another number at its path.
LEMMA IntegerVariant ==
  ASSUME NEW d, IsDocument(d), Valid(d), IsPlain(d), NEW path \in IntegerPaths,
         NEW c, c = Candidate(path, ReadInteger(d, path))
  PROVE  LET f == Serialized(WithInteger(d, path, c))
         IN  Differs(d, f, AboveOf(path) \cup {path}) /\ f[path] = Num(c)
<1> DEFINE n == ReadInteger(d, path)
           M == {} \cup AboveOf(path) \cup {path}
           e == WithInteger(d, path, c)
<1>1. Moves(d, path, n, c)
  BY IntegerKnob
<1>2. /\ path \in PositiveFields => path = Fps
      /\ path \in PercentFields => path = DropPercent
      /\ path \in KnobPaths
  BY DEF IntegerPaths, PositiveFields, PercentFields, KnobPaths, In, Camera, Roi, Webcam, DurationMs, Fps,
         Delay, Reorder, DropPercent
<1> HIDE DEF n
<1>3. /\ c \in 0 .. MaxI64 /\ NothingBelow(d, path)
      /\ path \in PositiveFields => c >= 1
      /\ path \in PercentFields => c <= 100
  BY <1>1, <1>2 DEF Moves
<1>4. Written(d, d, {})
  BY DEF Written
<1>5. Written(d, e, M) /\ e[path] = Num(c)
  BY <1>2, <1>3, <1>4, WriteInteger
<1>6. Roi \notin M
  <2>1. Roi \notin IntegerPaths /\ Roi \notin {Camera, Network, Faults}
    BY DEF IntegerPaths, Roi, Camera, Network, Faults, Fps, Delay, Reorder, DropPercent
  <2> QED
    BY <2>1, KnobPathsAre DEF IntegerPaths
<1>7. path \in DOMAIN e
  BY <1>5 DEF Written
<1> HIDE DEF e, M
<1>8. Differs(d, Serialized(e), M) /\ \A p \in DOMAIN e : Serialized(e)[p] = e[p]
  BY <1>5, <1>6, PlainIsPlain, WrittenIsChange
<1> QED
  BY <1>5, <1>7, <1>8 DEF M, e

\* Document e is d with some fields of a region of interest; there is nothing below any.
RoiSoFar(d, e, M) == Written(d, e, M) /\ \A p \in RoiFields : NothingBelow(e, p)

LEMMA RoiField ==
  ASSUME NEW d, NEW e, NEW M, RoiSoFar(d, e, M), NEW path \in RoiFields, NEW n \in 0 .. MaxI64,
         path \in PositiveFields => n >= 1
  PROVE  RoiSoFar(d, WithInteger(e, path, n), M \cup {Camera, Roi} \cup {path})
<1> DEFINE w == WithInteger(e, path, n)
<1>1. path \in KnobPaths /\ path \notin PercentFields /\ AboveOf(path) = {Camera, Roi}
  <2>1. RoiFields \cap PercentFields = {}
    BY DEF RoiFields, PercentFields, In, Roi, DropPercent
  <2> QED
    BY <2>1, KnobPathsAre DEF KnobPaths
<1>2. Written(d, w, M \cup {Camera, Roi} \cup {path})
  BY <1>1, WriteInteger DEF RoiSoFar
<1>3. DOMAIN w = DOMAIN e \cup {Camera, Roi} \cup {path}
  BY <1>2 DEF Written, RoiSoFar
<1> HIDE DEF w
<1>4. ASSUME NEW p \in RoiFields, NEW q \in DOMAIN w, IsStrictPrefix(p, q) PROVE FALSE
  <2>1. p \in Seq(PathNames) /\ Len(p) = 3
    BY KnobPathsAre
  <2>2. q \notin DOMAIN e
    BY <1>4 DEF RoiSoFar, NothingBelow
  <2>3. q \in Seq(PathNames) /\ Len(q) <= 3
    <3>1. q \in {Camera, Roi} \/ q \in RoiFields
      BY <1>3, <2>2
    <3>2. q \in RoiFields => q \in Seq(PathNames) /\ Len(q) = 3
      BY KnobPathsAre
    <3>3. CASE q = Camera
      BY <3>3 DEF Camera, PathNames
    <3>4. CASE q = Roi
      BY <3>4 DEF Roi, PathNames
    <3>5. CASE q \in RoiFields
      BY <3>2, <3>5
    <3> QED
      BY <3>1, <3>3, <3>4, <3>5
  <2>4. Len(p) < Len(q)
    BY <1>4, <2>1, <2>3, LongerBelow
  <2> QED
    BY <2>1, <2>3, <2>4
<1> QED
  BY <1>2, <1>4 DEF w, RoiSoFar, NothingBelow

\* A side of a new region of interest is half of the image's, or a pixel.
LEMMA HalfOfSide ==
  ASSUME NEW d, IsDocument(d), Valid(d), IsPlain(d), NEW side \in {"width", "height"}
  PROVE  Max({1, ReadInteger(d, Append(Camera, side)) \div 2}) \in 1 .. MaxI64
<1> DEFINE path == Append(Camera, side)
           r == ReadInteger(d, path)
           v == d[path]
<1>0. MaxI64 \in Nat /\ MaxU64 \in Nat /\ 5000 < MaxI64 /\ MaxI64 < MaxU64
  BY ScenarioAssumption
<1>1. path \in PositiveFields
  BY DEF PositiveFields, In
<1>2. path \in DOMAIN d => IsPositive(v)
  BY <1>1, ValidMeans DEF NumbersPass
<1>3. path \in DOMAIN d => v.num <= MaxI64 - 5000
  BY <1>2, PlainIsPlain DEF IsPositive, IsNatural
<1> HIDE DEF path
<1>4. DefaultOf(path) \in {30, 1920, 1080, 0}
  BY DEF DefaultOf
<1>5. r \in 0 .. MaxI64
  <2>1. CASE path \in DOMAIN d
    <3>1. IsNumber(v) /\ v.part = "none" /\ v.num \in 0 .. MaxU64
      BY <1>2, <2>1 DEF IsPositive, IsNatural
    <3>2. r = AsInt64(v.num)
      BY <2>1, <3>1 DEF ReadInteger
    <3> HIDE DEF r, v
    <3> QED
      BY <1>0, <1>3, <2>1, <3>1, <3>2 DEF AsInt64
  <2>2. CASE path \notin DOMAIN d
    <3>1. r = DefaultOf(path)
      BY <2>2 DEF ReadInteger
    <3> QED
      BY <1>0, <1>4, <3>1
  <2> QED
    BY <2>1, <2>2
<1> HIDE DEF r
<1>6. r \div 2 \in 0 .. MaxI64
  BY <1>0, <1>5
<1>7. Max({1, r \div 2}) = IF 1 >= r \div 2 THEN 1 ELSE r \div 2
  BY <1>6, MaxOfTwo
<1>8. Max({1, r \div 2}) \in 1 .. MaxI64
  BY <1>0, <1>6, <1>7
<1> QED
  BY <1>8 DEF r, path

\* The variant of a document that has no region of interest has one.
LEMMA RoiVariant ==
  ASSUME NEW d, IsDocument(d), Valid(d), IsPlain(d), ~HasRoi(d)
  PROVE  Differs(d, Serialized(WithRoi(d)), {Camera, Roi} \cup RoiFields)
<1> DEFINE x == Append(Roi, "x")
           y == Append(Roi, "y")
           width == Append(Roi, "width")
           height == Append(Roi, "height")
           half(side) == Max({1, ReadInteger(d, Append(Camera, side)) \div 2})
           hw == half("width")
           hh == half("height")
           e1 == WithInteger(d, x, 0)
           e2 == WithInteger(e1, y, 0)
           e3 == WithInteger(e2, width, hw)
           e4 == WithInteger(e3, height, hh)
           M1 == {} \cup {Camera, Roi} \cup {x}
           M2 == M1 \cup {Camera, Roi} \cup {y}
           M3 == M2 \cup {Camera, Roi} \cup {width}
           M4 == M3 \cup {Camera, Roi} \cup {height}
<1>1. RoiFields = {x, y, width, height}
  BY DEF RoiFields, In
<1>2. x \notin PositiveFields /\ y \notin PositiveFields
  <2>1. In(Roi, {"width", "height"}) = {width, height}
    BY DEF In
  <2>2. x \notin {width, height} /\ y \notin {width, height}
    BY DEF Roi
  <2> DEFINE rest == {DurationMs, Fps} \cup In(Camera, {"width", "height"})
                       \cup {<<"camera", "network", "packet_size_bytes">>, <<"oaat", "max_trials">>}
                       \cup In(Webcam, {"requested_width", "requested_height"})
  <2>3. \A p \in rest : ~(Len(p) = 3 /\ p[2] = "roi")
    BY DEF In, Camera, Webcam, DurationMs, Fps
  <2>4. PositiveFields = rest \cup In(Roi, {"width", "height"})
    BY DEF PositiveFields
  <2> HIDE DEF x, y, width, height, rest
  <2>5. x \notin rest /\ y \notin rest
    BY <1>1, <2>3, KnobPathsAre
  <2> QED
    BY <2>1, <2>2, <2>4, <2>5
<1>3. hw \in 1 .. MaxI64 /\ hh \in 1 .. MaxI64
  BY HalfOfSide
<1>4. WithRoi(d) = e4
  BY DEF WithRoi
<1> HIDE DEF x, y, width, height, half, hw, hh
<1>5. RoiSoFar(d, d, {})
  <2>1. Written(d, d, {})
    BY DEF Written
  <2>2. ASSUME NEW p \in RoiFields PROVE NothingBelow(d, p)
    <3>1. p \in Seq(PathNames) /\ Len(p) = 3 /\ AboveOf(p) = {Camera, Roi}
      BY KnobPathsAre
    <3>2. p \notin DOMAIN d
      <4> SUFFICES ASSUME p \in DOMAIN d PROVE FALSE
        OBVIOUS
      <4>1. AboveOf(p) \subseteq DOMAIN d
        BY DEF IsDocument, AboveOf
      <4> QED
        BY <3>1, <4>1 DEF HasRoi
    <3>3. Len(p) >= 1
      BY <3>1
    <3> QED
      BY <3>1, <3>2, <3>3, NumbersEnd
  <2> QED
    BY <2>1, <2>2 DEF RoiSoFar
<1>6. 0 \in 0 .. MaxI64 /\ hw \in 0 .. MaxI64 /\ hh \in 0 .. MaxI64 /\ hw >= 1 /\ hh >= 1
  BY <1>3, ScenarioAssumption
<1>7. RoiSoFar(d, e1, M1)
  BY <1>1, <1>2, <1>5, <1>6, RoiField
<1> HIDE DEF e1, M1
<1>8. RoiSoFar(d, e2, M2)
  BY <1>1, <1>2, <1>6, <1>7, RoiField
<1> HIDE DEF e2, M2
<1>9. RoiSoFar(d, e3, M3)
  BY <1>1, <1>6, <1>8, RoiField
<1> HIDE DEF e3, M3
<1>10. RoiSoFar(d, e4, M4)
  BY <1>1, <1>6, <1>9, RoiField
<1>11. M4 = {Camera, Roi} \cup RoiFields
  BY <1>1 DEF M1, M2, M3
<1> HIDE DEF e4, M4
<1>12. Differs(d, Serialized(e4), M4)
  BY <1>10, <1>11, PlainIsPlain, WrittenIsChange DEF RoiSoFar
<1> QED
  BY <1>4, <1>11, <1>12

\* The variant of a document that has one is the rest of it.
LEMMA RestVariant ==
  ASSUME NEW d, IsDocument(d), IsPlain(d)
  PROVE  LET f == Serialized(WithoutRoi(d))
         IN  /\ DOMAIN f = {q \in DOMAIN d : ~IsPrefix(Roi, q)}
             /\ \A q \in DOMAIN f : f[q] = d[q]
<1> DEFINE e == WithoutRoi(d)
<1>1. DOMAIN e = {q \in DOMAIN d : ~IsPrefix(Roi, q)} /\ \A q \in DOMAIN e : e[q] = d[q]
  BY DEF WithoutRoi
<1> HIDE DEF e
<1>2. PlainNumbers(e)
  BY <1>1, PlainIsPlain DEF PlainNumbers
<1>3. DOMAIN Serialized(e) = DOMAIN e /\ \A q \in DOMAIN e : Serialized(e)[q] = e[q]
  BY <1>2, SerializedAsIs
<1> QED
  BY <1>1, <1>3 DEF e

\* What the file f of a knob's variant of document d is.
IsVariant(d, f, knob) ==
  IF knob # "roi_enabled"
  THEN LET path == PathOf(knob)
       IN  /\ Differs(d, f, AboveOf(path) \cup {path})
           /\ f[path] = Num(Candidate(path, ReadInteger(d, path)))
  ELSE IF HasRoi(d)
       THEN DOMAIN f = {q \in DOMAIN d : ~IsPrefix(Roi, q)} /\ \A q \in DOMAIN f : f[q] = d[q]
       ELSE Differs(d, f, {Camera, Roi} \cup RoiFields)

\* The knobs set one integer each, but for the region of interest.
LEMMA PathsOfKnobs ==
  ASSUME NEW knob \in Knobs
  PROVE  IF knob = "roi_enabled" THEN PathOf(knob) = Roi
         ELSE PathOf(knob) \in IntegerPaths /\ PathOf(knob) # Roi
<1>1. knob \in {"packet_delay_ms", "fps", "roi_enabled", "reorder_percent", "loss_percent"}
  <2>1. PICK i \in 1 .. 5 : knob = Playbook[i]
    BY PlaybookKnobs
  <2> QED
    BY <2>1 DEF Playbook
<1>2. Roi \notin IntegerPaths
  BY DEF IntegerPaths, Roi, Fps, Delay, Reorder, DropPercent
<1> QED
  BY <1>1, <1>2 DEF PathOf, IntegerPaths

LEMMA VariantIs ==
  ASSUME NEW d, IsDocument(d), Valid(d), IsPlain(d), NEW knob \in Knobs
  PROVE  IsVariant(d, Serialized(Variant(d, knob)), knob)
<1>1. CASE knob # "roi_enabled"
  <2> DEFINE path == PathOf(knob)
             c == Candidate(path, ReadInteger(d, path))
  <2>1. path \in IntegerPaths
    BY <1>1, PathsOfKnobs
  <2>2. Variant(d, knob) = WithInteger(d, path, c)
    BY <1>1 DEF Variant
  <2> HIDE DEF path, c
  <2>c. c = Candidate(path, ReadInteger(d, path))
    BY DEF c
  <2>3. LET f == Serialized(WithInteger(d, path, c))
        IN  Differs(d, f, AboveOf(path) \cup {path}) /\ f[path] = Num(c)
    BY <2>1, <2>c, IntegerVariant
  <2> QED
    BY <1>1, <2>2, <2>3 DEF IsVariant, path, c
<1>2. CASE knob = "roi_enabled" /\ HasRoi(d)
  <2>1. Variant(d, knob) = WithoutRoi(d)
    BY <1>2 DEF Variant
  <2> QED
    BY <1>2, <2>1, RestVariant DEF IsVariant
<1>3. CASE knob = "roi_enabled" /\ ~HasRoi(d)
  <2>1. Variant(d, knob) = WithRoi(d)
    BY <1>3 DEF Variant
  <2> QED
    BY <1>3, <2>1, RoiVariant DEF IsVariant
<1> QED
  BY <1>1, <1>2, <1>3

\* Old fixtures have none of the keys that knobs write at their root.
LEMMA OldKeysApart ==
  \A p \in KnobPaths \cup OnTheWay :
    /\ p # <<"roi">>
    /\ \A q \in Keys : Len(q) > 1 => p # <<Last(q)>>
<1> DEFINE names == {"camera", "sim_faults"}
<1>1. \A p \in KnobPaths \cup OnTheWay : Len(p) > 1 \/ p[1] \in names
  <2>1. \A p \in OnTheWay : Len(p) > 1 \/ p[1] \in names
    BY DEF OnTheWay, Camera, Network, Faults, Roi
  <2>2. \A p \in IntegerPaths : Len(p) > 1
    BY DEF IntegerPaths, Delay, Fps, Reorder, DropPercent
  <2>3. \A p \in RoiFields : Len(p) > 1
    BY KnobPathsAre
  <2> HIDE DEF names
  <2> QED
    BY <2>1, <2>2, <2>3 DEF KnobPaths
<1>2. \A q \in Keys : Last(q) \notin names
  <2>1. \A q \in IntegerKeys : Last(q) \notin names
    BY DEF IntegerKeys, In, Faults, Webcam, DurationMs, Fps, Delay, Last
  <2>2. \A q \in NumberKeys : Last(q) \notin names
    BY DEF NumberKeys, ThresholdFields, AmountFields, In, Thresholds, RequestedFps, Last
  <2>3. \A q \in TextKeys : Last(q) \notin names
    BY DEF TextKeys, In, Camera, Last
  <2> HIDE DEF names
  <2> QED
    BY <2>1, <2>2, <2>3 DEF Keys
<1>3. "roi" \notin names
  OBVIOUS
<1> HIDE DEF names
<1>4. ASSUME NEW p \in KnobPaths \cup OnTheWay, NEW k, k \notin names PROVE p # <<k>>
  <2>1. Len(<<k>>) = 1 /\ <<k>>[1] = k
    OBVIOUS
  <2>2. Len(p) > 1 \/ p[1] \in names
    BY <1>1
  <2> SUFFICES ASSUME p = <<k>> PROVE FALSE
    OBVIOUS
  <2> QED
    BY <1>4, <2>1, <2>2
<1> QED
  BY <1>2, <1>3, <1>4

\* What knobs set is not among the numbers read as 32 bits, but for a rate and a percentage.
LEMMA WidthsOfKnobs ==
  U32Keys \cap (KnobPaths \cup OnTheWay) \subseteq {Fps, Reorder}
<1>1. U32Keys \subseteq IntegerKeys
  BY DEF U32Keys, IntegerKeys, In
<1>2. IntegerKeys \cap (RoiFields \cup OnTheWay) = {}
  <2>1. \A p \in IntegerKeys : ~(Len(p) = 3 /\ p[2] = "roi")
    BY DEF IntegerKeys, In, Faults, Webcam, DurationMs, Fps, Delay
  <2>2. IntegerKeys \cap OnTheWay = {}
    BY DEF IntegerKeys, In, Faults, Webcam, DurationMs, Fps, Delay, OnTheWay, Camera, Network, Roi
  <2> QED
    BY <2>1, <2>2, KnobPathsAre
<1>3. Delay \notin U32Keys /\ DropPercent \notin U32Keys
  BY DEF U32Keys, In, Faults, Webcam, Fps, Delay, DropPercent
<1> QED
  BY <1>1, <1>2, <1>3 DEF KnobPaths, IntegerPaths

\* A variant of a document without old keys has none.
LEMMA VariantHasNoOldKeys ==
  ASSUME NEW d, Legacy(d) = {}, NEW f, DOMAIN f \subseteq DOMAIN d \cup KnobPaths \cup OnTheWay
  PROVE  Legacy(f) = {}
BY OldKeysApart DEF Legacy, Keys

\* The rate of a document that loads is one of 32 bits, and a knob makes it no greater.
LEMMA RateStaysNarrow ==
  ASSUME NEW d, IsDocument(d), Valid(d), IsPlain(d), Loads(d)
  PROVE  Candidate(Fps, ReadInteger(d, Fps)) <= MaxU32
<1> DEFINE n == ReadInteger(d, Fps)
           c == Candidate(Fps, n)
<1>1. Fps \in IntegerPaths /\ Fps \in IntegerKeys /\ Fps \in U32Keys
  BY DEF IntegerPaths, IntegerKeys, U32Keys
<1>2. Moves(d, Fps, n, c)
  BY <1>1, IntegerKnob
<1> HIDE DEF n, c
<1>3. /\ MaxU32 \in Nat /\ MaxI64 \in Nat /\ 5000 < MaxU32
      /\ n \in 0 .. MaxI64 - 5000 /\ c \in 0 .. MaxI64 /\ (c < n \/ c = 1)
  BY <1>2, ScenarioAssumption DEF Moves
<1>4. n <= MaxU32
  <2>1. CASE Fps \in DOMAIN d
    <3>1. d[Fps] = Num(n)
      BY <1>2, <2>1 DEF Moves
    <3>2. IsNatural(d[Fps])
      BY <2>1, ValidMeans DEF NumbersPass, PositiveFields, IsPositive
    <3>3. Model(d)[Fps] = d[Fps]
      BY <1>1, <2>1, <3>2, ModelOf DEF IsPlain, AsNatural
    <3>4. Model(d)[Fps] # Unset /\ Model(d)[Fps].num = n
      BY <3>1, <3>3 DEF Num, Unset
    <3>5. TooWide(Model(d)) = {}
      BY DEF Loads, Refusals
    <3>6. ~(n > MaxU32)
      BY <1>1, <3>4, <3>5 DEF TooWide
    <3> QED
      BY <1>3, <3>6
  <2>2. CASE Fps \notin DOMAIN d
    <3>1. n = 30
      BY <1>2, <2>2 DEF Moves
    <3> QED
      BY <1>3, <3>1
  <2> QED
    BY <2>1, <2>2
<1> QED
  BY <1>3, <1>4 DEF c, n

\* A variant is valid, has no old keys, and loads if the document does.
LEMMA VariantIsValid ==
  ASSUME NEW d, IsDocument(d), Valid(d), IsPlain(d), NEW knob \in Knobs, NEW f, IsVariant(d, f, knob)
  PROVE  Valid(f) /\ Legacy(f) = {} /\ (Loads(d) => Loads(f))
<1>1. CASE knob # "roi_enabled" \/ ~HasRoi(d)
  <2> DEFINE path == PathOf(knob)
             M == IF knob = "roi_enabled" THEN {Camera, Roi} \cup RoiFields ELSE AboveOf(path) \cup {path}
  <2>1. Differs(d, f, M)
    BY <1>1 DEF IsVariant
  <2>2. knob # "roi_enabled" => /\ path \in IntegerPaths /\ AboveOf(path) \subseteq OnTheWay
                                /\ f[path] = Num(Candidate(path, ReadInteger(d, path)))
    <3>1. knob # "roi_enabled" => path \in IntegerPaths
      BY PathsOfKnobs
    <3>2. \A p \in IntegerPaths : AboveOf(p) \subseteq OnTheWay
      BY KnobPathsAre DEF IntegerPaths, OnTheWay
    <3> QED
      BY <3>1, <3>2 DEF IsVariant
  <2> HIDE DEF path
  <2>3. Valid(f)
    BY <2>1, ChangedIsValid
  <2>4. M \subseteq KnobPaths \cup OnTheWay /\ DOMAIN f = DOMAIN d \cup M
    BY <2>1 DEF Differs
  <2>5. Legacy(f) = {}
    BY <2>4, VariantHasNoOldKeys DEF IsPlain
  <2>6. InSelector(f)
    <3>1. SameAt(d, f, OtherPaths)
      BY <2>1, PathsApart DEF Differs, SameAt
    <3> QED
      BY <3>1, RestAgrees, SelectorsThere
  <2>7. ASSUME Loads(d), NEW p \in U32Keys \cap DOMAIN f
        PROVE  (p \in DOMAIN d /\ f[p] = d[p]) \/ f[p].num <= MaxU32
    <3>1. CASE p \notin M
      BY <2>1, <2>4, <3>1 DEF Differs
    <3>2. CASE p \in M
      <4>1. p \in {Fps, Reorder}
        BY <2>4, <3>2, WidthsOfKnobs
      <4>2. p \notin RoiFields \cup OnTheWay /\ p \notin {Camera, Roi}
        <5>1. KnobPaths \cap OnTheWay = {} /\ p \in KnobPaths /\ {Camera, Roi} \subseteq OnTheWay
          BY <4>1, PathsApart DEF KnobPaths, IntegerPaths, OnTheWay
        <5>2. ~(Len(p) = 3)
          BY <4>1 DEF Fps, Reorder
        <5> QED
          BY <5>1, <5>2, KnobPathsAre
      <4>3. knob # "roi_enabled" /\ p = path
        BY <2>2, <3>2, <4>2
      <4>4. f[p] = Num(Candidate(p, ReadInteger(d, p))) /\ p \in IntegerPaths
        BY <2>2, <4>3
      <4> DEFINE c == Candidate(p, ReadInteger(d, p))
      <4>5. c <= MaxU32
        <5>1. CASE p = Fps
          BY <2>7, <5>1, RateStaysNarrow
        <5>2. CASE p = Reorder
          <6>1. Moves(d, p, ReadInteger(d, p), c)
            BY <4>4, IntegerKnob
          <6> HIDE DEF c
          <6>2. c <= 100 /\ c \in 0 .. MaxI64
            BY <5>2, <6>1 DEF Moves
          <6> QED
            BY <6>2, ScenarioAssumption
        <5> QED
          BY <4>1, <5>1, <5>2
      <4> HIDE DEF c
      <4>6. f[p].num = c
        BY <4>4 DEF Num, c
      <4> QED
        BY <4>5, <4>6
    <3> QED
      BY <3>1, <3>2
  <2>8. Loads(d) => Loads(f)
    BY <2>3, <2>5, <2>6, <2>7, NarrowLoads DEF IsPlain
  <2> QED
    BY <2>3, <2>5, <2>8
<1>2. CASE knob = "roi_enabled" /\ HasRoi(d)
  <2>1. DOMAIN f = {q \in DOMAIN d : ~IsPrefix(Roi, q)} /\ \A q \in DOMAIN f : f[q] = d[q]
    BY <1>2 DEF IsVariant
  <2>2. Valid(f)
    BY <2>1, WithoutRoiIsValid
  <2>3. Legacy(f) = {}
    BY <2>1, VariantHasNoOldKeys DEF IsPlain
  <2>4. InSelector(f)
    <3>1. SameAt(d, f, OtherPaths)
      BY <2>1, PathsApart DEF SameAt
    <3> QED
      BY <3>1, RestAgrees, SelectorsThere
  <2>5. Loads(d) => Loads(f)
    BY <2>1, <2>2, <2>3, <2>4, NarrowLoads DEF IsPlain
  <2> QED
    BY <2>2, <2>3, <2>5
<1> QED
  BY <1>1, <1>2

\* The files and rows of a generation that has ended.
LEMMA FilesAre ==
  ASSUME VariantInv, at = "generated", Valid(base), IsPlain(base)
  PROVE  /\ IsDocument(base)
         /\ \A knob \in Knobs : IsVariant(base, files[knob], knob)
         /\ DOMAIN manifest = 1 .. 5
         /\ \A i \in 1 .. 5 : manifest[i] = Entry(base, Playbook[i]) /\ Playbook[i] \in Knobs
<1>1. IsDocument(base)
  BY DocumentAssumption DEF VariantInv, IsDocument
<1>2. manifest = result /\ Len(result) = 5 /\ Generated(result) /\ result \in Seq(Told)
  BY DEF VariantInv, Experimenting
<1>3. \A i \in 1 .. 5 : /\ manifest[i] = Entry(base, Playbook[i])
                        /\ files[Playbook[i]] = Serialized(Variant(base, Playbook[i]))
  BY <1>2 DEF Generated
<1>4. DOMAIN manifest = 1 .. 5
  BY <1>2
<1>5. ASSUME NEW knob \in Knobs PROVE IsVariant(base, files[knob], knob)
  <2>1. PICK i \in 1 .. 5 : knob = Playbook[i]
    BY PlaybookKnobs
  <2>2. files[knob] = Serialized(Variant(base, knob))
    BY <1>3, <2>1
  <2> QED
    BY <1>1, <2>2, VariantIs
<1> QED
  BY <1>1, <1>3, <1>4, <1>5, PlaybookKnobs

\* Every variant of a valid document whose numbers are plain is a valid document, and loads
\* if the base does, whatever else the two have: the knobs of ApplyKnobMutation stay in the
\* ranges of ValidateScenarioObject, and write nothing else.
THEOREM VariantsAreValid == Spec => []VariantsStayValid
<1>1. VariantInv => VariantsStayValid
  <2> SUFFICES ASSUME VariantInv, at = "generated", Valid(base), IsPlain(base), NEW knob \in Knobs
               PROVE  Valid(files[knob]) /\ (Loads(base) => Loads(files[knob]))
    BY DEF VariantsStayValid
  <2> QED
    BY FilesAre, VariantIsValid
<1> QED
  BY <1>1, VariantsFollow, PTL

\* What a run uses where a document has no number for a knob: what the knob starts from.
LEMMA AbsentIsDefault ==
  ASSUME NEW d, Legacy(d) = {}, NEW path \in IntegerPaths, path \notin DOMAIN d,
         path = Fps => RequestedFps \notin DOMAIN d
  PROVE  Used(d, path) = SimDefault(path)
<1> DEFINE m == Model(d)
           set == {q \in DOMAIN m : m[q] \notin {Unset, Str("")}}
           roi == IF RoiPath(d) \in DOMAIN d THEN RoiFields ELSE {}
           planned == Planned(d)
<1>1. DOMAIN m = Keys /\ \A q \in Keys \ DOMAIN d : m[q] = Unset
  BY ModelOf
<1>2. IntegerPaths \subseteq Keys /\ RequestedFps \in Keys
  BY DEF IntegerPaths, IntegerKeys, NumberKeys, Keys, In, Reorder, DropPercent, Faults
<1>3. path \notin set
  BY <1>1, <1>2
<1>4. path \notin roi /\ path \notin WebcamKeys(d)
  <2>1. IntegerPaths \cap RoiFields = {}
    <3>1. \A p \in IntegerPaths : ~(Len(p) = 3 /\ p[2] = "roi")
      BY DEF IntegerPaths, Fps, Delay, Reorder, DropPercent
    <3> QED
      BY <3>1, KnobPathsAre
  <2> QED
    BY <2>1 DEF WebcamKeys
<1> HIDE DEF m
<1>5. /\ DOMAIN planned = set \cup roi \cup WebcamKeys(d) \cup {Fps, Reorder, DropPercent}
      /\ \A q \in DOMAIN planned :
           planned[q] = CASE q = Fps -> PlannedFps(m)
                          [] q = DurationMs -> AsSigned(m[q])
                          [] q \in set \ {Fps, DurationMs} -> m[q]
                          [] q \in roi -> d[Append(RoiPath(d), Last(q))]
                          [] q \in WebcamKeys(d) -> d[q]
                          [] OTHER -> SimDefault(q)
  BY DEF Planned, RoiFields, m
<1> HIDE DEF planned, set, roi
<1>6. Fps # DurationMs /\ path # DurationMs /\ Delay \notin {Fps, Reorder, DropPercent}
  BY DEF IntegerPaths, Fps, Delay, Reorder, DropPercent, DurationMs
<1>7. CASE path = Fps
  <2>1. planned[path] = PlannedFps(m) /\ path \in DOMAIN planned
    <3>1. Fps \notin set \ {Fps, DurationMs} /\ Fps \notin roi /\ Fps \notin WebcamKeys(d)
      BY <1>4, <1>7
    <3> QED
      BY <1>5, <1>6, <1>7, <3>1
  <2>2. m[Fps] = Unset /\ m[RequestedFps] = Unset
    BY <1>1, <1>2, <1>7 DEF m
  <2>3. PlannedFps(m) = SimDefault(Fps)
    BY <2>2 DEF PlannedFps
  <2> QED
    BY <1>7, <2>1, <2>3 DEF Used, planned
<1>8. CASE path \in {Reorder, DropPercent} /\ path # Fps
  <2>1. planned[path] = SimDefault(path) /\ path \in DOMAIN planned
    BY <1>3, <1>4, <1>5, <1>6, <1>8
  <2> QED
    BY <2>1 DEF Used, planned
<1>9. CASE path = Delay
  <2>1. path \notin DOMAIN planned
    BY <1>3, <1>4, <1>5, <1>6, <1>9
  <2>2. SimDefault(path) = Num(0)
    BY <1>6, <1>9 DEF SimDefault
  <2> QED
    BY <2>1, <2>2 DEF Used, planned
<1> QED
  BY <1>7, <1>8, <1>9 DEF IntegerPaths

\* A path is a beginning of itself, and so is what is above it.
LEMMA AboveIsPrefix ==
  ASSUME NEW S, NEW path \in Seq(S)
  PROVE  IsPrefix(path, path) /\ \A q \in AboveOf(path) : IsPrefix(q, path)
<1>1. ASSUME NEW i \in 1 .. Len(path) - 1 PROVE IsPrefix(SubSeq(path, 1, i), path)
  <2> DEFINE q == SubSeq(path, 1, i)
  <2>1. Len(q) = i /\ i <= Len(path)
    OBVIOUS
  <2>2. q \in Seq(S)
    OBVIOUS
  <2> HIDE DEF q
  <2>3. SubSeq(q, 1, Len(q)) = q
    BY <2>2
  <2>4. SubSeq(path, 1, Len(q)) = q
    BY <2>1 DEF q
  <2> QED
    BY <2>1, <2>3, <2>4 DEF IsPrefix, q
<1>2. IsPrefix(path, path)
  BY DEF IsPrefix
<1> QED
  BY <1>1, <1>2 DEF AboveOf

\* What was changed is not apart from the path of the knob.
LEMMA OnlyNearThePath ==
  ASSUME NEW d, IsDocument(d), NEW knob \in Knobs, NEW f, IsVariant(d, f, knob),
         NEW p \in DOMAIN d \cup DOMAIN f, Apart(p, PathOf(knob))
  PROVE  p \in DOMAIN d /\ p \in DOMAIN f /\ f[p] = d[p]
<1>1. CASE knob # "roi_enabled"
  <2> DEFINE path == PathOf(knob)
  <2>1. Differs(d, f, AboveOf(path) \cup {path}) /\ path \in IntegerPaths
    BY <1>1, PathsOfKnobs DEF IsVariant
  <2>2. path \in Seq(PathNames)
    BY <2>1, KnobPathsAre
  <2>3. p \notin AboveOf(path) \cup {path}
    BY <2>2, AboveIsPrefix DEF Apart
  <2> QED
    BY <2>1, <2>3 DEF Differs
<1>2. CASE knob = "roi_enabled" /\ ~HasRoi(d)
  <2>1. Differs(d, f, {Camera, Roi} \cup RoiFields) /\ PathOf(knob) = Roi
    BY <1>2, PathsOfKnobs DEF IsVariant
  <2>2. Roi \in Seq(PathNames) /\ AboveOf(Roi) = {Camera}
    BY DEF Roi, Camera, AboveOf, PathNames
  <2>3. \A q \in RoiFields : IsPrefix(Roi, q)
    BY KnobPathsAre, AboveIsPrefix
  <2>4. IsPrefix(Roi, Roi) /\ IsPrefix(Camera, Roi)
    BY <2>2, AboveIsPrefix
  <2>5. p \notin {Camera, Roi} \cup RoiFields
    BY <2>1, <2>3, <2>4 DEF Apart
  <2> QED
    BY <2>1, <2>5 DEF Differs
<1>3. CASE knob = "roi_enabled" /\ HasRoi(d)
  <2>1. /\ DOMAIN f = {q \in DOMAIN d : ~IsPrefix(Roi, q)} /\ \A q \in DOMAIN f : f[q] = d[q]
        /\ PathOf(knob) = Roi
    BY <1>3, PathsOfKnobs DEF IsVariant
  <2> QED
    BY <2>1 DEF Apart
<1> QED
  BY <1>1, <1>2, <1>3

\* An integer knob tells the value a run of the document uses and that of its variant.
LEMMA KnobTells ==
  ASSUME NEW d, IsDocument(d), Valid(d), IsPlain(d), NEW knob \in Knobs, knob # "roi_enabled",
         NEW f, IsVariant(d, f, knob), PathOf(knob) = Fps => RequestedFps \notin DOMAIN d
  PROVE  /\ Entry(d, knob).before = Used(d, PathOf(knob))
         /\ Entry(d, knob).after = Used(f, PathOf(knob))
         /\ Entry(d, knob).before = Entry(d, knob).after => Entry(d, knob).before \in {Num(1), Num(100)}
<1> DEFINE path == PathOf(knob)
           n == ReadInteger(d, path)
           c == Candidate(path, n)
<1>1. Entry(d, knob).before = Num(n) /\ Entry(d, knob).after = Num(c)
  BY DEF Entry
<1>2. path \in IntegerPaths
  BY PathsOfKnobs
<1>3. Differs(d, f, AboveOf(path) \cup {path}) /\ f[path] = Num(c)
  BY DEF IsVariant
<1> HIDE DEF path
<1>4. Moves(d, path, n, c)
  BY <1>2, IntegerKnob
<1> HIDE DEF n, c
<1>5. Num(n) = Used(d, path)
  <2>1. CASE path \in DOMAIN d
    <3>1. d[path] = Num(n)
      BY <1>4, <2>1 DEF Moves
    <3>2. path \in DOMAIN Planned(d) /\ Planned(d)[path] = d[path]
      BY <1>2, <2>1, ValidIsPlanned DEF IsPlain, IntegerPaths
    <3> QED
      BY <3>1, <3>2 DEF Used
  <2>2. CASE path \notin DOMAIN d
    <3>1. n = IF path = Fps THEN 30 ELSE 0
      BY <1>4, <2>2 DEF Moves
    <3>2. Used(d, path) = SimDefault(path)
      BY <1>2, <2>2, AbsentIsDefault DEF IsPlain, path
    <3>3. SimDefault(path) = Num(n)
      BY <3>1 DEF SimDefault
    <3> QED
      BY <3>2, <3>3
  <2> QED
    BY <2>1, <2>2
<1>6. Num(c) = Used(f, path)
  <2>1. Valid(f) /\ Legacy(f) = {}
    BY VariantIsValid
  <2>2. path \in DOMAIN f
    BY <1>3 DEF Differs
  <2>3. path \in DOMAIN Planned(f) /\ Planned(f)[path] = f[path]
    BY <1>2, <2>1, <2>2, ValidIsPlanned DEF IntegerPaths
  <2> QED
    BY <1>3, <2>3 DEF Used
<1>7. Num(n) = Num(c) => Num(n) \in {Num(1), Num(100)}
  <2>1. Num(n) = Num(c) => n = c
    <3>1. Num(n).num = n /\ Num(c).num = c
      BY DEF Num
    <3> QED
      BY <3>1
  <2>2. c = n => n \in {1, 100}
    BY <1>4 DEF Moves
  <2> QED
    BY <2>1, <2>2
<1> QED
  BY <1>1, <1>5, <1>6, <1>7 DEF path

\* The manifest tells what each file of a generation that succeeded is, for every base: the
\* two that write it, OaatVariantGenerator::Generate and ApplyKnobMutation, agree with the
\* loader of a run on the value a knob leads from and the one it leads to.
THEOREM ManifestIsTrue == Spec => []ManifestTellsVariants
<1>1. VariantInv => ManifestTellsVariants
  <2> SUFFICES ASSUME VariantInv, at = "generated", Valid(base), IsPlain(base), NEW i \in DOMAIN manifest
               PROVE  LET entry == manifest[i]
                          variant == files[entry.knob]
                          others == {p \in DOMAIN base \cup DOMAIN variant : Apart(p, entry.path)}
                      IN  /\ \A p \in others :
                               p \in DOMAIN base /\ p \in DOMAIN variant /\ variant[p] = base[p]
                          /\ (entry.path # Roi
                                /\ (entry.path = Fps => RequestedFps \notin DOMAIN base)) =>
                               /\ entry.before = Used(base, entry.path)
                               /\ entry.after = Used(variant, entry.path)
                               /\ entry.before = entry.after => entry.before \in {Num(1), Num(100)}
                          /\ entry.path = Roi => HasRoi(base) # HasRoi(variant)
    BY DEF ManifestTellsVariants
  <2> DEFINE knob == Playbook[i]
             variant == files[knob]
             entry == Entry(base, knob)
  <2>1. /\ IsDocument(base) /\ manifest[i] = entry /\ knob \in Knobs
        /\ IsVariant(base, variant, knob)
    BY FilesAre
  <2>2. entry.knob = knob /\ entry.path = PathOf(knob)
    BY DEF Entry
  <2>3. ASSUME NEW p \in DOMAIN base \cup DOMAIN variant, Apart(p, PathOf(knob))
        PROVE  p \in DOMAIN base /\ p \in DOMAIN variant /\ variant[p] = base[p]
    BY <2>1, <2>3, OnlyNearThePath
  <2>4. ASSUME PathOf(knob) # Roi, PathOf(knob) = Fps => RequestedFps \notin DOMAIN base
        PROVE  /\ entry.before = Used(base, PathOf(knob))
               /\ entry.after = Used(variant, PathOf(knob))
               /\ entry.before = entry.after => entry.before \in {Num(1), Num(100)}
    <3>1. knob # "roi_enabled"
      BY <2>1, <2>4, PathsOfKnobs
    <3> QED
      BY <2>1, <2>4, <3>1, KnobTells
  <2>5. ASSUME PathOf(knob) = Roi PROVE HasRoi(base) # HasRoi(variant)
    <3>1. knob = "roi_enabled"
      BY <2>1, <2>5, PathsOfKnobs
    <3>2. CASE HasRoi(base)
      <4>1. DOMAIN variant = {q \in DOMAIN base : ~IsPrefix(Roi, q)}
        BY <2>1, <3>1, <3>2 DEF IsVariant
      <4>2. IsPrefix(Roi, Roi)
        BY DEF IsPrefix
      <4>3. ~HasRoi(variant)
        BY <4>1, <4>2 DEF HasRoi
      <4> QED
        BY <3>2, <4>3
    <3>3. CASE ~HasRoi(base)
      <4>1. Roi \in DOMAIN variant
        BY <2>1, <3>1, <3>3 DEF IsVariant, Differs
      <4> QED
        BY <3>3, <4>1 DEF HasRoi
    <3> QED
      BY <3>2, <3>3
  <2> HIDE DEF knob, variant, entry
  <2>6. manifest[i].knob = knob /\ files[manifest[i].knob] = variant
    BY <2>1, <2>2 DEF variant
  <2> QED
    BY <2>1, <2>2, <2>3, <2>4, <2>5, <2>6
<1> QED
  BY <1>1, VariantsFollow, PTL

-----------------------------------------------------------------------------
(***************************************************************************)
(* Types                                                                   *)
(***************************************************************************)

AttemptInv ==
  /\ attempts \in Seq(Attempt)
  /\ \A i \in 1 .. Len(attempts) : attempts[i].sequence = i /\ attempts[i].run = i
  /\ at \in {"ran", "compared"} => trial.knob \in Knobs /\ trial.result \in Results

\* The attempts are numbered in order, and each tried a knob of the playbook.
LEMMA AttemptStep ==
  ASSUME VariantInv, AttemptInv, [Next]_vars
  PROVE  AttemptInv'
<1> USE DEF AttemptInv
<1>1. CASE StartGenerate \/ RefuseGenerate \/ WriteVariant \/ WriteManifest \/ WriteFails
             \/ EditBase
  BY <1>1 DEF StartGenerate, RefuseGenerate, WriteVariant, WriteManifest, WriteFails, EditBase,
              session
<1>2. CASE RunBaseline
  BY <1>2 DEF RunBaseline, session
<1>3. CASE RunVariant
  <2>1. PICK knob \in NextKnobs : \E exit \in Exits(files[knob]) :
          trial' = [knob |-> knob, result |-> ResultOf(exit)]
    BY <1>3 DEF RunVariant
  <2>2. knob \in Knobs
    BY PlaybookKnobs DEF NextKnobs
  <2>3. \A exit : ResultOf(exit) \in Results
    BY DEF ResultOf, Results
  <2>4. attempts' = attempts
    BY <1>3 DEF RunVariant
  <2> QED
    BY <2>1, <2>2, <2>3, <2>4
<1>4. CASE Compare
  BY <1>4 DEF Compare
<1>5. CASE Record
  <2> DEFINE n == Len(attempts)
             new == [sequence |-> n + 1, run |-> n + 1, knob |-> trial.knob,
                     result |-> trial.result]
  <2>1. attempts' = Append(attempts, new) /\ at = "compared" /\ at' = "recorded"
    BY <1>5 DEF Record
  <2>2. n \in Nat /\ new \in Attempt
    BY <2>1 DEF Attempt
  <2>3. /\ attempts' \in Seq(Attempt) /\ Len(attempts') = n + 1
        /\ \A i \in 1 .. n : attempts'[i] = attempts[i]
        /\ attempts'[n + 1] = new
    BY <2>1, <2>2, OneMore
  <2>4. \A i \in 1 .. n + 1 : attempts'[i].sequence = i /\ attempts'[i].run = i
    BY <2>2, <2>3
  <2> QED
    BY <2>1, <2>3, <2>4
<1>6. CASE Decide \/ WritePacket
  BY <1>6 DEF Decide, WritePacket
<1>7. CASE UNCHANGED vars
  BY <1>7 DEF vars
<1> QED
  BY <1>1, <1>2, <1>3, <1>4, <1>5, <1>6, <1>7 DEF Next

\* Variants and attempts
SessionInv == VariantInv /\ AttemptInv

LEMMA SessionIsKnown == Spec => []SessionInv
<1>1. Init => AttemptInv
  BY DEF Init, AttemptInv
<1>2. VariantInv /\ AttemptInv /\ [Next]_vars => AttemptInv'
  BY AttemptStep
<1> QED
  BY VariantsFollow, <1>1, <1>2, PTL DEF Spec, SessionInv

\* Every part of the state has its kind, the variants told so far are a beginning of the
\* playbook, and attempts are numbered in order.
THEOREM SessionTypeCorrect == Spec => []TypeOK
<1>1. VariantInv /\ AttemptInv => TypeOK
  <2> SUFFICES ASSUME VariantInv, AttemptInv PROVE TypeOK
    OBVIOUS
  <2>1. /\ DOMAIN result = 1 .. Len(result) /\ DOMAIN manifest = 1 .. Len(manifest)
        /\ DOMAIN attempts = 1 .. Len(attempts)
    BY DEF VariantInv, AttemptInv
  <2>2. \A i \in DOMAIN attempts : attempts[i] \in Attempt
    BY <2>1 DEF AttemptInv
  <2>3. /\ Len(result) <= Len(Playbook) /\ Len(manifest) <= Len(Playbook)
        /\ Len(manifest) \in {0, Len(Playbook)}
    BY PlaybookKnobs DEF VariantInv
  <2>4. \A entries \in {manifest, result} :
          /\ Len(entries) <= Len(Playbook)
          /\ \A i \in DOMAIN entries : entries[i].knob = Playbook[i]
    BY <2>1, <2>3 DEF VariantInv
  <2>5. \A i \in DOMAIN attempts : attempts[i].sequence = i /\ attempts[i].knob \in Knobs
                                     /\ attempts[i].result \in Results
    BY <2>1, <2>2 DEF AttemptInv, Attempt
  <2> QED
    BY <2>3, <2>4, <2>5 DEF VariantInv, TypeOK
<1> QED
  BY <1>1, SessionIsKnown, PTL DEF SessionInv

-----------------------------------------------------------------------------
(***************************************************************************)
(* The results table                                                       *)
(***************************************************************************)

\* Values that a knob leads from or to.
KnobValues ==
  {Entry(d, k).before : d \in Bases, k \in Knobs} \cup
  {Entry(d, k).after : d \in Bases, k \in Knobs}

TableRow ==
  [hypothesis : {PathOf(k) : k \in Knobs}, variable : {PathOf(k) : k \in Knobs},
   value : KnobValues, result : Results, run : Nat]

BaselineRow(suspect) ==
  [hypothesis |-> PathOf(suspect), variable |-> PathOf(suspect),
   value |-> EntryOf(suspect).before, result |-> "pass", run |-> BaselineRun]

AttemptRow(a) ==
  [hypothesis |-> PathOf(a.knob), variable |-> PathOf(a.knob), value |-> EntryOf(a.knob).after,
   result |-> a.result, run |-> a.run]

\* The manifest's row of a knob is found by its name.
LEMMA EntryFound ==
  ASSUME VariantInv, at \in Experimenting, NEW k \in Knobs
  PROVE  EntryOf(k) = Entry(base, k)
<1>1. DOMAIN result = 1 .. 5
  BY DEF VariantInv
<1>2. PICK i \in 1 .. 5 : k = Playbook[i]
  BY PlaybookKnobs
<1>3. /\ result[i] = Entry(base, k) /\ result[i].knob = k
      /\ \A j \in 1 .. 5 : result[j].knob = k => j = i
  <2>1. Len(result) = 5 /\ \A j \in 1 .. Len(result) : result[j].knob = Playbook[j]
    BY DEF VariantInv
  <2>2. result[i] = Entry(base, Playbook[i])
    BY <2>1 DEF VariantInv, Generated
  <2>3. \A j \in 1 .. 5 : Playbook[j] = k => j = i
    BY <1>2, PlaybookKnobs
  <2> QED
    BY <1>2, <2>1, <2>2, <2>3
<1>4. result[i] \in ToSet(result) /\ \A e \in ToSet(result) : e.knob = k => e = result[i]
  BY <1>1, <1>3 DEF ToSet
<1> QED
  BY <1>3, <1>4 DEF EntryOf

\* The table has the baseline first, then the attempts.
LEMMA TableRows ==
  ASSUME SessionInv, at \in Experimenting, NEW suspect \in Knobs
  PROVE  /\ Table(suspect) \in Seq(TableRow)
         /\ DOMAIN Table(suspect) = 1 .. Len(attempts) + 1
         /\ Len(Table(suspect)) = Len(attempts) + 1
         /\ Table(suspect)[1] = BaselineRow(suspect)
         /\ \A i \in 1 .. Len(attempts) : Table(suspect)[i + 1] = AttemptRow(attempts[i])
<1> DEFINE first == <<BaselineRow(suspect)>>
           rest == [i \in DOMAIN attempts |-> AttemptRow(attempts[i])]
           n == Len(attempts)
<1>1. n \in Nat /\ DOMAIN attempts = 1 .. n /\ \A i \in 1 .. n : attempts[i] \in Attempt
  BY DEF SessionInv, AttemptInv
<1>2. \A k \in Knobs : /\ PathOf(k) \in {PathOf(l) : l \in Knobs}
                       /\ EntryOf(k).before \in KnobValues /\ EntryOf(k).after \in KnobValues
  <2> SUFFICES ASSUME NEW k \in Knobs
               PROVE  EntryOf(k).before \in KnobValues /\ EntryOf(k).after \in KnobValues
    OBVIOUS
  <2>1. EntryOf(k) = Entry(base, k) /\ base \in Bases
    BY EntryFound DEF SessionInv, VariantInv
  <2> QED
    BY <2>1 DEF KnobValues
<1>3. BaselineRow(suspect) \in TableRow
  BY <1>2, SessionAssumption DEF BaselineRow, TableRow, Results, BaselineRun
<1>4. \A i \in 1 .. n : AttemptRow(attempts[i]) \in TableRow
  BY <1>1, <1>2 DEF AttemptRow, TableRow, Attempt
<1>5. first \in Seq(TableRow) /\ Len(first) = 1 /\ first[1] = BaselineRow(suspect)
  BY <1>3
<1>6. rest \in Seq(TableRow) /\ Len(rest) = n
  BY <1>1, <1>4
<1>7. Table(suspect) = first \o rest
  BY DEF Table, BaselineRow, AttemptRow
<1>8. \A i \in 1 .. n : rest[i] = AttemptRow(attempts[i])
  BY <1>1
<1> HIDE DEF first, rest, n
<1>9. /\ first \o rest \in Seq(TableRow) /\ Len(first \o rest) = 1 + n
      /\ \A i \in 1 .. 1 + n : (first \o rest)[i] = IF i <= 1 THEN first[i] ELSE rest[i - 1]
  <2>1. /\ first \o rest \in Seq(TableRow)
        /\ Len(first \o rest) = Len(first) + Len(rest)
        /\ \A i \in 1 .. Len(first) + Len(rest) :
             (first \o rest)[i] = IF i <= Len(first) THEN first[i] ELSE rest[i - Len(first)]
    BY <1>5, <1>6, ConcatProperties
  <2> QED
    BY <1>5, <1>6, <2>1
<1>10. (first \o rest)[1] = BaselineRow(suspect)
  BY <1>1, <1>5, <1>9
<1>11. \A i \in 1 .. n : (first \o rest)[i + 1] = AttemptRow(attempts[i])
  <2> SUFFICES ASSUME NEW i \in 1 .. n PROVE (first \o rest)[i + 1] = AttemptRow(attempts[i])
    OBVIOUS
  <2>1. n \in Nat /\ i \in Nat
    BY <1>1 DEF n
  <2>2. i + 1 \in 1 .. 1 + n /\ ~(i + 1 <= 1) /\ (i + 1) - 1 = i
    BY <2>1
  <2> QED
    BY <1>8, <1>9, <2>2
<1>12. DOMAIN (first \o rest) = 1 .. n + 1
  BY <1>1, <1>9
<1> QED
  BY <1>1, <1>7, <1>9, <1>10, <1>11, <1>12 DEF n

-----------------------------------------------------------------------------
(***************************************************************************)
(* Stops                                                                   *)
(***************************************************************************)

\* Names and values have places in the order of texts.
HasTexts(table) ==
  \A row \in Rows(table) : NamePosition(row.variable) \in Nat /\ ValuePosition(row.value) \in Nat

\* The sorted maps of the code begin with one of their keys.
LEMMA FirstOfTexts ==
  ASSUME NEW S, S # {}
  PROVE  /\ (\A v \in S : ValuePosition(v) \in Nat) => FirstValue(S) \in S
         /\ (\A v \in S : NamePosition(v) \in Nat) => FirstName(S) \in S
<1>1. ASSUME \A v \in S : ValuePosition(v) \in Nat PROVE FirstValue(S) \in S
  <2>1. PICK m \in {ValuePosition(v) : v \in S} : \A n \in {ValuePosition(v) : v \in S} : m <= n
    BY <1>1, LeastNumber
  <2> QED
    BY <2>1 DEF FirstValue
<1>2. ASSUME \A v \in S : NamePosition(v) \in Nat PROVE FirstName(S) \in S
  <2>1. PICK m \in {NamePosition(v) : v \in S} : \A n \in {NamePosition(v) : v \in S} : m <= n
    BY <1>2, LeastNumber
  <2> QED
    BY <2>1 DEF FirstName
<1> QED
  BY <1>1, <1>2

\* A variable that failed at one value and passed at another one.
Flips(table, v) ==
  \E x \in ValuesWith(table, v, "fail"), y \in ValuesWith(table, v, "pass") : x # y

\* A variable all of whose failing values are apart from its passing ones.
Parts(table, v) ==
  /\ ValuesWith(table, v, "fail") # {} /\ ValuesWith(table, v, "pass") # {}
  /\ ValuesWith(table, v, "fail") \cap ValuesWith(table, v, "pass") = {}

\* The search, which looks at first values only, invents no flip, and finds every variable
\* that parts.
LEMMA SearchIsRight ==
  ASSUME NEW table, HasTexts(table), NEW v
  PROVE  /\ IsFlip(table, v) => Flips(table, v)
         /\ Parts(table, v) => IsFlip(table, v)
<1> DEFINE F == ValuesWith(table, v, "fail")
           P == ValuesWith(table, v, "pass")
<1>1. \A x \in F \cup P : ValuePosition(x) \in Nat
  BY DEF HasTexts, ValuesWith
<1>2. F # {} /\ P # {} => FirstValue(F) \in F /\ FirstValue(P) \in P
  <2> HIDE DEF F, P
  <2> QED
    BY <1>1, FirstOfTexts
<1> QED
  BY <1>2 DEF IsFlip, Flips, Parts

\* A window that has failures has a failing row.
LEMMA FailuresAreRows ==
  ASSUME NEW S, NEW table \in Seq(S), NEW recent \in SUBSET DOMAIN table, Failures(recent, table) # 0
  PROVE  \E row \in Rows(table) : row.result = "fail"
<1>1. {i \in recent : table[i].result = "fail"} # {}
  BY FS_EmptySet DEF Failures
<1> QED
  BY <1>1 DEF Rows

LEMMA PositiveProduct ==
  ASSUME NEW m \in Nat \ {0}, NEW n \in Nat \ {0}
  PROVE  m * n \in Nat /\ m * n > 0
  OBVIOUS

\* What a decision says of the table it was made from.
Justified(d, config, table) ==
  /\ d.reason = "single_variable_flip" => Flips(table, d.variable)
  /\ d.reason = "stable_repro_rate" /\ config.rate > 0 =>
       \E row \in Rows(table) : row.result = "fail"
  /\ d.reason \notin {"refused", "single_variable_flip", "max_runs"} =>
       \A row \in Rows(table) : ~Parts(table, row.variable)

\* EvaluateStopConditions names a variable that flipped, finds a stable reproduction only
\* where something failed, and gives another reason, or goes on, only if no variable parts,
\* whatever the results and however often they repeat.
LEMMA EvaluationIsJustified ==
  ASSUME NEW config, config.window \in Nat, NEW S, NEW table \in Seq(S), HasTexts(table),
         NEW confidence
  PROVE  Justified(Evaluate(config, table, confidence), config, table)
<1> DEFINE d == Evaluate(config, table, confidence)
           flip == [reason |-> "single_variable_flip", variable |-> FirstName(Flipped(table))]
           recent == Recent(config, table)
<1>1. CASE ~ConfigIsValid(config) \/ confidence \notin 0 .. 100
  <2>1. d = Refused
    BY <1>1 DEF Evaluate
  <2> QED
    BY <2>1 DEF Refused, Justified
<1>2. CASE ~(~ConfigIsValid(config) \/ confidence \notin 0 .. 100)
  <2>1. CASE Len(table) >= config.maxRuns
    <3>1. d = Stop("max_runs")
      BY <1>2, <2>1 DEF Evaluate
    <3> QED
      BY <3>1 DEF Stop, Justified
  <2>2. CASE ~(Len(table) >= config.maxRuns) /\ Flipped(table) # {}
    <3>1. d = flip
      BY <1>2, <2>2 DEF Evaluate
    <3>2. \A v \in Flipped(table) : NamePosition(v) \in Nat
      BY DEF Flipped, HasTexts
    <3>3. FirstName(Flipped(table)) \in Flipped(table)
      BY <2>2, <3>2, FirstOfTexts
    <3>4. Flips(table, FirstName(Flipped(table)))
      BY <3>3, SearchIsRight DEF Flipped
    <3> QED
      BY <3>1, <3>4 DEF Justified
  <2>3. CASE ~(Len(table) >= config.maxRuns) /\ Flipped(table) = {}
    <3>1. /\ d \in {Stop("confidence_threshold"), Stop("stable_repro_rate"), Stop("continue")}
          /\ d.reason = "stable_repro_rate" =>
               100 * Failures(recent, table) >= config.rate * config.window
      BY <1>2, <2>3 DEF Evaluate, Stop
    <3>2. \A row \in Rows(table) : ~Parts(table, row.variable)
      BY <2>3, SearchIsRight DEF Flipped
    <3>3. ASSUME d.reason = "stable_repro_rate", config.rate > 0
          PROVE  \E row \in Rows(table) : row.result = "fail"
      <4>1. recent \subseteq DOMAIN table
        BY DEF Recent
      <4>2. config.rate \in 1 .. 100 /\ config.window \in Nat \ {0}
        BY <1>2, <3>3 DEF ConfigIsValid
      <4>3. config.rate * config.window \in Nat /\ config.rate * config.window > 0
        <5> DEFINE m == config.rate
                   n == config.window
        <5>1. m \in 1 .. 100 /\ n \in Nat \ {0}
          BY <4>2 DEF m, n
        <5> HIDE DEF m, n
        <5>2. m * n \in Nat /\ m * n > 0
          <6>1. m \in Nat \ {0}
            BY <5>1
          <6> QED
            BY <5>1, <6>1, PositiveProduct
        <5> QED
          BY <5>2 DEF m, n
      <4>4. 100 * Failures(recent, table) >= config.rate * config.window
        BY <3>1, <3>3
      <4>5. Failures(recent, table) # 0
        <5> DEFINE p == config.rate * config.window
        <5>1. p \in Nat /\ p > 0 /\ 100 * Failures(recent, table) >= p
          BY <4>3, <4>4
        <5> HIDE DEF p
        <5> QED
          BY <5>1
      <4> QED
        BY <4>1, <4>5, FailuresAreRows
    <3> QED
      BY <3>1, <3>2, <3>3 DEF Justified, Stop
  <2> QED
    BY <2>1, <2>2, <2>3
<1> QED
  BY <1>1, <1>2

\* The decision in hand is the one that the results in hand call for.
DecisionInv ==
  at \in {"decided", "done"} =>
    /\ asked.suspect \in Knobs /\ asked.config \in Configs
    /\ decision.reason # "refused"
    /\ decision = Evaluate(asked.config, Table(asked.suspect), asked.config.confidence)

LEMMA DecisionStep ==
  ASSUME DecisionInv, [Next]_vars
  PROVE  DecisionInv'
<1> SUFFICES ASSUME at' \in {"decided", "done"} PROVE DecisionInv'
  BY DEF DecisionInv
<1>1. CASE Decide
  <2>1. PICK suspect \in Knobs, config \in Configs :
          /\ asked' = [suspect |-> suspect, config |-> config]
          /\ decision' = Evaluate(config, Table(suspect), config.confidence)
    BY <1>1 DEF Decide
  <2>2. Table(asked.suspect)' = Table(suspect)
    BY <1>1, <2>1 DEF Decide, Table, EntryOf
  <2>3. decision'.reason # "refused"
    BY <1>1 DEF Decide
  <2> QED
    BY <2>1, <2>2, <2>3 DEF DecisionInv
<1>2. CASE WritePacket \/ UNCHANGED vars
  <2>1. UNCHANGED <<result, attempts, asked, decision>> /\ at \in {"decided", "done"}
    BY <1>2 DEF WritePacket, vars
  <2>2. Table(asked.suspect)' = Table(asked.suspect)
    BY <2>1 DEF Table, EntryOf
  <2> QED
    BY <2>1, <2>2 DEF DecisionInv
<1>3. ~(StartGenerate \/ RefuseGenerate \/ WriteVariant \/ WriteManifest \/ WriteFails
          \/ EditBase \/ RunBaseline \/ RunVariant \/ Compare \/ Record)
  BY DEF StartGenerate, RefuseGenerate, WriteVariant, WriteManifest, WriteFails, EditBase,
         RunBaseline, RunVariant, Compare, Record
<1> QED
  BY <1>1, <1>2, <1>3 DEF Next

LEMMA DecisionsAreKnown == Spec => []DecisionInv
<1>1. Init => DecisionInv
  BY DEF Init, DecisionInv
<1> QED
  BY <1>1, DecisionStep, PTL DEF Spec

\* The results in hand have texts.
LEMMA TableHasTexts ==
  ASSUME SessionInv, at \in Experimenting, NEW suspect \in Knobs
  PROVE  HasTexts(Table(suspect))
<1>1. \A row \in TableRow : NamePosition(row.variable) \in Nat /\ ValuePosition(row.value) \in Nat
  BY TextAssumption DEF TableRow, KnobValues
<1>2. \A row \in Rows(Table(suspect)) : row \in TableRow
  BY TableRows DEF Rows
<1> QED
  BY <1>1, <1>2 DEF HasTexts

\* The agent stops for a reason that its results bear out, and passes over no variable that
\* parts, in every session, however many experiments, repetitions and contradictory results
\* it has (EvaluateStopConditions, stop_conditions.cpp).
THEOREM StopsAreJustified == Spec => []StopIsJustified
<1>1. SessionInv /\ DecisionInv => StopIsJustified
  <2> SUFFICES ASSUME SessionInv, DecisionInv, at \in {"decided", "done"}
               PROVE  StopIsJustified
    BY DEF StopIsJustified
  <2> DEFINE table == Table(asked.suspect)
  <2>1. asked.suspect \in Knobs /\ asked.config.window \in Nat /\ at \in Experimenting
    BY InputAssumption DEF DecisionInv, Experimenting
  <2>2. table \in Seq(TableRow) /\ HasTexts(table)
    BY <2>1, TableRows, TableHasTexts
  <2>3. decision = Evaluate(asked.config, table, asked.config.confidence)
          /\ decision.reason # "refused"
    BY DEF DecisionInv
  <2> HIDE DEF table
  <2>4. Justified(decision, asked.config, table)
    BY <2>1, <2>2, <2>3, EvaluationIsJustified
  <2> QED
    BY <2>3, <2>4 DEF Justified, Flips, Parts, StopIsJustified, table
<1> QED
  BY <1>1, SessionIsKnown, DecisionsAreKnown, PTL

-----------------------------------------------------------------------------
(***************************************************************************)
(* Packets                                                                 *)
(***************************************************************************)

Hypotheses == {PathOf(k) : k \in Knobs}

\* A packet sums up the experiments that led to the decision.
PacketInv ==
  at = "done" =>
    /\ decision.reason # "continue"
    /\ packet = Packet(Hypotheses, Table(asked.suspect), attempts, Evidence)

LEMMA PacketStep ==
  ASSUME PacketInv, [Next]_vars
  PROVE  PacketInv'
<1> SUFFICES ASSUME at' = "done" PROVE PacketInv'
  BY DEF PacketInv
<1>1. CASE WritePacket
  <2>1. UNCHANGED <<result, attempts, asked, decision>>
    BY <1>1 DEF WritePacket
  <2>2. Table(asked.suspect)' = Table(asked.suspect) /\ Evidence' = Evidence
    BY <2>1 DEF Table, EntryOf, Evidence
  <2>3. packet' = Packet(Hypotheses, Table(asked.suspect), attempts, Evidence)
          /\ decision.reason # "continue"
    BY <1>1 DEF WritePacket, Hypotheses
  <2> QED
    BY <2>1, <2>2, <2>3 DEF PacketInv
<1>2. CASE UNCHANGED vars
  <2>1. UNCHANGED <<result, attempts, asked, decision, packet, at>>
    BY <1>2 DEF vars
  <2>2. Table(asked.suspect)' = Table(asked.suspect) /\ Evidence' = Evidence
    BY <2>1 DEF Table, EntryOf, Evidence
  <2> QED
    BY <2>1, <2>2 DEF PacketInv
<1>3. ~(StartGenerate \/ RefuseGenerate \/ WriteVariant \/ WriteManifest \/ WriteFails
          \/ EditBase \/ RunBaseline \/ RunVariant \/ Compare \/ Record \/ Decide)
  BY DEF StartGenerate, RefuseGenerate, WriteVariant, WriteManifest, WriteFails, EditBase,
         RunBaseline, RunVariant, Compare, Record, Decide
<1> QED
  BY <1>1, <1>2, <1>3 DEF Next

LEMMA PacketsAreKnown == Spec => []PacketInv
<1>1. Init => PacketInv
  BY DEF Init, PacketInv
<1> QED
  BY <1>1, PacketStep, PTL DEF Spec

\* Different knobs have different paths.
LEMMA PathsDiffer ==
  ASSUME NEW k \in Knobs, NEW l \in Knobs, PathOf(k) = PathOf(l)
  PROVE  k = l
  BY TextAssumption

\* The number of rows of a hypothesis with a result.
LEMMA CountOfRows ==
  ASSUME NEW S, NEW table \in Seq(S), NEW h, NEW r
  PROVE  /\ CountOf(table, h, r) \in Nat
         /\ CountOf(table, h, r) = 0 <=>
              \A i \in DOMAIN table : ~(table[i].hypothesis = h /\ table[i].result = r)
         /\ (\A i \in DOMAIN table : table[i].hypothesis = h /\ table[i].result = r => i = 1) =>
              CountOf(table, h, r) <= 1
<1> DEFINE n == Len(table)
           places == {i \in DOMAIN table : table[i].hypothesis = h /\ table[i].result = r}
<1>1. n \in Nat /\ DOMAIN table = 1 .. n
  OBVIOUS
<1>2. places \in SUBSET (1 .. n)
  BY <1>1
<1>3. IsFiniteSet(1 .. n)
  <2>1. 1 \in Int /\ n \in Int
    BY <1>1
  <2> HIDE DEF n
  <2> QED
    BY <2>1, FS_Interval
<1>4. IsFiniteSet(places)
  BY <1>2, <1>3, FS_Subset
<1>5. CountOf(table, h, r) = Cardinality(places)
  BY DEF CountOf
<1>6. Cardinality(places) \in Nat /\ (Cardinality(places) = 0 <=> places = {})
  BY <1>4, FS_CardinalityType, FS_EmptySet
<1>7. places \subseteq {1} => Cardinality(places) <= 1
  <2>1. IsFiniteSet({1}) /\ Cardinality({1}) = 1
    BY FS_Singleton
  <2> HIDE DEF places
  <2> QED
    BY <2>1, FS_Subset
<1> QED
  BY <1>5, <1>6, <1>7

\* RankHypotheses compares in a strict total order: no two hypotheses are equal in it, so
\* that each has a place of its own, higher with a better rank.
LEMMA RankedProperties ==
  ASSUME NEW S, NEW table \in Seq(S)
  PROVE  LET ranked == Ranked(Hypotheses, table)
         IN  /\ \A k \in Knobs : \E i \in DOMAIN ranked : ranked[i].hypothesis = PathOf(k)
             /\ \A i \in DOMAIN ranked :
                  i \in Nat /\ ranked[i] = Rank(table, ranked[i].hypothesis)
             /\ \A i, j \in DOMAIN ranked : Above(ranked[i], ranked[j]) => i < j
<1> DEFINE ranks == {Rank(table, h) : h \in Hypotheses}
           R == {p \in ranks \X ranks : Above(p[1], p[2])}
           f == [i \in 1 .. 5 |-> Rank(table, PathOf(Playbook[i]))]
           ranked == Arranged(ranks, R)
<1>1. IsFiniteSet(ranks)
  <2>1. IsFiniteSet(1 .. 5)
    <3>1. 1 \in Int /\ 5 \in Int
      OBVIOUS
    <3> QED
      BY <3>1, FS_Interval
  <2>2. ranks = {f[i] : i \in 1 .. 5}
    BY PlaybookKnobs DEF Hypotheses
  <2> HIDE DEF f
  <2> QED
    BY <2>1, <2>2, ImageFinite
<1>2. \A a \in ranks : /\ a.score \in Int /\ a.support \in Int /\ a.contradiction \in Int
                       /\ NamePosition(a.hypothesis) \in Nat /\ a.hypothesis \in Hypotheses
                       /\ a = Rank(table, a.hypothesis)
  <2> SUFFICES ASSUME NEW h \in Hypotheses
               PROVE  LET a == Rank(table, h)
                      IN  /\ a.score \in Int /\ a.support \in Int /\ a.contradiction \in Int
                          /\ NamePosition(a.hypothesis) \in Nat /\ a.hypothesis = h
    OBVIOUS
  <2>1. CountOf(table, h, "fail") \in Nat /\ CountOf(table, h, "pass") \in Nat
    BY CountOfRows
  <2>2. NamePosition(h) \in Nat
    BY TextAssumption DEF Hypotheses
  <2> QED
    BY <2>1, <2>2 DEF Rank
<1>3. \A a, b \in ranks : NamePosition(a.hypothesis) = NamePosition(b.hypothesis) => a = b
  BY <1>2, TextAssumption DEF Hypotheses
<1>4. \A a, b \in ranks : <<a, b>> \in R <=> Above(a, b)
  OBVIOUS
<1> HIDE DEF ranks, R
<1>5. Orders(R, ranks)
  <2>1. \A a \in ranks : ~Above(a, a)
    BY <1>2 DEF Above
  <2>2. \A a, b, c \in ranks : Above(a, b) /\ Above(b, c) => Above(a, c)
    BY <1>2 DEF Above
  <2>3. \A a, b \in ranks : a # b => Above(a, b) \/ Above(b, a)
    BY <1>2, <1>3 DEF Above
  <2> QED
    BY <1>4, <2>1, <2>2, <2>3 DEF Orders
<1> DEFINE n == Cardinality(ranks)
<1>6. /\ ranked \in Seq(ranks) /\ DOMAIN ranked = 1 .. n /\ Len(ranked) = n
      /\ \A i, j \in 1 .. n : i < j <=> <<ranked[i], ranked[j]>> \in R
      /\ \A a \in ranks : \E i \in 1 .. n : ranked[i] = a
  BY <1>1, <1>5, ArrangedProperties
<1>7. n \in Nat
  BY <1>1, FS_CardinalityType
<1> HIDE DEF ranked, n
<1>8. \A i \in 1 .. n : ranked[i] \in ranks
  BY <1>6, <1>7
<1>9. \A k \in Knobs :
        Rank(table, PathOf(k)) \in ranks /\ Rank(table, PathOf(k)).hypothesis = PathOf(k)
  BY DEF ranks, Hypotheses, Rank
<1>10. Ranked(Hypotheses, table) = ranked
  BY DEF Ranked, ranked, ranks, R
<1>11. \A k \in Knobs : \E i \in 1 .. n : ranked[i].hypothesis = PathOf(k)
  BY <1>6, <1>9
<1>12. \A i \in 1 .. n : i \in Nat /\ ranked[i] = Rank(table, ranked[i].hypothesis)
  BY <1>2, <1>7, <1>8
<1>13. \A i, j \in 1 .. n : Above(ranked[i], ranked[j]) => i < j
  BY <1>4, <1>6, <1>8
<1> QED
  BY <1>6, <1>10, <1>11, <1>12, <1>13

\* What WriteRuledOut lists are attempts that passed.
LEMMA RuledOutPassed ==
  ASSUME NEW S, NEW s \in Seq(S), \A i \in 1 .. Len(s) : s[i].sequence = i /\ s[i].run = i,
         NEW j \in DOMAIN RuledOut(s)
  PROVE  \E i \in 1 .. Len(s) : RuledOut(s)[j] = s[i] /\ s[i].result = "pass"
<1> DEFINE n == Len(s)
           D == 1 .. n
           R == {p \in D \X D : Earlier(s, p[1], p[2])}
           order == Arranged(D, R)
           tried == [i \in D |-> s[order[i]]]
           K == {i \in D : tried[i].result = "pass"}
<1>1. n \in Nat /\ DOMAIN s = D
  OBVIOUS
<1>2. IsFiniteSet(D) /\ Cardinality(D) = n
  <2>1. 1 \in Int /\ n \in Int
    BY <1>1
  <2> HIDE DEF n
  <2> QED
    BY <1>1, <2>1, FS_Interval
<1>3. \A a, b \in D : <<a, b>> \in R <=> a < b
  <2> SUFFICES ASSUME NEW a \in D, NEW b \in D PROVE Earlier(s, a, b) <=> a < b
    OBVIOUS
  <2>1. /\ s[a].sequence = a /\ s[b].sequence = b /\ s[a].run = a /\ s[b].run = b
        /\ a \in Nat /\ b \in Nat
    BY <1>1
  <2> QED
    BY <2>1 DEF Earlier
<1>4. RuledOut(s) = Kept(tried, K)
  BY <1>1 DEF RuledOut, SortedAttempts
<1>5. \A a \in D : a \in Nat
  BY <1>1
<1> HIDE DEF R, D
<1>6. Orders(R, D)
  BY <1>3, <1>5 DEF Orders
<1>7. order \in Seq(D) /\ DOMAIN order = 1 .. n
  BY <1>2, <1>6, ArrangedProperties
<1> HIDE DEF order
<1>8. \A i \in D : order[i] \in D
  BY <1>7 DEF D
<1>9. tried \in Seq(S) /\ DOMAIN tried = D
  <2>1. \A i \in D : s[i] \in S
    BY <1>1
  <2> QED
    BY <1>1, <1>8, <2>1 DEF D
<1>10. /\ DOMAIN Kept(tried, K) = 1 .. Cardinality(K)
       /\ \A i \in 1 .. Cardinality(K) : \E m \in K : Kept(tried, K)[i] = tried[m]
  <2>1. K \subseteq DOMAIN tried
    BY <1>9
  <2> HIDE DEF tried, K
  <2> QED
    BY <1>9, <2>1, KeptProperties
<1>11. PICK m \in K : RuledOut(s)[j] = tried[m]
  <2> HIDE DEF tried, K
  <2> QED
    BY <1>4, <1>10
<1>12. order[m] \in D /\ RuledOut(s)[j] = s[order[m]] /\ s[order[m]].result = "pass"
  BY <1>8, <1>11
<1> QED
  BY <1>12 DEF D

\* What the packet says of the runs.
LEMMA EvidenceRuns ==
  ASSUME SessionInv, NEW j \in 1 .. Len(attempts)
  PROVE  j \in DOMAIN EvidenceMap(Evidence)
<1> DEFINE first == <<[run |-> BaselineRun, diff |-> FALSE]>>
           rest == [i \in DOMAIN attempts |->
                      [run |-> attempts[i].run, diff |-> attempts[i].result # "inconclusive"]]
           n == Len(attempts)
           T == [run : Nat, diff : BOOLEAN]
<1>1. n \in Nat /\ DOMAIN attempts = 1 .. n /\ \A i \in 1 .. n : attempts[i] \in Attempt
  BY DEF SessionInv, AttemptInv
<1>2. first \in Seq(T) /\ Len(first) = 1
  BY SessionAssumption DEF BaselineRun
<1>3. rest \in Seq(T) /\ Len(rest) = n /\ rest[j].run = j
  <2>1. \A i \in 1 .. n : attempts[i].run \in Nat
    BY <1>1 DEF Attempt
  <2>2. attempts[j].run = j
    BY DEF SessionInv, AttemptInv
  <2> QED
    BY <1>1, <2>1, <2>2
<1>4. Evidence = first \o rest
  BY DEF Evidence
<1>5. n \in Nat /\ j \in 1 .. n
  BY <1>1
<1> HIDE DEF first, rest, T, n
<1>6. /\ DOMAIN (first \o rest) = 1 .. n + 1
      /\ (first \o rest)[j + 1] = rest[j]
  <2>1. /\ first \o rest \in Seq(T) /\ Len(first \o rest) = Len(first) + Len(rest)
        /\ \A i \in 1 .. Len(first) + Len(rest) :
             (first \o rest)[i] = IF i <= Len(first) THEN first[i] ELSE rest[i - Len(first)]
    BY <1>2, <1>3, ConcatProperties
  <2>2. j + 1 \in 1 .. 1 + n /\ ~(j + 1 <= 1) /\ (j + 1) - 1 = j
    BY <1>5
  <2> QED
    BY <1>2, <1>3, <1>5, <2>1, <2>2
<1>7. j \in {item.run : item \in Rows(Evidence)} /\ j # NoRun
  <2>1. j + 1 \in 1 .. n + 1
    BY <1>5
  <2>2. (first \o rest)[j + 1].run = j
    BY <1>3, <1>6
  <2>3. Evidence[j + 1] \in Rows(Evidence) /\ Evidence[j + 1].run = j
    BY <1>4, <1>6, <2>1, <2>2 DEF Rows
  <2> QED
    BY <1>5, <2>3 DEF NoRun
<1> QED
  BY <1>7 DEF EvidenceMap

\* The packet says of the variable that flipped what the decision says, in every session:
\* whatever its other hypotheses counted, however often it was tried (WriteRankedHypotheses,
\* WriteRuledOut and BuildEvidenceMap, engineer_packet_writer.cpp).
THEOREM IsolatedVariablesLead == Spec => []IsolatedRanksFirst
<1>1. SessionInv /\ DecisionInv /\ PacketInv => IsolatedRanksFirst
  <2> SUFFICES ASSUME SessionInv, DecisionInv, PacketInv, at = "done",
                      decision.reason = "single_variable_flip"
               PROVE  IsolatedRanksFirst
    BY DEF IsolatedRanksFirst
  <2> DEFINE suspect == asked.suspect
             table == Table(suspect)
             n == Len(attempts)
             path == decision.variable
             knob == CHOOSE k \in Knobs : PathOf(k) = path
             ranked == packet.ranked
             place(k) == CHOOSE i \in DOMAIN ranked : ranked[i].hypothesis = PathOf(k)
  <2>1. suspect \in Knobs /\ asked.config.window \in Nat /\ at \in Experimenting
    BY InputAssumption DEF DecisionInv, Experimenting
  <2>2. /\ table \in Seq(TableRow) /\ DOMAIN table = 1 .. n + 1
        /\ table[1] = BaselineRow(suspect)
        /\ \A i \in 1 .. n : table[i + 1] = AttemptRow(attempts[i])
    BY <2>1, TableRows
  <2>3. /\ n \in Nat /\ DOMAIN attempts = 1 .. n /\ attempts \in Seq(Attempt)
        /\ \A i \in 1 .. n : /\ attempts[i].sequence = i /\ attempts[i].run = i
                             /\ attempts[i].knob \in Knobs
    <3>1. \A i \in 1 .. n : attempts[i] \in Attempt
      BY DEF SessionInv, AttemptInv
    <3> QED
      BY <3>1 DEF SessionInv, AttemptInv, Attempt
  <2>4. /\ packet.ruledOut = RuledOut(attempts)
        /\ packet.ranked = Ranked(Hypotheses, table)
        /\ packet.linked =
             [h \in Hypotheses |-> Cited(table, h) \cap DOMAIN EvidenceMap(Evidence)]
    BY DEF PacketInv, Packet
  <2>5. Flips(table, path)
    <3>1. HasTexts(table)
      BY <2>1, TableHasTexts
    <3>2. decision = Evaluate(asked.config, table, asked.config.confidence)
      BY DEF DecisionInv
    <3> HIDE DEF table
    <3>3. Justified(decision, asked.config, table)
      BY <2>1, <2>2, <3>1, <3>2, EvaluationIsJustified
    <3> QED
      BY <3>3 DEF Justified
  <2> HIDE DEF table
  <2>6. PICK row \in Rows(table) : row.variable = path /\ row.result = "fail"
    BY <2>5 DEF Flips, ValuesWith
  <2>7. PICK place0 \in 1 .. n + 1 : row = table[place0]
    BY <2>2 DEF Rows
  <2>8. place0 # 1
    BY <2>2, <2>6, <2>7 DEF BaselineRow
  <2> DEFINE j == place0 - 1
  <2>9. j \in 1 .. n /\ j + 1 = place0
    BY <2>3, <2>8
  <2> HIDE DEF j, n
  <2>10. /\ attempts[j].result = "fail" /\ PathOf(attempts[j].knob) = path
         /\ attempts[j].knob \in Knobs /\ attempts[j].run = j
    <3>1. table[j + 1] = AttemptRow(attempts[j])
      BY <2>2, <2>9 DEF n
    <3>2. row = AttemptRow(attempts[j])
      BY <2>7, <2>9, <3>1
    <3>3. AttemptRow(attempts[j]).variable = path /\ AttemptRow(attempts[j]).result = "fail"
      BY <2>6, <3>2
    <3> QED
      BY <2>3, <2>9, <3>3 DEF AttemptRow, n
  <2>11. knob \in Knobs /\ PathOf(knob) = path /\ attempts[j].knob = knob
    BY <2>10, PathsDiffer
  <2> HIDE DEF knob
  <2>12. FailedRuns(knob) \cap packet.linked[path] # {}
    <3>1. j \in FailedRuns(knob)
      BY <2>3, <2>9, <2>10, <2>11 DEF FailedRuns
    <3>2. j \in DOMAIN EvidenceMap(Evidence)
      BY <2>9, EvidenceRuns DEF n
    <3>3. table[j + 1] = AttemptRow(attempts[j]) /\ j + 1 \in DOMAIN table
      BY <2>2, <2>7, <2>9
    <3>4. table[j + 1].run = j /\ table[j + 1].hypothesis = path
      BY <2>10, <3>3 DEF AttemptRow
    <3>5. j \in Cited(table, path)
      BY <2>3, <2>9, <3>3, <3>4 DEF Cited, Rows, NoRun
    <3>6. path \in Hypotheses
      BY <2>11 DEF Hypotheses
    <3> QED
      BY <2>4, <3>1, <3>2, <3>5, <3>6
  <2>13. ASSUME ~\E i \in DOMAIN attempts : attempts[i].knob = knob /\ attempts[i].result = "pass"
         PROVE  /\ \A a \in ToSet(packet.ruledOut) : a.knob # knob
                /\ \A k \in Knobs : FailedRuns(k) = {} => place(knob) < place(k)
    <3>1. ASSUME NEW a \in ToSet(packet.ruledOut) PROVE a.knob # knob
      <4>1. PICK m \in DOMAIN RuledOut(attempts) : a = RuledOut(attempts)[m]
        BY <2>4 DEF ToSet
      <4>2. \A i \in 1 .. Len(attempts) : attempts[i].sequence = i /\ attempts[i].run = i
        BY <2>3 DEF n
      <4>3. \E i \in 1 .. Len(attempts) : RuledOut(attempts)[m] = attempts[i]
                                          /\ attempts[i].result = "pass"
        BY <2>3, <4>2, RuledOutPassed
      <4> QED
        BY <2>3, <2>13, <4>1, <4>3 DEF n
    <3>2. ASSUME NEW k \in Knobs, FailedRuns(k) = {} PROVE place(knob) < place(k)
      <4> DEFINE best == Rank(table, path)
                 other == Rank(table, PathOf(k))
      <4>1. /\ \A l \in Knobs : \E i \in DOMAIN ranked : ranked[i].hypothesis = PathOf(l)
            /\ \A i \in DOMAIN ranked : i \in Nat /\ ranked[i] = Rank(table, ranked[i].hypothesis)
            /\ \A i, m \in DOMAIN ranked : Above(ranked[i], ranked[m]) => i < m
        BY <2>2, <2>4, RankedProperties
      <4>2. /\ place(knob) \in DOMAIN ranked /\ place(k) \in DOMAIN ranked
            /\ ranked[place(knob)] = best /\ ranked[place(k)] = other
        <5> HIDE DEF ranked
        <5>1. \A l \in Knobs : /\ place(l) \in DOMAIN ranked
                               /\ ranked[place(l)].hypothesis = PathOf(l)
          BY <4>1
        <5> QED
          BY <2>11, <4>1, <5>1
      <4>3. /\ CountOf(table, path, "fail") \in Nat /\ CountOf(table, path, "fail") # 0
        <5>1. table[place0].hypothesis = path /\ table[place0].result = "fail"
          <6>1. table[j + 1] = AttemptRow(attempts[j])
            BY <2>2, <2>9 DEF n
          <6>2. table[place0] = AttemptRow(attempts[j])
            BY <2>9, <6>1
          <6> QED
            BY <2>10, <6>2 DEF AttemptRow
        <5> QED
          BY <2>2, <2>7, <5>1, CountOfRows
      <4>4. CountOf(table, path, "pass") \in Nat /\ CountOf(table, path, "pass") <= 1
        <5>1. ASSUME NEW i \in DOMAIN table, table[i].hypothesis = path, table[i].result = "pass"
              PROVE  i = 1
          <6> SUFFICES ASSUME i # 1 PROVE FALSE
            OBVIOUS
          <6>1. i - 1 \in 1 .. n /\ (i - 1) + 1 = i
            BY <2>2, <2>3
          <6>2. table[i] = AttemptRow(attempts[i - 1]) /\ attempts[i - 1].knob \in Knobs
            BY <2>2, <2>3, <6>1
          <6>3. attempts[i - 1].knob = knob /\ attempts[i - 1].result = "pass"
            BY <2>11, <5>1, <6>2, PathsDiffer DEF AttemptRow
          <6> QED
            BY <2>3, <2>13, <6>1, <6>3
        <5> QED
          BY <2>2, <5>1, CountOfRows
      <4>5. CountOf(table, PathOf(k), "fail") = 0 /\ CountOf(table, PathOf(k), "pass") \in Nat
        <5>1. ASSUME NEW i \in DOMAIN table, table[i].hypothesis = PathOf(k),
                     table[i].result = "fail"
              PROVE  FALSE
          <6>1. i # 1
            BY <2>2, <5>1 DEF BaselineRow
          <6>2. i - 1 \in 1 .. n /\ (i - 1) + 1 = i
            BY <2>2, <2>3, <6>1
          <6>3. table[i] = AttemptRow(attempts[i - 1]) /\ attempts[i - 1].knob \in Knobs
            BY <2>2, <2>3, <6>2
          <6>4. attempts[i - 1].knob = k /\ attempts[i - 1].result = "fail"
            BY <5>1, <6>3, PathsDiffer DEF AttemptRow
          <6>5. attempts[i - 1].run \in FailedRuns(k)
            BY <2>3, <6>2, <6>4 DEF FailedRuns
          <6> QED
            BY <3>2, <6>5
        <5> QED
          BY <2>2, <5>1, CountOfRows
      <4>6. Above(best, other)
        BY <4>3, <4>4, <4>5 DEF Rank, Above
      <4> QED
        BY <4>1, <4>2, <4>6
    <3> QED
      BY <3>1, <3>2
  <2> QED
    BY <2>12, <2>13 DEF IsolatedRanksFirst, knob
<1> QED
  BY <1>1, SessionIsKnown, DecisionsAreKnown, PacketsAreKnown, PTL

-----------------------------------------------------------------------------
(***************************************************************************)
(* Comparisons                                                             *)
(***************************************************************************)

\* The metrics of a file are finitely many, and have integers as values.
LEMMA MetricsOfFile ==
  ASSUME NEW csv \in Csvs
  PROVE  /\ IsFiniteSet(MetricNames(csv))
         /\ \A name \in MetricNames(csv) : name \in STRING /\ ValueOf(csv, name) \in Int
<1> DEFINE rows == SummaryRows(csv)
           n == Len(csv.rows)
           f == [i \in rows |-> csv.rows[i].name]
<1>1. /\ n \in Nat /\ DOMAIN csv.rows = 1 .. n
      /\ \A i \in 1 .. n : csv.rows[i] \in [name : STRING, columns : Nat, value : Int]
  <2> DEFINE T == [name : STRING, columns : Nat, value : Int]
  <2>1. csv.rows \in Seq(T)
    BY InputAssumption
  <2> HIDE DEF T
  <2>2. n \in Nat /\ DOMAIN csv.rows = 1 .. n /\ \A i \in 1 .. n : csv.rows[i] \in T
    BY <2>1
  <2> QED
    BY <2>2 DEF T
<1>2. rows \subseteq 1 .. n /\ \A i \in rows : csv.rows[i].name \in STRING /\ csv.rows[i].value \in Int
  BY <1>1 DEF SummaryRows
<1>3. IsFiniteSet(rows)
  <2>1. 1 \in Int /\ n \in Int
    BY <1>1
  <2> HIDE DEF n, rows
  <2> QED
    BY <1>2, <2>1, FS_Interval, FS_Subset
<1>4. MetricNames(csv) = {f[i] : i \in rows}
  BY DEF MetricNames
<1>5. IsFiniteSet({f[i] : i \in rows})
  <2> HIDE DEF rows, f
  <2> QED
    BY <1>3, ImageFinite
<1>6. ASSUME NEW name \in MetricNames(csv) PROVE name \in STRING /\ ValueOf(csv, name) \in Int
  <2>1. \E i \in rows : csv.rows[i].name = name
    BY DEF MetricNames
  <2>2. (CHOOSE i \in rows : csv.rows[i].name = name) \in rows
    BY <2>1
  <2> QED
    BY <1>2, <2>1, <2>2 DEF ValueOf
<1> QED
  BY <1>4, <1>5, <1>6

\* The report has every common metric once: the preferred names first, then the rest.
LEMMA ReportListsCommon ==
  ASSUME NEW b \in Csvs, NEW r \in Csvs
  PROVE  /\ ReportOrder(b, r) \in Seq(Common(b, r))
         /\ Lists(ReportOrder(b, r), Len(ReportOrder(b, r)), Common(b, r))
<1> DEFINE C == Common(b, r)
           N == DOMAIN Preferred
           K == {i \in N : Preferred[i] \in C}
           D == {Preferred[k] : k \in K}
           E == C \ {Preferred[i] : i \in N}
           first == Kept(Preferred, K)
           rest == Listed(E)
<1>1. IsFiniteSet(E)
  BY MetricsOfFile, FS_Subset DEF Common
<1>2. Preferred \in Seq(STRING) /\ \A i, j \in N : Preferred[i] = Preferred[j] => i = j
  BY PreferredAssumption
<1>3. D \cap E = {} /\ D \cup E = C
  OBVIOUS
<1>4. first \in Seq(D) /\ Lists(first, Len(first), D)
  <2>1. K \subseteq DOMAIN Preferred
    OBVIOUS
  <2> HIDE DEF K
  <2>2. /\ first \in Seq(STRING) /\ Len(first) = Cardinality(K)
        /\ DOMAIN first = 1 .. Cardinality(K)
    BY <1>2, <2>1, KeptProperties
  <2>3. Lists(first, Cardinality(K), D)
    BY <1>2, <2>1, KeptLists
  <2> HIDE DEF first, D
  <2>4. \A i \in 1 .. Len(first) : first[i] \in D
    BY <2>2, <2>3 DEF Lists
  <2> QED
    BY <2>2, <2>3, <2>4
<1>5. rest \in Seq(E) /\ Lists(rest, Len(rest), E)
  <2> HIDE DEF E
  <2> QED
    BY <1>1, ListedProperties
<1>6. ReportOrder(b, r) = first \o rest
  BY DEF ReportOrder, PreferredOnes
<1> HIDE DEF C, D, E, first, rest
<1>7. first \o rest \in Seq(D \cup E) /\ Lists(first \o rest, Len(first \o rest), D \cup E)
  BY <1>3, <1>4, <1>5, ListsTogether
<1> QED
  BY <1>3, <1>6, <1>7 DEF C

\* The rows of a comparison.
LEMMA DeltaRows ==
  ASSUME NEW b \in Csvs, NEW r \in Csvs
  PROVE  LET n == Len(ReportOrder(b, r))
         IN  /\ n \in Nat /\ n = Cardinality(Common(b, r))
             /\ DOMAIN Deltas(b, r) = 1 .. n /\ Len(Deltas(b, r)) = n
             /\ {Deltas(b, r)[i].metric : i \in 1 .. n} = Common(b, r)
             /\ \A i \in 1 .. n :
                  /\ Deltas(b, r)[i].delta \in Int
                  /\ Deltas(r, b)[i].delta = -Deltas(b, r)[i].delta
             /\ DOMAIN Deltas(r, b) = 1 .. n
<1> DEFINE order == ReportOrder(b, r)
           n == Len(order)
           C == Common(b, r)
<1>1. order \in Seq(C) /\ Lists(order, n, C)
  BY ReportListsCommon
<1>2. n \in Nat /\ DOMAIN order = 1 .. n /\ \A i \in 1 .. n : order[i] \in C
  BY <1>1
<1>3. n = Cardinality(C)
  BY <1>1, <1>2, ListLength
<1>4. Common(r, b) = C
  BY DEF Common
<1>5. ReportOrder(r, b) = order
  BY <1>4 DEF ReportOrder, PreferredOnes
<1>6. \A name \in C : ValueOf(b, name) \in Int /\ ValueOf(r, name) \in Int
  BY MetricsOfFile DEF Common
<1>7. /\ Deltas(b, r) = [i \in 1 .. n |-> Delta(b, r, order[i])]
      /\ Deltas(r, b) = [i \in 1 .. n |-> Delta(r, b, order[i])]
  BY <1>2, <1>5 DEF Deltas
<1> HIDE DEF order, n, C
<1>8. \A i \in 1 .. n :
        /\ Deltas(b, r)[i].metric = order[i]
        /\ Deltas(b, r)[i].delta = ValueOf(r, order[i]) - ValueOf(b, order[i])
        /\ Deltas(r, b)[i].delta = ValueOf(b, order[i]) - ValueOf(r, order[i])
  BY <1>7 DEF Delta
<1>9. {Deltas(b, r)[i].metric : i \in 1 .. n} = C
  BY <1>1, <1>2, <1>8 DEF Lists
<1>10. \A i \in 1 .. n : Deltas(b, r)[i].delta \in Int /\ Deltas(r, b)[i].delta = -Deltas(b, r)[i].delta
  BY <1>2, <1>6, <1>8
<1>11. DOMAIN Deltas(b, r) = 1 .. n /\ DOMAIN Deltas(r, b) = 1 .. n /\ Len(Deltas(b, r)) = n
  BY <1>2, <1>7
<1> QED
  BY <1>2, <1>3, <1>9, <1>10, <1>11 DEF order, n, C

\* Two numbers of a summary in each other's place
LEMMA Swapped ==
  ASSUME NEW u, NEW d, NEW m, NEW s,
         s = [increased |-> u, decreased |-> d, unchanged |-> m]
  PROVE  [increased |-> d, decreased |-> u, unchanged |-> m]
           = [s EXCEPT !.increased = d, !.decreased = u]
<1> DEFINE names == {"increased", "decreased", "unchanged"}
           swapped == [i \in names |-> IF i = "decreased" THEN u
                                      ELSE IF i = "increased" THEN d ELSE s[i]]
<1>1. DOMAIN s = names /\ s["unchanged"] = m
  OBVIOUS
<1>2. s = [i \in DOMAIN s |-> s[i]]
  OBVIOUS
<1>3. [s EXCEPT !.increased = d, !.decreased = u] = swapped
  BY <1>1, <1>2
<1>4. [increased |-> d, decreased |-> u, unchanged |-> m] = swapped
  BY <1>1
<1> QED
  BY <1>3, <1>4

\* Rising, falling and steady metrics are all of them, and rising and falling change places
\* when the files do.
LEMMA SummaryAddsUp ==
  ASSUME NEW b \in Csvs, NEW r \in Csvs
  PROVE  LET s == Summary(Deltas(b, r))
             back == Summary(Deltas(r, b))
         IN  /\ s.increased + s.decreased + s.unchanged = Cardinality(Common(b, r))
             /\ back = [s EXCEPT !.increased = s.decreased, !.decreased = s.increased]
<1> DEFINE n == Len(ReportOrder(b, r))
           ds == Deltas(b, r)
           es == Deltas(r, b)
           Up == {i \in 1 .. n : ds[i].delta > 0}
           Down == {i \in 1 .. n : ds[i].delta < 0}
           Same == {i \in 1 .. n : ds[i].delta = 0}
<1>1. /\ n \in Nat /\ n = Cardinality(Common(b, r))
      /\ DOMAIN ds = 1 .. n /\ DOMAIN es = 1 .. n
      /\ \A i \in 1 .. n : ds[i].delta \in Int /\ es[i].delta = -ds[i].delta
  BY DeltaRows
<1>2. /\ Summary(ds) = [increased |-> Cardinality(Up), decreased |-> Cardinality(Down),
                        unchanged |-> Cardinality(Same)]
      /\ Summary(es) = [increased |-> Cardinality({i \in 1 .. n : es[i].delta > 0}),
                        decreased |-> Cardinality({i \in 1 .. n : es[i].delta < 0}),
                        unchanged |-> Cardinality({i \in 1 .. n : es[i].delta = 0})]
  BY <1>1 DEF Summary
<1> HIDE DEF n, ds, es
<1>3. /\ {i \in 1 .. n : es[i].delta > 0} = Down
      /\ {i \in 1 .. n : es[i].delta < 0} = Up
      /\ {i \in 1 .. n : es[i].delta = 0} = Same
  BY <1>1
<1>4. /\ Up \in SUBSET (1 .. n) /\ Down \in SUBSET (1 .. n) /\ Same \in SUBSET (1 .. n)
      /\ Up \cup Down \cup Same = 1 .. n
      /\ Up \cap Down = {} /\ Up \cap Same = {} /\ Down \cap Same = {}
  BY <1>1
<1>5. IsFiniteSet(1 .. n) /\ Cardinality(1 .. n) = n
  <2>1. 1 \in Int /\ n \in Int
    BY <1>1
  <2> QED
    BY <1>1, <2>1, FS_Interval
<1> HIDE DEF Up, Down, Same
<1>6. Cardinality(Up) + Cardinality(Down) + Cardinality(Same) = n
  <2> DEFINE D == 1 .. n
  <2>1. IsFiniteSet(D) /\ Cardinality(D) = n
    BY <1>5
  <2>2. Up \in SUBSET D /\ Down \in SUBSET D /\ Same \in SUBSET D /\ Up \cup Down \cup Same = D
    BY <1>4
  <2>3. Up \cap Down = {} /\ Up \cap Same = {} /\ Down \cap Same = {}
    BY <1>4
  <2> HIDE DEF D
  <2>4. Cardinality(Up) + Cardinality(Down) + Cardinality(Same) = Cardinality(D)
    BY <2>1, <2>2, <2>3, CountedInThree
  <2> QED
    BY <2>1, <2>4
<1>7. Summary(es) = [increased |-> Cardinality(Down), decreased |-> Cardinality(Up),
                     unchanged |-> Cardinality(Same)]
  BY <1>2, <1>3
<1> QED
  <2>1. Summary(ds).increased + Summary(ds).decreased + Summary(ds).unchanged
          = Cardinality(Common(b, r))
    BY <1>1, <1>2, <1>6
  <2> HIDE DEF ds, es
  <2>2. Summary(ds).increased = Cardinality(Up) /\ Summary(ds).decreased = Cardinality(Down)
    BY <1>2
  <2>3. Summary(es) = [Summary(ds) EXCEPT !.increased = Cardinality(Down),
                                          !.decreased = Cardinality(Up)]
    <3> DEFINE u == Cardinality(Up)
               d == Cardinality(Down)
               m == Cardinality(Same)
               there == Summary(ds)
               here == Summary(es)
    <3>1. /\ there = [increased |-> u, decreased |-> d, unchanged |-> m]
          /\ here = [increased |-> d, decreased |-> u, unchanged |-> m]
      BY <1>2, <1>7
    <3> HIDE DEF u, d, m, there, here
    <3>2. [increased |-> d, decreased |-> u, unchanged |-> m]
            = [there EXCEPT !.increased = d, !.decreased = u]
      BY <3>1, Swapped
    <3>3. here = [there EXCEPT !.increased = d, !.decreased = u]
      BY Zenon, <3>1, <3>2
    <3> QED
      BY <3>3 DEF u, d, there, here
  <2>4. Summary(es) = [Summary(ds) EXCEPT !.increased = Summary(ds).decreased,
                                          !.decreased = Summary(ds).increased]
    BY <2>2, <2>3
  <2> QED
    BY <2>1, <2>4 DEF ds, es

\* A comparison in hand is of two files.
DiffInv ==
  diff = None \/
    \E b, r \in Csvs : diff = [baseline |-> b, run |-> r, deltas |-> Deltas(b, r),
                               summary |-> Summary(Deltas(b, r))]

\* Whatever two files a run and its baseline leave, the comparison has every metric of both
\* once, its summary counts them all, and it is the mirror image of the comparison the other
\* way round (ComputeMetricsDiffFromCsv, metrics_diff_writer.cpp).
THEOREM DiffsAccount == Spec => []DiffAccounts
<1>1. Init => DiffInv
  BY DEF Init, DiffInv
<1>2. DiffInv /\ [Next]_vars => DiffInv'
  <2> SUFFICES ASSUME DiffInv, [Next]_vars PROVE DiffInv'
    OBVIOUS
  <2>1. CASE Compare
    BY <2>1 DEF Compare, DiffInv
  <2>2. CASE Record
    BY <2>2 DEF Record, DiffInv
  <2>3. CASE StartGenerate \/ RefuseGenerate \/ WriteVariant \/ WriteManifest \/ WriteFails
               \/ EditBase \/ RunBaseline \/ RunVariant \/ Decide \/ WritePacket \/ UNCHANGED vars
    <3>1. diff' = diff
      BY <2>3 DEF StartGenerate, RefuseGenerate, WriteVariant, WriteManifest, WriteFails, EditBase,
                  RunBaseline, RunVariant, Decide, WritePacket, vars, session
    <3> QED
      BY <3>1 DEF DiffInv
  <2> QED
    BY <2>1, <2>2, <2>3 DEF Next
<1>3. DiffInv => DiffAccounts
  <2> SUFFICES ASSUME DiffInv, diff # None PROVE DiffAccounts
    BY DEF DiffAccounts
  <2>1. PICK b \in Csvs, r \in Csvs :
          diff = [baseline |-> b, run |-> r, deltas |-> Deltas(b, r),
                  summary |-> Summary(Deltas(b, r))]
    BY DEF DiffInv
  <2> DEFINE n == Len(ReportOrder(b, r))
             ds == Deltas(b, r)
             s == Summary(ds)
             back == Summary(Deltas(r, b))
  <2>2. /\ n = Cardinality(Common(b, r)) /\ DOMAIN ds = 1 .. n /\ Len(ds) = n
        /\ {ds[i].metric : i \in 1 .. n} = Common(b, r)
    BY DeltaRows
  <2>3. /\ s.increased + s.decreased + s.unchanged = Cardinality(Common(b, r))
        /\ back = [s EXCEPT !.increased = s.decreased, !.decreased = s.increased]
    BY SummaryAddsUp
  <2>4. /\ diff.baseline = b /\ diff.run = r /\ diff.deltas = ds /\ diff.summary = s
    BY <2>1
  <2>5. Summary(Deltas(diff.run, diff.baseline)) = back
    BY <2>4
  <2>6. {diff.deltas[i].metric : i \in DOMAIN diff.deltas} = Common(b, r)
    BY <2>2, <2>4
  <2> HIDE DEF ds, s, back, n
  <2> QED
    BY <2>2, <2>3, <2>4, <2>5, <2>6 DEF DiffAccounts
<1> QED
  BY <1>1, <1>2, <1>3, PTL DEF Spec
=============================================================================
