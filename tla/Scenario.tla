------------------------------ MODULE Scenario ------------------------------
(***************************************************************************)
(* Scenario documents, as three parts of the program read them: the        *)
(* validator of `labops validate` (scenarios/validator.cpp), the lenient   *)
(* parser of `labops run` (scenarios/model.cpp) and the loader that makes  *)
(* a run plan of what it parsed (LoadRunPlanFromScenario).                 *)
(*                                                                         *)
(* A document is a function from paths, the sequences of keys that lead to *)
(* its values; every object on the way to a value is there as well.  The   *)
(* widths of integers are constants: only their order matters.             *)
(***************************************************************************)
EXTENDS Integers, Sequences, FiniteSets

LOCAL INSTANCE SequencesExt

CONSTANTS
  MaxU32, MaxI64, MaxU64,  \* the largest values of the program's integer types
  Profiles                 \* the netem profiles that have a file

ASSUME ScenarioAssumption ==
  /\ {MaxU32, MaxI64, MaxU64} \subseteq Nat
  /\ 5000 < MaxU32 /\ MaxU32 + 5000 < MaxI64 /\ MaxI64 < MaxU64

-----------------------------------------------------------------------------
(***************************************************************************)
(* Values                                                                  *)
(***************************************************************************)

\* A number is n, n and a half, or n and less than the 1e-9 within which the
\* generator of variants takes a number for an integer.
Num(n) == [num |-> n, part |-> "none"]
Half(n) == [num |-> n, part |-> "half"]
Fine(n) == [num |-> n, part |-> "fine"]

\* A text; a device selector is a text made of clauses.  "blank" is white space.
Str(s) == [str |-> s]
Selector(clauses) == [str |-> "selector", clauses |-> clauses]

Bool(b) == [bool |-> b]
Obj == [object |-> TRUE]
List(items) == [list |-> items]  \* the set of its items, "good" or "bad" ones
Null == [null |-> TRUE]
Unset == [unset |-> TRUE]        \* what a reader makes of no value

IsObject(v) == v = Obj
IsBool(v) == "bool" \in DOMAIN v
IsNumber(v) == "num" \in DOMAIN v
IsString(v) == "str" \in DOMAIN v
IsList(v) == "list" \in DOMAIN v

\* TryGetNonNegativeInteger
IsNatural(v) == IsNumber(v) /\ v.part = "none" /\ v.num \in 0 .. MaxU64
IsPositive(v) == IsNatural(v) /\ v.num # 0

IsAmount(v) == IsNumber(v) /\ v.num >= 0
AtMost100(v) == v.num < 100 \/ v = Num(100)

IsText(v) == IsString(v) /\ v.str # ""
FourCharacters == {"four", "slug"}
IsLowercaseSlug(s) == s \notin {"", "blank", "No Slug"}

\* Trim and ToLower, which also make nothing of white space
Trimmed(s) == IF s = "blank" THEN "" ELSE s

\* ParseDeviceSelector: clauses key:value with each key once, serial or user_id
\* but not both.
ParseDeviceSelector(v) ==
  /\ "clauses" \in DOMAIN v
  /\ LET keys == {v.clauses[i].key : i \in DOMAIN v.clauses}
     IN  /\ v.clauses # <<>>
         /\ keys \subseteq {"serial", "user_id", "index"}
         /\ ~({"serial", "user_id"} \subseteq keys)
         /\ Cardinality(keys) = Len(v.clauses)
         /\ \A i \in DOMAIN v.clauses :
              /\ v.clauses[i].text # ""
              /\ v.clauses[i].key = "index" => v.clauses[i].text = "number"

-----------------------------------------------------------------------------
(***************************************************************************)
(* Paths, by what the validator asks of them                               *)
(***************************************************************************)
In(section, keys) == {Append(section, k) : k \in keys}

Camera == <<"camera">>
Roi == <<"camera", "roi">>
Network == <<"camera", "network">>
Faults == <<"sim_faults">>
Thresholds == <<"thresholds">>
Webcam == <<"webcam">>
WebcamSelector == <<"webcam", "device_selector">>
Oaat == <<"oaat">>

Fps == <<"camera", "fps">>
Delay == <<"camera", "network", "inter_packet_delay_us">>
Reorder == <<"sim_faults", "reorder">>
DropPercent == <<"sim_faults", "drop_percent">>
DurationMs == <<"duration", "duration_ms">>
RequestedFps == <<"webcam", "requested_fps">>

Sections == {<<"duration">>, Camera, Roi, Network, Faults, Thresholds, Webcam,
             WebcamSelector, Oaat}

Required == {<<"schema_version">>, <<"scenario_id">>, <<"duration">>, DurationMs, Camera,
             Thresholds}

PositiveFields ==
  {DurationMs, Fps} \cup In(Camera, {"width", "height"}) \cup In(Roi, {"width", "height"})
    \cup {<<"camera", "network", "packet_size_bytes">>, <<"oaat", "max_trials">>}
    \cup In(Webcam, {"requested_width", "requested_height"})

NaturalFields ==
  {<<"camera", "exposure_us">>, Delay, <<"webcam", "device_selector", "index">>}
    \cup In(Roi, {"x", "y"})
    \cup In(Faults, {"seed", "jitter_us", "drop_every_n", "drop_percent", "burst_drop", "reorder",
                     "disconnect_at_ms", "disconnect_duration_ms"})
    \cup {<<"thresholds", "max_disconnect_count">>}

AmountFields ==
  In(Thresholds, {"min_avg_fps", "max_drop_rate_percent", "max_inter_frame_interval_p95_us",
                  "max_inter_frame_jitter_p95_us"})

PercentFields == {DropPercent, <<"thresholds", "max_drop_rate_percent">>}

ThresholdFields == AmountFields \cup {<<"thresholds", "max_disconnect_count">>}

TextFields == {<<"schema_version">>, <<"scenario_id">>, <<"netem_profile">>, <<"backend">>}
                \cup In(WebcamSelector, {"id", "name_contains"})

AllowedTexts ==
  [ p \in {<<"camera", "trigger_mode">>, <<"camera", "trigger_source">>,
           <<"camera", "trigger_activation">>, <<"backend">>} |->
      CASE Last(p) = "trigger_mode" -> {"free_run", "software", "hardware"}
        [] Last(p) = "trigger_source" -> {"line0", "line1", "software"}
        [] Last(p) = "trigger_activation" -> {"rising_edge", "falling_edge", "any_edge"}
        [] OTHER -> {"sim", "webcam", "real_stub"} ]

-----------------------------------------------------------------------------
(***************************************************************************)
(* labops validate                                                         *)
(***************************************************************************)

\* The paths of document d among P whose value fails Test.
Failing(d, P, Test(_)) == {p \in P \cap DOMAIN d : ~Test(d[p])}

BackendNamed(d) ==
  IF <<"backend">> \in DOMAIN d /\ IsText(d[<<"backend">>]) THEN d[<<"backend">>].str ELSE "sim"

\* Broken form: the upper bound of percentages is not tested.
NotAPercentage(v) == FALSE

OverPercent(v) == IsNumber(v) /\ ~AtMost100(v)

\* Numbers: positive, natural and percent fields, amounts, the webcam's rate.
NumberIssues(d) ==
  Failing(d, PositiveFields, IsPositive) \cup Failing(d, NaturalFields, IsNatural)
    \cup Failing(d, AmountFields, IsAmount)
    \cup {p \in PercentFields \cap DOMAIN d : OverPercent(d[p])}
    \cup {p \in {RequestedFps} \cap DOMAIN d :
            ~IsAmount(d[p]) \/ d[p] = Num(0)}

\* Texts: those that must not be empty, slugs, enumerated ones, the apply mode.
TextIssues(d) ==
  Failing(d, TextFields, IsText)
    \cup Failing(d, {<<"description">>}, IsString)
    \cup {p \in DOMAIN AllowedTexts \cap DOMAIN d : ~IsString(d[p]) \/ d[p].str \notin AllowedTexts[p]}
    \cup {p \in {<<"scenario_id">>, <<"netem_profile">>} \cap DOMAIN d :
            IsString(d[p]) /\ ~IsLowercaseSlug(d[p].str)}
    \cup {p \in {<<"netem_profile">>} \cap DOMAIN d : IsString(d[p]) /\ d[p].str \notin Profiles}
    \cup {p \in {<<"apply_mode">>} \cap DOMAIN d :
            ~IsString(d[p]) \/ Trimmed(d[p].str) \notin {"strict", "best_effort", "best-effort"}}
    \cup {p \in {<<"webcam", "requested_pixel_format">>} \cap DOMAIN d :
            ~IsString(d[p]) \/ d[p].str \notin FourCharacters}

\* Device selectors, each for its own backend.
SelectorIssues(d) ==
  {p \in {<<"device_selector">>} \cap DOMAIN d :
     ~IsString(d[p]) \/ ~ParseDeviceSelector(d[p]) \/ BackendNamed(d) # "real_stub"}
  \cup {p \in {WebcamSelector} \cap DOMAIN d :
     d[p] = Obj =>
       \/ In(p, {"index", "id", "name_contains"}) \cap DOMAIN d = {}
       \/ BackendNamed(d) # "webcam"}

\* One variable at a time: a hint for the agent, which no run reads.
OaatIssues(d) ==
  IF Oaat \notin DOMAIN d \/ d[Oaat] # Obj THEN {}
  ELSE LET enabled == Append(Oaat, "enabled")
           variables == Append(Oaat, "variables")
       IN  IF enabled \notin DOMAIN d \/ ~IsBool(d[enabled]) THEN {enabled}
           ELSE Failing(d, {Append(Oaat, "stop_on_first_failure")}, IsBool)
                  \cup IF variables \notin DOMAIN d
                       THEN {v \in {variables} : d[enabled] = Bool(TRUE)}
                       ELSE {v \in {variables} :
                               \/ ~IsList(d[v])
                               \/ d[enabled] = Bool(TRUE) /\ d[v] = List({})
                               \/ "bad" \in d[v].list}

\* ValidateScenarioObject: the paths it finds something wrong with, those included that
\* it does not get to once it has reported another one.
Issues(d) ==
  (Required \ DOMAIN d)
    \cup Failing(d, Sections, IsObject)
    \cup NumberIssues(d) \cup TextIssues(d) \cup SelectorIssues(d) \cup OaatIssues(d)
    \cup {p \in In(Roi, {"x", "y", "width", "height"}) \ DOMAIN d :
            Roi \in DOMAIN d /\ d[Roi] = Obj}
    \cup {p \in {Thresholds} : ThresholdFields \cap DOMAIN d = {}}
    \cup {p \in {<<"tags">>} \cap DOMAIN d : ~IsList(d[p]) \/ "bad" \in d[p].list}

Valid(d) == Issues(d) = {}

-----------------------------------------------------------------------------
(***************************************************************************)
(* labops run                                                              *)
(***************************************************************************)

\* FindScenarioField: a path, or else its last key at the root, where old fixtures
\* have it.  An ill-typed value hides the old one.
Find(d, p) ==
  CASE p \in DOMAIN d -> d[p]
    [] p \notin DOMAIN d /\ <<Last(p)>> \in DOMAIN d -> d[<<Last(p)>>]
    [] OTHER -> Unset

\* Integers, numbers and texts of the wrong type or range count as unset.
AsNatural(v) == IF IsNatural(v) THEN v ELSE Unset
AsNumber(v) == IF IsNumber(v) THEN v ELSE Unset
AsText(v) == IF IsString(v) THEN v ELSE Unset

IntegerKeys ==
  {DurationMs, <<"duration", "duration_s">>, Fps, <<"camera", "frame_size_bytes">>,
   <<"camera", "exposure_us">>, <<"camera", "network", "packet_size_bytes">>, Delay}
    \cup In(Faults, {"seed", "jitter_us", "drop_every_n", "drop_percent", "burst_drop", "reorder"})
    \cup In(Webcam, {"requested_width", "requested_height"})
NumberKeys == ThresholdFields \cup {<<"camera", "gain_db">>, RequestedFps}
TextKeys ==
  {<<"backend">>, <<"apply_mode">>, <<"netem_profile">>, <<"device_selector">>,
   <<"webcam", "requested_pixel_format">>}
    \cup In(Camera, {"pixel_format", "trigger_mode", "trigger_source", "trigger_activation"})

\* ParseScenarioModelRoot, without the region of interest and the webcam selector
Model(d) ==
  [ p \in IntegerKeys \cup NumberKeys \cup TextKeys |->
      CASE p \in IntegerKeys -> AsNatural(Find(d, p))
        [] p \in NumberKeys -> AsNumber(Find(d, p))
        [] OTHER -> AsText(Find(d, p)) ]

RoiPath(d) == IF Roi \in DOMAIN d THEN Roi ELSE <<"roi">>

RoiParses(d) ==
  RoiPath(d) \in DOMAIN d =>
    /\ d[RoiPath(d)] = Obj
    /\ \A p \in In(RoiPath(d), {"x", "y", "width", "height"}) : p \in DOMAIN d /\ IsNatural(d[p])

\* The keys of webcam.device_selector that have a usable value
WebcamKeys(d) ==
  {p \in In(WebcamSelector, {"index", "id", "name_contains"}) \cap DOMAIN d :
     IF Last(p) = "index" THEN IsNatural(d[p]) ELSE IsString(d[p])}

U32Keys == {Fps, <<"camera", "frame_size_bytes">>}
             \cup In(Faults, {"jitter_us", "drop_every_n", "burst_drop", "reorder"})
             \cup In(Webcam, {"requested_width", "requested_height"})

TooWide(m) == {p \in U32Keys : m[p] # Unset /\ m[p].num > MaxU32}

RunsOn(m) == IF m[<<"backend">>] = Unset THEN "sim" ELSE m[<<"backend">>].str

\* LoadRunPlanFromScenario: the paths on whose account it refuses the document.
Refusals(d) ==
  LET m == Model(d) IN
    TooWide(m)
      \cup {p \in {DurationMs} : m[p] = Num(0)}
      \cup {p \in {<<"duration", "duration_s">>} : m[DurationMs] = Unset /\ m[p] = Num(0)}
      \cup {p \in {<<"backend">>} : RunsOn(m) \notin AllowedTexts[p]}
      \cup {p \in {<<"apply_mode">>} :
              m[p] # Unset
                /\ Trimmed(m[p].str) \notin {"", "strict", "best_effort", "best-effort"}}
      \cup {p \in {DropPercent} : m[p] # Unset /\ ~AtMost100(m[p])}
      \cup {p \in ThresholdFields : m[p] # Unset /\ ~IsAmount(m[p])}
      \cup {p \in {<<"thresholds", "max_drop_rate_percent">>} : m[p] # Unset /\ ~AtMost100(m[p])}
      \cup {p \in {<<"thresholds", "max_disconnect_count">>} : m[p] # Unset /\ ~IsNatural(m[p])}
      \cup {p \in {<<"netem_profile">>} : m[p] # Unset /\ ~IsLowercaseSlug(m[p].str)}
      \cup {p \in {<<"device_selector">>} :
              m[p] # Unset /\ (~ParseDeviceSelector(m[p]) \/ RunsOn(m) # "real_stub")}
      \cup {p \in {WebcamSelector} : WebcamKeys(d) # {} /\ RunsOn(m) # "webcam"}
      \cup {p \in {RequestedFps} : m[p] # Unset /\ (~IsAmount(m[p]) \/ m[p] = Num(0))}
      \cup {p \in {<<"webcam", "requested_pixel_format">>} : m[p] = Str("")}
      \cup {p \in {Roi} : ~RoiParses(d)}

Loads(d) == Refusals(d) = {}

\* What the simulator uses where the document says nothing
SimDefault(p) == IF p = Fps THEN Num(30) ELSE Num(0)

\* The nearest integer, a half rounded away from zero
Rounded(v) == Num(IF v.part = "half" THEN v.num + 1 ELSE v.num)

\* The rate of the run: camera.fps, or else the webcam's requested rate, rounded.
PlannedFps(m) ==
  IF m[Fps] # Unset THEN m[Fps]
  ELSE IF m[RequestedFps] # Unset /\ Rounded(m[RequestedFps]).num \in 1 .. MaxU32
       THEN Rounded(m[RequestedFps])
       ELSE SimDefault(Fps)

\* static_cast<std::int64_t>: a duration beyond it is a negative one.
AsSigned(v) == IF v.num > MaxI64 THEN Num(v.num - MaxU64 - 1) ELSE v

\* The values of the plan, by the path they are documented at.  Empty texts are
\* left out, and the region of interest comes with its four numbers.
Planned(d) ==
  LET m == Model(d)
      set == {p \in DOMAIN m : m[p] \notin {Unset, Str("")}}
      roi == IF RoiPath(d) \in DOMAIN d THEN In(Roi, {"x", "y", "width", "height"}) ELSE {}
  IN  [ p \in set \cup roi \cup WebcamKeys(d) \cup {Fps, Reorder, DropPercent} |->
          CASE p = Fps -> PlannedFps(m)
            [] p = DurationMs -> AsSigned(m[p])
            [] p \in set \ {Fps, DurationMs} -> m[p]
            [] p \in roi -> d[Append(RoiPath(d), Last(p))]
            [] p \in WebcamKeys(d) -> d[p]
            [] OTHER -> SimDefault(p) ]
=============================================================================
