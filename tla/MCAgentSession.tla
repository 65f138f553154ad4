--------------------------- MODULE MCAgentSession ---------------------------
(***************************************************************************)
(* AgentSession for TLC: three scenarios, every one of their fields and    *)
(* some others given every kind of value, and pairs of fields that meet.   *)
(***************************************************************************)
EXTENDS AgentSession

LOCAL INSTANCE SequencesExt

\* The order of the texts of knob paths, and of the values of one knob
MCNamePosition(path) ==
  CHOOSE i \in 1 .. 5 : path = <<Fps, Delay, Roi, DropPercent, Reorder>>[i]

MCValuePosition(v) ==
  CASE v = Str("disabled") -> 0
    [] v = Str("enabled") -> 1
    [] OTHER -> v.num + MaxI64 + 2

-----------------------------------------------------------------------------
(***************************************************************************)
(* Documents                                                               *)
(***************************************************************************)
Gone == [gone |-> TRUE]

\* Document d with value v at path p, or nothing there.
Edited(d, p, v) ==
  LET above == {SubSeq(p, 1, i) : i \in 1 .. Len(p) - 1}
      kept == {q \in DOMAIN d : ~IsPrefix(p, q)}
      below == IF v = Obj THEN {q \in DOMAIN d : IsStrictPrefix(p, q)} ELSE {}
  IN  [ q \in kept \cup below \cup above \cup (IF v = Gone THEN {} ELSE {p}) |->
          CASE q = p -> v
            [] q \in above -> Obj
            [] OTHER -> d[q] ]

Document(fields) ==
  FoldLeft(LAMBDA d, field : Edited(d, field[1], field[2]), [q \in {} |-> Null], fields)

SimDoc ==
  Document(<<
    <<<<"schema_version">>, Str("1.0")>>, <<<<"scenario_id">>, Str("slug")>>,
    <<<<"tags">>, List({"good"})>>, <<DurationMs, Num(600)>>, <<Fps, Num(30)>>,
    <<<<"camera", "width">>, Num(1920)>>, <<<<"camera", "pixel_format">>, Str("four")>>,
    <<<<"sim_faults", "seed">>, Num(7)>>, <<DropPercent, Num(0)>>, <<Reorder, Num(0)>>,
    <<<<"thresholds", "min_avg_fps">>, Half(29)>>,
    <<<<"thresholds", "max_drop_rate_percent">>, Num(100)>> >>)

OneClause == Selector(<<[key |-> "serial", text |-> "number"]>>)

RealDoc ==
  Document(<<
    <<<<"schema_version">>, Str("1.0")>>, <<<<"scenario_id">>, Str("slug")>>,
    <<<<"backend">>, Str("real_stub")>>, <<<<"device_selector">>, OneClause>>,
    <<<<"apply_mode">>, Str("strict")>>, <<<<"netem_profile">>, Str("lossy")>>,
    <<DurationMs, Num(600)>>, <<<<"camera", "exposure_us">>, Num(100)>>,
    <<Delay, Num(100)>>, <<<<"camera", "network", "packet_size_bytes">>, Num(1500)>>,
    <<<<"camera", "trigger_mode">>, Str("hardware")>>,
    <<<<"camera", "trigger_source">>, Str("line0")>>,
    <<<<"camera", "roi", "x">>, Num(0)>>, <<<<"camera", "roi", "y">>, Num(1)>>,
    <<<<"camera", "roi", "width">>, Num(99)>>, <<<<"camera", "roi", "height">>, Num(100)>>,
    <<<<"thresholds", "max_disconnect_count">>, Num(0)>>,
    <<<<"oaat", "enabled">>, Bool(TRUE)>>, <<<<"oaat", "variables">>, List({"good"})>>,
    <<<<"oaat", "max_trials">>, Num(1)>> >>)

WebcamDoc ==
  Document(<<
    <<<<"schema_version">>, Str("1.0")>>, <<<<"scenario_id">>, Str("slug")>>,
    <<<<"backend">>, Str("webcam")>>, <<DurationMs, Num(600)>>, <<Camera, Obj>>,
    <<<<"webcam", "requested_width">>, Num(1920)>>, <<RequestedFps, Half(29)>>,
    <<<<"webcam", "requested_pixel_format">>, Str("four")>>,
    <<<<"webcam", "device_selector", "index">>, Num(0)>>,
    <<<<"thresholds", "max_inter_frame_jitter_p95_us">>, Num(100)>> >>)

Documents == {SimDoc, RealDoc, WebcamDoc}

Paths ==
  PositiveFields \cup NaturalFields \cup AmountFields \cup TextFields \cup Sections
    \cup DOMAIN AllowedTexts \cup IntegerKeys \cup NumberKeys \cup TextKeys
    \cup In(Oaat, {"enabled", "variables", "stop_on_first_failure"})
    \cup {<<"tags">>, <<"description">>}

OldPaths == {<<"fps">>, <<"drop_percent">>, <<"reorder">>, <<"min_avg_fps">>, <<"roi">>}

MCProfiles == {"lossy"}

\* cvttsd2si
MCBeyond == -MaxI64 - 1

Wide == {Num(n) : n \in {MaxU32, MaxU32 + 1, MaxI64, MaxI64 + 1, MaxU64, MaxU64 + 1}}

Values ==
  {Gone, Null, Bool(TRUE), Bool(FALSE), Obj, List({}), List({"good"}), List({"bad"})}
  \cup {Str(s) : s \in {"", "blank", "No Slug", "slug", "sim", "webcam", "real_stub", "strict",
                        "best-effort", "line0", "rising_edge", "lossy"}}
  \cup {Num(n) : n \in {-1, 0, 1, 2, 99, 100, 101}} \cup {Half(0), Half(100), Fine(0), Fine(25)}
  \cup Wide

\* Device selectors: each clause, and pairs of them
Clauses == [key : {"serial", "user_id", "index", "other"}, text : {"", "number", "word"}]
Selectors ==
  {Selector(<<c>>) : c \in Clauses} \cup
  {Selector(<<c, e>>) : c, e \in [key : {"serial", "user_id", "index"}, text : {"number"}]}

\* Fields that the readers take together
Meeting ==
  {{<<"backend">>, <<"device_selector">>, WebcamSelector}, {<<"backend">>, Fps, RequestedFps},
   {Roi, <<"roi">>, Camera}, {Fps, <<"fps">>, Camera}, {DurationMs, <<"duration", "duration_s">>}}
Short == {Gone, Obj, Str(""), Str("webcam"), Num(0), Num(1), Num(MaxU32 + 1)}

AtBounds == Edited(Edited(Edited(SimDoc, Fps, Num(1)), Reorder, Num(100)), DropPercent, Num(100))

MCSessionBases == {SimDoc}
MCRevisions == {AtBounds}

\* Generations that fail are repeated over the documents of sessions only: what a failed
\* one leaves does not depend on the document.
Repeated == at = "refused" => base \in SessionBases \cup Revisions

EditsOf(D, P, V) == {Edited(d, p, v) : d \in D, p \in P, v \in V}

MCBases ==
  Documents \cup MCRevisions
  \cup EditsOf(Documents, Paths \cup OldPaths, Values)
  \cup EditsOf({RealDoc}, {<<"device_selector">>}, Selectors)
  \cup UNION {EditsOf(EditsOf({SimDoc, WebcamDoc}, P, Short), P, Short) : P \in Meeting}

-----------------------------------------------------------------------------
(***************************************************************************)
(* Results                                                                 *)
(***************************************************************************)
Row(name, value) == [name |-> name, columns |-> 5, value |-> value]

MCPreferred == <<"avg_fps", "drops_total", "drop_rate_percent">>

MCCsvs ==
  { [header |-> TRUE, rows |-> <<Row("avg_fps", 30), Row("rolling_fps", NotANumber),
                                 Row("rolling_fps", 30), Row("drops_total", 0),
                                 Row("drops_by_reason", 0)>>],
    [header |-> TRUE, rows |-> <<Row("avg_fps", 29), Row("drops_total", 2),
                                 Row("drops_by_reason", 0), Row("timeouts_by_reason", 1)>>],
    [header |-> TRUE, rows |-> <<Row("rolling_fps", 30)>>],
    [header |-> TRUE, rows |-> <<Row("other", 30)>>],
    [header |-> FALSE, rows |-> <<Row("avg_fps", 30)>>],
    [header |-> TRUE, rows |-> <<Row("avg_fps", 30), Row("avg_fps", 29)>>] }

Config(maxRuns, window, rate, threshold, confidence) ==
  [maxRuns |-> maxRuns, window |-> window, rate |-> rate, threshold |-> threshold,
   confidence |-> confidence]

MCConfigs ==
  {Config(20, 4, 95, 95, 25), Config(20, 2, 50, 95, 25), Config(3, 4, 95, 95, 25),
   Config(20, 4, 95, 25, 25), Config(0, 4, 95, 95, 25)}
=============================================================================
