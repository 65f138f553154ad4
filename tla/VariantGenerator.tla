-------------------------- MODULE VariantGenerator --------------------------
(***************************************************************************)
(* Variants of a scenario that change one thing at a time, as              *)
(* OaatVariantGenerator makes them (agent/variant_generator.cpp) for the   *)
(* knobs of a playbook (agent/playbook.cpp).                               *)
(***************************************************************************)
EXTENDS Scenario

CONSTANT
  Beyond   \* what the processor makes of a double beyond int64 when it is cast

ASSUME CastAssumption == Beyond \in {MaxI64, -MaxI64 - 1}

LOCAL INSTANCE SequencesExt
LOCAL INSTANCE FiniteSetsExt

\* BuildDroppedFramesPlaybook, the only one there is
Playbook == <<"packet_delay_ms", "fps", "roi_enabled", "reorder_percent", "loss_percent">>

PathOf(knob) ==
  CASE knob = "packet_delay_ms" -> Delay
    [] knob = "fps" -> Fps
    [] knob = "roi_enabled" -> Roi
    [] knob = "reorder_percent" -> Reorder
    [] knob = "loss_percent" -> DropPercent

\* NormalizeSymptom and SelectPlaybookForSymptom
HasPlaybook(symptom) == symptom \in {"dropped_frames", "frame_drops", "drops"}

-----------------------------------------------------------------------------
(***************************************************************************)
(* Integers.  Signed sums wrap.                                            *)
(***************************************************************************)
AsInt64(n) == IF n > MaxI64 THEN Beyond ELSE n

Wrapped(n) ==
  CASE n > MaxI64 -> n - 2 * (MaxI64 + 1)
    [] n < -MaxI64 - 1 -> n + 2 * (MaxI64 + 1)
    [] OTHER -> n

Clamped(n) == Max({0, Min({n, 100})})

\* SerializeJson of a number: integers go through int64.
Serialized(d) ==
  [ p \in DOMAIN d |->
      IF IsNumber(d[p]) /\ d[p].part # "half" THEN Num(AsInt64(d[p].num)) ELSE d[p] ]

\* What a knob starts from where the base has no integer of its own
DefaultOf(path) ==
  CASE path = Fps -> 30
    [] Last(path) = "width" -> 1920
    [] Last(path) = "height" -> 1080
    [] OTHER -> 0

\* ReadIntegerAtPath(...).value_or(...)
ReadInteger(d, path) ==
  IF path \in DOMAIN d /\ IsNumber(d[path]) /\ d[path].part # "half"
  THEN AsInt64(d[path].num)
  ELSE DefaultOf(path)

\* SetIntegerAtPath: whatever is on the way becomes an object.
WithInteger(d, path, n) ==
  LET above == {SubSeq(path, 1, i) : i \in 1 .. Len(path) - 1}
      kept == {q \in DOMAIN d : ~IsStrictPrefix(path, q)}
  IN  [ q \in kept \cup above \cup {path} |->
          CASE q = path -> Num(n)
            [] q \in above -> Obj
            [] OTHER -> d[q] ]

-----------------------------------------------------------------------------
(***************************************************************************)
(* Knobs                                                                   *)
(***************************************************************************)

\* Broken form: the rate is not kept above zero.
OneFrameLess(path, n) ==
  CASE path = Delay -> Wrapped(n + 5000)
    [] path = Fps -> n - 1
    [] path = Reorder -> Clamped(Wrapped(n + 5))
    [] path = DropPercent -> IF n >= 100 THEN 90 ELSE Clamped(Wrapped(n + 10))

\* The candidate value of an integer knob
Candidate(path, n) ==
  CASE path = Delay -> Wrapped(n + 5000)
    [] path = Fps -> Max({1, Wrapped(n - 1)})
    [] path = Reorder -> Clamped(Wrapped(n + 5))
    [] path = DropPercent -> IF n >= 100 THEN 90 ELSE Clamped(Wrapped(n + 10))

HasRoi(d) == Roi \in DOMAIN d

WithoutRoi(d) == [q \in {q \in DOMAIN d : ~IsPrefix(Roi, q)} |-> d[q]]

WithRoi(d) ==
  LET half(side) == Max({1, ReadInteger(d, Append(Camera, side)) \div 2})
      corner == WithInteger(WithInteger(d, Append(Roi, "x"), 0), Append(Roi, "y"), 0)
  IN  WithInteger(WithInteger(corner, Append(Roi, "width"), half("width")),
                  Append(Roi, "height"), half("height"))

\* ApplyKnobMutation: the variant of base d, and its row in the manifest.
Variant(d, knob) ==
  LET path == PathOf(knob)
  IN  CASE knob # "roi_enabled" ->
             WithInteger(d, path, Candidate(path, ReadInteger(d, path)))
        [] knob = "roi_enabled" /\ HasRoi(d) -> WithoutRoi(d)
        [] knob = "roi_enabled" /\ ~HasRoi(d) -> WithRoi(d)

Entry(d, knob) ==
  LET path == PathOf(knob)
      before == ReadInteger(d, path)
  IN  [ knob |-> knob, path |-> path,
        before |-> CASE knob # "roi_enabled" -> Num(before)
                     [] knob = "roi_enabled" /\ HasRoi(d) -> Str("enabled")
                     [] knob = "roi_enabled" /\ ~HasRoi(d) -> Str("disabled"),
        after |-> CASE knob # "roi_enabled" -> Num(Candidate(path, before))
                    [] knob = "roi_enabled" /\ HasRoi(d) -> Str("disabled")
                    [] knob = "roi_enabled" /\ ~HasRoi(d) -> Str("enabled") ]
=============================================================================
