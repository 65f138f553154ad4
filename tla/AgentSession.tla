---------------------------- MODULE AgentSession ----------------------------
(***************************************************************************)
(* A triage session: the variants of a base scenario are generated, each   *)
(* is run beside its baseline by ExperimentRunner and compared with it,    *)
(* the results decide whether to stop, and a packet sums them up.          *)
(*                                                                         *)
(* The parts are library calls; what puts them together is the driver of   *)
(* tests/agent/agent_triage_integration_smoke.cpp, with one hypothesis for *)
(* each knob, retries, and a driver that may decide after every attempt    *)
(* and keeps a run that neither passed nor failed as an inconclusive one,  *)
(* as ToResultStatus provides, where the test gives up.                    *)
(***************************************************************************)
EXTENDS VariantGenerator, EngineerPacket, MetricsDiff

LOCAL INSTANCE SequencesExt

CONSTANTS
  Bases,         \* scenario documents a session may start from
  SessionBases,  \* those that experiments are made with
  Revisions,     \* documents a user may replace one of SessionBases by
  Csvs,          \* contents of metrics.csv
  Configs,       \* stop configurations
  MaxAttempts

ASSUME SessionAssumption == MaxAttempts \in Nat \ {0} /\ SessionBases \cup Revisions \subseteq Bases

Knobs == ToSet(Playbook)

\* Metrics files are rows of text and numbers; a window counts results.
ASSUME InputAssumption ==
  /\ \A csv \in Csvs : csv.rows \in Seq([name : STRING, columns : Nat, value : Int])
  /\ \A config \in Configs : config.window \in Nat

\* A document has an object on the way to every value; its numbers are numbers.
ASSUME DocumentAssumption ==
  \A d \in Bases : \A p \in DOMAIN d :
    /\ p \in Seq(STRING) /\ Len(p) >= 1
    /\ \A i \in 1 .. Len(p) - 1 : SubSeq(p, 1, i) \in DOMAIN d /\ d[SubSeq(p, 1, i)] = Obj
    /\ IsNumber(d[p]) => d[p] \in [num : Int, part : {"none", "half", "fine"}]

\* The texts of the knobs' paths, which differ, have places in an order, and so have those
\* of the values that knobs lead from and to.
ASSUME TextAssumption ==
  /\ \A k \in Knobs : NamePosition(PathOf(k)) \in Nat
  /\ \A k, l \in Knobs : NamePosition(PathOf(k)) = NamePosition(PathOf(l)) => k = l
  /\ \A d \in Bases, k \in Knobs :
       ValuePosition(Entry(d, k).before) \in Nat /\ ValuePosition(Entry(d, k).after) \in Nat

VARIABLES
  base,      \* the base scenario file
  files,     \* the files of the variants, by knob
  manifest,  \* the entries of variants_manifest.json
  result,    \* VariantGenerationResult.variants of the last call
  at,        \* where the driver is
  trial,     \* the experiment under way
  diff,      \* its comparison with the baseline
  attempts,  \* the experiments made
  asked,     \* what the stop conditions were evaluated with
  decision,
  packet     \* engineer_packet.md

vars == <<base, files, manifest, result, at, trial, diff, attempts, asked, decision, packet>>

None == [none |-> TRUE]
Results == {"pass", "fail", "inconclusive"}
BaselineRun == MaxAttempts + 1

Places == {"idle", "writing", "refused", "generated", "baseline", "ran", "compared", "recorded",
           "decided", "done", "aborted"}

Init ==
  /\ base \in Bases
  /\ files = [k \in Knobs |-> None]
  /\ manifest = <<>> /\ result = <<>> /\ attempts = <<>>
  /\ at = "idle"
  /\ trial = None /\ diff = None /\ asked = None /\ decision = None /\ packet = None

session == <<trial, diff, attempts, asked, decision, packet>>

-----------------------------------------------------------------------------
(***************************************************************************)
(* OaatVariantGenerator::Generate                                          *)
(***************************************************************************)

\* Broken form: the result of an earlier call is added to.
ResultKept ==
  /\ at \in {"idle", "refused"}
  /\ at' = "writing"
  /\ UNCHANGED <<base, files, manifest, result, session>>

\* The request is valid, the base is a document, the symptom has a playbook.
StartGenerate ==
  /\ at \in {"idle", "refused"}
  /\ at' = "writing"
  /\ result' = <<>>
  /\ UNCHANGED <<base, files, manifest, session>>

\* It is not, or the output directory cannot be made.
RefuseGenerate ==
  /\ at = "idle"
  /\ at' = "refused"
  /\ result' = <<>>
  /\ UNCHANGED <<base, files, manifest, session>>

\* One knob of the playbook: its variant replaces the file of an earlier call.
WriteVariant ==
  /\ at = "writing" /\ Len(result) < Len(Playbook)
  /\ LET knob == Playbook[Len(result) + 1]
     IN  /\ files' = [files EXCEPT ![knob] = Serialized(Variant(base, knob))]
         /\ result' = Append(result, Entry(base, knob))
  /\ UNCHANGED <<base, manifest, at, session>>

WriteManifest ==
  /\ at = "writing" /\ Len(result) = Len(Playbook)
  /\ manifest' = result
  /\ at' = "generated"
  /\ UNCHANGED <<base, files, result, session>>

\* A write of a variant or of the manifest fails; what was written stays.
WriteFails ==
  /\ at = "writing"
  /\ at' = "refused"
  /\ UNCHANGED <<base, files, manifest, result, session>>

\* The user edits the base and calls Generate again.
EditBase ==
  /\ at \in {"generated", "refused"} /\ base \in SessionBases
  /\ base' \in Revisions \ {base}
  /\ at' = "idle"
  /\ UNCHANGED <<files, manifest, result, session>>

-----------------------------------------------------------------------------
(***************************************************************************)
(* ExperimentRunner::RunBaselineAndVariant.  The files it tests for are    *)
(* there once Generate has returned true.                                  *)
(***************************************************************************)

\* Exit codes of ExecuteScenarioRun: 0, 30 for failed thresholds, or another one.  A
\* document that is refused can only end in another.
Exits(d) == IF Loads(d) THEN {"0", "30", "other"} ELSE {"other"}

\* ToResultStatus of the driver
ResultOf(exit) == CASE exit = "0" -> "pass" [] exit = "30" -> "fail" [] OTHER -> "inconclusive"

\* The next variant of the manifest, or the last one again
NextKnobs ==
  IF attempts = <<>> THEN {Playbook[1]}
  ELSE LET i == CHOOSE i \in DOMAIN Playbook : Playbook[i] = Last(attempts).knob
       IN  {Playbook[j] : j \in {i, i + 1} \cap DOMAIN Playbook}

\* The baseline has to pass before the variant is run.
RunBaseline ==
  /\ \/ at = "generated"
     \/ at = "recorded"
     \/ at = "decided" /\ decision.reason = "continue"
  /\ base \in SessionBases
  /\ Len(attempts) < MaxAttempts
  /\ \E exit \in Exits(base) : at' = IF exit = "0" THEN "baseline" ELSE "aborted"
  /\ UNCHANGED <<base, files, manifest, result, session>>

RunVariant ==
  /\ at = "baseline"
  /\ \E knob \in NextKnobs : \E exit \in Exits(files[knob]) :
       /\ trial' = [knob |-> knob, result |-> ResultOf(exit)]
       /\ at' = IF exit = "other" THEN "compared" ELSE "ran"
  /\ UNCHANGED <<base, files, manifest, result, diff, attempts, asked, decision, packet>>

-----------------------------------------------------------------------------
(***************************************************************************)
(* The driver                                                              *)
(***************************************************************************)

\* ComputeMetricsDiffFromCsv of the two bundles and its two reports; without them the
\* driver gives up.
Compare ==
  /\ at = "ran"
  /\ \E b, r \in Csvs :
       IF DiffFails(b, r)
       THEN diff' = None /\ at' = "aborted"
       ELSE /\ diff' = [baseline |-> b, run |-> r, deltas |-> Deltas(b, r),
                        summary |-> Summary(Deltas(b, r))]
            /\ at' = "compared"
  /\ UNCHANGED <<base, files, manifest, result, trial, attempts, asked, decision, packet>>

\* Broken form: the attempt is numbered before it is counted.
RecordUncounted ==
  /\ at = "compared"
  /\ attempts' = Append(attempts, [sequence |-> Len(attempts), run |-> Len(attempts),
                                   knob |-> trial.knob, result |-> trial.result])
  /\ trial' = None /\ diff' = None
  /\ at' = "recorded"
  /\ UNCHANGED <<base, files, manifest, result, asked, decision, packet>>

Record ==
  /\ at = "compared"
  /\ LET n == Len(attempts) + 1
     IN  attempts' = Append(attempts, [sequence |-> n, run |-> n, knob |-> trial.knob,
                                       result |-> trial.result])
  /\ trial' = None /\ diff' = None
  /\ at' = "recorded"
  /\ UNCHANGED <<base, files, manifest, result, asked, decision, packet>>

EntryOf(knob) == CHOOSE entry \in ToSet(result) : entry.knob = knob

\* The state's results table: a row for the baseline's value of the suspected knob, which
\* passed, and one for each attempt.
Table(suspect) ==
  <<[hypothesis |-> PathOf(suspect), variable |-> PathOf(suspect), value |-> EntryOf(suspect).before,
     result |-> "pass", run |-> BaselineRun]>>
  \o [ i \in DOMAIN attempts |->
         [hypothesis |-> PathOf(attempts[i].knob), variable |-> PathOf(attempts[i].knob),
          value |-> EntryOf(attempts[i].knob).after, result |-> attempts[i].result,
          run |-> attempts[i].run] ]

\* The baseline and every run; those that ended were compared with it.
Evidence ==
  <<[run |-> BaselineRun, diff |-> FALSE]>>
  \o [ i \in DOMAIN attempts |->
         [run |-> attempts[i].run, diff |-> attempts[i].result # "inconclusive"] ]

Decide ==
  /\ at = "recorded"
  /\ \E suspect \in Knobs, config \in Configs :
       /\ asked' = [suspect |-> suspect, config |-> config]
       /\ decision' = Evaluate(config, Table(suspect), config.confidence)
  /\ at' = IF decision'.reason = "refused" THEN "aborted" ELSE "decided"
  /\ UNCHANGED <<base, files, manifest, result, trial, diff, attempts, packet>>

WritePacket ==
  /\ at = "decided" /\ decision.reason # "continue"
  /\ packet' = Packet({PathOf(k) : k \in Knobs}, Table(asked.suspect), attempts, Evidence)
  /\ at' = "done"
  /\ UNCHANGED <<base, files, manifest, result, trial, diff, attempts, asked, decision>>

Next ==
  \/ StartGenerate \/ RefuseGenerate \/ WriteVariant \/ WriteManifest \/ WriteFails \/ EditBase
  \/ RunBaseline \/ RunVariant \/ Compare \/ Record \/ Decide \/ WritePacket

Spec == Init /\ [][Next]_vars
-----------------------------------------------------------------------------
(***************************************************************************)
(* Properties                                                              *)
(***************************************************************************)

\* Every part of the state has its kind, and the variants told so far are a beginning
\* of the playbook, in its order.
TypeOK ==
  /\ at \in Places
  /\ DOMAIN files = Knobs
  /\ \A entries \in {manifest, result} :
       /\ Len(entries) <= Len(Playbook)
       /\ \A i \in DOMAIN entries : entries[i].knob = Playbook[i]
  /\ Len(manifest) \in {0, Len(Playbook)}
  /\ \A i \in DOMAIN attempts :
       attempts[i].sequence = i /\ attempts[i].knob \in Knobs /\ attempts[i].result \in Results

\* Keys that only old fixtures have at the root of a document
Legacy(d) ==
  DOMAIN d \cap ({<<Last(p)>> : p \in {p \in IntegerKeys \cup NumberKeys \cup TextKeys :
                                          Len(p) > 1}} \cup {<<"roi">>})

Numbers(d) == {d[p] : p \in {p \in DOMAIN d : IsNumber(d[p])}}

\* No number of d changes when it is written again, or overflows when a knob adds to it.
IsPlain(d) ==
  /\ Legacy(d) = {}
  /\ \A v \in Numbers(d) : v.part # "fine" /\ v.num <= MaxI64 - 5000

\* What `labops validate` accepts is what `labops run` runs: a document of the schema
\* with no issue is refused for nothing but a number beyond 32 bits, and every value in
\* it that a run reads arrives in the plan as written.  (The two parsers are written
\* twice, ValidateScenarioObject and LoadRunPlanFromScenario; validator.cpp:565 promises
\* the same for device selectors.)
ValidatedRuns ==
  (at = "idle" /\ Valid(base) /\ Legacy(base) = {}) =>
    /\ Refusals(base) \subseteq TooWide(Model(base))
    /\ \A p \in DOMAIN base \cap DOMAIN Planned(base) :
         \/ Planned(base)[p] = base[p]
         \/ p = DurationMs /\ base[p].num > MaxI64

\* Every variant of a valid scenario is a valid scenario, and one that `labops run` loads
\* if it loads the base: no knob leaves the range the validator allows.
VariantsStayValid ==
  (at = "generated" /\ Valid(base) /\ IsPlain(base)) =>
    \A knob \in Knobs : Valid(files[knob]) /\ (Loads(base) => Loads(files[knob]))

\* What a run of d uses at a path; where there is nothing the camera is left alone.
Used(d, p) == IF p \in DOMAIN Planned(d) THEN Planned(d)[p] ELSE Num(0)

Apart(p, q) == ~IsPrefix(p, q) /\ ~IsPrefix(q, p)

\* After a generation that succeeded, whatever files earlier ones left, the manifest tells
\* what each file is: the base with one thing changed, and that from the value a run of
\* the base uses to the one a run of the variant uses, which differ unless the knob is at
\* its end.  (variant_generator.hpp: each output differs by one knob from the base.)
ManifestTellsVariants ==
  (at = "generated" /\ Valid(base) /\ IsPlain(base)) =>
    \A i \in DOMAIN manifest :
      LET entry == manifest[i]
          variant == files[entry.knob]
          others == {p \in DOMAIN base \cup DOMAIN variant : Apart(p, entry.path)}
      IN  /\ \A p \in others :
               p \in DOMAIN base /\ p \in DOMAIN variant /\ variant[p] = base[p]
          /\ (entry.path # Roi /\ (entry.path = Fps => RequestedFps \notin DOMAIN base)) =>
               /\ entry.before = Used(base, entry.path)
               /\ entry.after = Used(variant, entry.path)
               /\ entry.before = entry.after => entry.before \in {Num(1), Num(100)}
          /\ entry.path = Roi => HasRoi(base) # HasRoi(variant)

\* The agent stops for a reason that its results bear out, and goes on only while none
\* does: a flip is one value that failed and another that passed, a stable reproduction
\* has a failure in it, and no variable whose failing and passing values are apart is
\* passed over.
StopIsJustified ==
  at \in {"decided", "done"} =>
    LET table == Table(asked.suspect)
        failing(v) == ValuesWith(table, v, "fail")
        passing(v) == ValuesWith(table, v, "pass")
    IN  /\ decision.reason = "single_variable_flip" =>
             \E x \in failing(decision.variable), y \in passing(decision.variable) : x # y
        /\ decision.reason = "stable_repro_rate" /\ asked.config.rate > 0 =>
             \E row \in Rows(table) : row.result = "fail"
        /\ decision.reason \notin {"single_variable_flip", "max_runs"} =>
             \A row \in Rows(table) :
               \/ failing(row.variable) = {} \/ passing(row.variable) = {}
               \/ failing(row.variable) \cap passing(row.variable) # {}

FailedRuns(knob) ==
  {attempts[i].run : i \in {i \in DOMAIN attempts :
                               attempts[i].knob = knob /\ attempts[i].result = "fail"}}

\* The packet does not contradict the decision it reports: the isolated variable has a
\* failed run linked as evidence, and unless it passed as well its hypothesis is ranked
\* above all that never failed, and it is not listed as ruled out.  (The baseline's row
\* counts against it.)
IsolatedRanksFirst ==
  (at = "done" /\ decision.reason = "single_variable_flip") =>
    LET knob == CHOOSE k \in Knobs : PathOf(k) = decision.variable
        place(k) == CHOOSE i \in DOMAIN packet.ranked : packet.ranked[i].hypothesis = PathOf(k)
        passed == \E i \in DOMAIN attempts :
                    attempts[i].knob = knob /\ attempts[i].result = "pass"
    IN  /\ FailedRuns(knob) \cap packet.linked[decision.variable] # {}
        /\ ~passed =>
             /\ \A a \in ToSet(packet.ruledOut) : a.knob # knob
             /\ \A k \in Knobs : FailedRuns(k) = {} => place(knob) < place(k)

\* A comparison accounts for every metric both files have, once; its summary counts them
\* all; and it is the mirror image of the comparison the other way round.
DiffAccounts ==
  diff # None =>
    LET names == {diff.deltas[i].metric : i \in DOMAIN diff.deltas}
        back == Summary(Deltas(diff.run, diff.baseline))
    IN  /\ names = Common(diff.baseline, diff.run)
        /\ Len(diff.deltas) = Cardinality(names)
        /\ diff.summary.increased + diff.summary.decreased + diff.summary.unchanged
             = Cardinality(names)
        /\ back = [diff.summary EXCEPT !.increased = diff.summary.decreased,
                                       !.decreased = diff.summary.increased]
=============================================================================
