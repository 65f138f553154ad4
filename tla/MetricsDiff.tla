----------------------------- MODULE MetricsDiff -----------------------------
(***************************************************************************)
(* The comparison of two runs by the summary rows of their metrics.csv     *)
(* (artifacts/metrics_diff_writer.cpp).                                    *)
(*                                                                         *)
(* A file is [header, rows]: whether its first line is the header of the   *)
(* contract, and its rows [name, columns, value].  A value is an integer,  *)
(* in units of more than the 1e-12 below which a difference is none, or    *)
(* NotANumber; ParseDouble reads an empty column as 0.                     *)
(***************************************************************************)
EXTENDS Arrangement

CONSTANT
  Preferred   \* BuildPreferredMetricOrder: names in the order of the report

ASSUME PreferredAssumption ==
  Preferred \in Seq(STRING) /\ \A i, j \in DOMAIN Preferred : Preferred[i] = Preferred[j] => i = j

NotANumber == 1000000

\* The places of the summary rows: rolling rows are left out before their value is
\* looked at.
SummaryRows(csv) ==
  {i \in DOMAIN csv.rows : csv.rows[i].columns = 5 /\ csv.rows[i].name # "rolling_fps"}

\* LoadSummaryMetricsFromCsv
CsvLoads(csv) ==
  LET rows == SummaryRows(csv)
  IN  /\ csv.header
      /\ \A i \in DOMAIN csv.rows : csv.rows[i].columns = 5 /\ csv.rows[i].name # ""
      /\ \A i \in rows : csv.rows[i].value # NotANumber
      /\ \A i, j \in rows : csv.rows[i].name = csv.rows[j].name => i = j
      /\ rows # {}

MetricNames(csv) == {csv.rows[i].name : i \in SummaryRows(csv)}

ValueOf(csv, name) == csv.rows[CHOOSE i \in SummaryRows(csv) : csv.rows[i].name = name].value

Common(baseline, run) == MetricNames(baseline) \cap MetricNames(run)

\* delta_percent is a number unless only the run has something.
HasPercent(baseline, run) == baseline # 0 \/ run = 0

Delta(baseline, run, name) ==
  [ metric |-> name, baseline |-> ValueOf(baseline, name), run |-> ValueOf(run, name),
    delta |-> ValueOf(run, name) - ValueOf(baseline, name),
    percent |-> HasPercent(ValueOf(baseline, name), ValueOf(run, name)) ]

\* The preferred names that both files have, in the order of the report
PreferredOnes(baseline, run) ==
  Kept(Preferred, {i \in DOMAIN Preferred : Preferred[i] \in Common(baseline, run)})

\* Broken form: names already reported are not struck off the rest.
NothingStruckOff(baseline, run) == PreferredOnes(baseline, run) \o Listed(Common(baseline, run))

\* The names both files have: the preferred ones first, then the rest.
ReportOrder(baseline, run) ==
  PreferredOnes(baseline, run)
    \o Listed(Common(baseline, run) \ {Preferred[i] : i \in DOMAIN Preferred})

\* ComputeMetricsDiffFromCsv: it fails without a metric to compare.
DiffFails(baseline, run) ==
  ~CsvLoads(baseline) \/ ~CsvLoads(run) \/ Common(baseline, run) = {}

Deltas(baseline, run) ==
  LET names == ReportOrder(baseline, run)
  IN  [i \in DOMAIN names |-> Delta(baseline, run, names[i])]

\* CountDeltaSummary
Summary(deltas) ==
  [ increased |-> Cardinality({i \in DOMAIN deltas : deltas[i].delta > 0}),
    decreased |-> Cardinality({i \in DOMAIN deltas : deltas[i].delta < 0}),
    unchanged |-> Cardinality({i \in DOMAIN deltas : deltas[i].delta = 0}) ]
=============================================================================
