--------------------------- MODULE StopConditions ---------------------------
(***************************************************************************)
(* When the agent stops its experiments (agent/stop_conditions.cpp).       *)
(*                                                                         *)
(* A row is [hypothesis, variable, value, result], a result "pass", "fail" *)
(* or "inconclusive".  Rates and confidence are in percent.  The positions *)
(* of names and of values are their places in the order of the texts that  *)
(* stand for them, in which the sorted maps of the code iterate.           *)
(***************************************************************************)
EXTENDS Arrangement

CONSTANTS NamePosition(_), ValuePosition(_)

IsDecisive(row) == row.result \in {"pass", "fail"}

Rows(table) == {table[i] : i \in DOMAIN table}

FirstName(S) == CHOOSE v \in S : \A w \in S : NamePosition(v) <= NamePosition(w)
FirstValue(S) == CHOOSE v \in S : \A w \in S : ValuePosition(v) <= ValuePosition(w)

\* The values of variable v with a result r
ValuesWith(table, v, r) ==
  {row.value : row \in {row \in Rows(table) : row.variable = v /\ row.result = r}}

\* Broken form: one value that both fails and passes counts as a flip.
EitherWay(table, v) == ValuesWith(table, v, "fail") # {} /\ ValuesWith(table, v, "pass") # {}

\* The first failing value of v differs from its first passing one.
IsFlip(table, v) ==
  /\ ValuesWith(table, v, "fail") # {}
  /\ ValuesWith(table, v, "pass") # {}
  /\ FirstValue(ValuesWith(table, v, "fail")) # FirstValue(ValuesWith(table, v, "pass"))

\* FindSingleVariableFlip
Flipped(table) == {v \in {row.variable : row \in Rows(table)} : IsFlip(table, v)}

\* ValidateConfig and ValidateInput
ConfigIsValid(config) ==
  /\ config.maxRuns # 0 /\ config.window # 0
  /\ config.rate \in 0 .. 100 /\ config.threshold \in 0 .. 100

\* The places of the last decisive results, at most a window of them
Recent(config, table) ==
  LET decisive == {i \in DOMAIN table : IsDecisive(table[i])}
  IN  {i \in decisive : Cardinality({j \in decisive : i <= j}) <= config.window}

Failures(recent, table) == Cardinality({i \in recent : table[i].result = "fail"})

Refused == [reason |-> "refused", variable |-> <<>>]
Stop(reason) == [reason |-> reason, variable |-> <<>>]

\* EvaluateStopConditions, in its order of priority
Evaluate(config, table, confidence) ==
  LET recent == Recent(config, table)
  IN  CASE ~ConfigIsValid(config) \/ confidence \notin 0 .. 100 -> Refused
        [] OTHER ->
           IF Len(table) >= config.maxRuns THEN Stop("max_runs")
           ELSE IF Flipped(table) # {}
                THEN [reason |-> "single_variable_flip", variable |-> FirstName(Flipped(table))]
           ELSE IF confidence >= config.threshold THEN Stop("confidence_threshold")
           ELSE IF /\ Cardinality(recent) = config.window
                   /\ 100 * Failures(recent, table) >= config.rate * config.window
                THEN Stop("stable_repro_rate")
           ELSE Stop("continue")
=============================================================================
