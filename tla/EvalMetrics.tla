----------------------------- MODULE EvalMetrics -----------------------------
(***************************************************************************)
(* The evaluation of the qualification prompt and the gate that keeps a    *)
(* change of it out.                                                       *)
(*   eval/run_eval.py   a sample, and the report of a run                  *)
(*   eval/metrics.py    the three metrics                                  *)
(*   eval/compare.py    the gate                                           *)
(*                                                                         *)
(* Metrics are in units of 1/10000, the fourth digit that run_eval rounds  *)
(* to; weights are in tenths. Where the code subtracts binary floats and   *)
(* compares the difference with a threshold, the outcome is exact, except  *)
(* that a difference equal to the threshold may come out on either side.   *)
(***************************************************************************)
EXTENDS LlmChain, Integers, Sequences, SequencesExt

PolicyDecisions == {"ALLOW", "REQUIRE_REVIEW", "BLOCK"}

\* A sample: was the priority right, the decisions, and the flags of the chain.
EvalResults == [priority_match : BOOLEAN,
                expected : PolicyDecisions, actual : PolicyDecisions,
                schema_valid : BOOLEAN, repair_attempted : BOOLEAN]

Metrics == {"priority_accuracy", "schema_valid_rate", "compliance_score"}
One == 10000

\* real_qualify: the chain put together anew; chosen as there. Any other exception
\* ends the evaluation.
real_qualify(first, second) ==
  CASE parse_response(first) = "parsed" ->
         [chosen |-> "first", schema_valid |-> TRUE, repair_attempted |-> FALSE]
    [] parse_response(first) \in Caught /\ repair_json(second) = "conforms" ->
         [chosen |-> "second", schema_valid |-> TRUE, repair_attempted |-> TRUE]
    [] parse_response(first) \in Caught /\ repair_json(second) # "conforms" ->
         [chosen |-> "none", schema_valid |-> FALSE, repair_attempted |-> TRUE]

\* mock_qualify: what was expected, at the first try.
mock_qualify(expected) ==
  [priority_match |-> TRUE, expected |-> expected, actual |-> expected,
   schema_valid |-> TRUE, repair_attempted |-> FALSE]

-----------------------------------------------------------------------------

\* part / whole in the unit, rounded to the nearest.
Rounded(part, whole) == (2 * One * part + whole) \div (2 * whole)

\* 0.0 without results.
Rate(correct, results) ==
  IF results = <<>> THEN 0 ELSE Rounded(Len(correct), Len(results))

calculate_priority_accuracy(results) ==
  Rate(SelectSeq(results, LAMBDA r : r.priority_match), results)

calculate_schema_valid_rate(results) ==
  Rate(SelectSeq(results, LAMBDA r : r.schema_valid /\ ~r.repair_attempted), results)

\* The branches in their order: what has to do with BLOCK comes first.
Weight(expected, actual) ==
  CASE actual = expected -> 10
    [] actual # expected /\ "BLOCK" \in {expected, actual} -> -10
    [] actual = "ALLOW" /\ expected = "REQUIRE_REVIEW" -> -5
    [] actual = "REQUIRE_REVIEW" /\ expected = "ALLOW" -> -2

RawScore(results) == FoldSeq(LAMBDA r, sum : sum + Weight(r.expected, r.actual), 0, results)

calculate_compliance_score(results) ==
  IF results = <<>> THEN 0
  ELSE Rounded(RawScore(results) + 10 * Len(results), 20 * Len(results))

MetricsOf(results) ==
  [priority_accuracy |-> calculate_priority_accuracy(results),
   schema_valid_rate |-> calculate_schema_valid_rate(results),
   compliance_score |-> calculate_compliance_score(results)]

-----------------------------------------------------------------------------

REGRESSION_THRESHOLDS ==
  [priority_accuracy |-> 300, schema_valid_rate |-> 200, compliance_score |-> 1000]

Regression(metric, baseline, report) == baseline[metric] - report[metric]

\* regression > max_regression, as the floats may have it and as they must.
MayFail(metric, baseline, report) ==
  Regression(metric, baseline, report) >= REGRESSION_THRESHOLDS[metric]

MustFail(metric, baseline, report) ==
  Regression(metric, baseline, report) > REGRESSION_THRESHOLDS[metric]

\* The answers that are possible: TRUE lets the report through.
compare(baseline, report) ==
  {passed \in BOOLEAN :
     IF passed THEN \A k \in Metrics : ~MustFail(k, baseline, report)
               ELSE \E k \in Metrics : MayFail(k, baseline, report)}
=============================================================================
