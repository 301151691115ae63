------------------------------ MODULE MCLlmStep ------------------------------
(* One step with the three attempts of the code and a pool that two late     *)
(* attempts exhaust. The assumptions check the operators of EvalMetrics over *)
(* all lists of up to three results.                                         *)
EXTENDS LlmStep, EvalMetrics, FiniteSetsExt

AnyFirst == Completions
FixedOrNot == {"conforms", "deviates", "raised"}

Decided == {r \in EvalResults : r.priority_match /\ ~r.repair_attempted /\ r.schema_valid}
Lists == UNION {[1..n -> Decided] : n \in 0..3}

\* The score over a list by what it holds of each kind, whatever the order.
Count(results, Test(_, _)) ==
  Cardinality({i \in DOMAIN results : Test(results[i].expected, results[i].actual)})

RawByCount(results) ==
    10 * Count(results, LAMBDA e, a : e = a)
  - 10 * Count(results, LAMBDA e, a : e # a /\ (e = "BLOCK" \/ a = "BLOCK"))
  -  5 * Count(results, LAMBDA e, a : e = "REQUIRE_REVIEW" /\ a = "ALLOW")
  -  2 * Count(results, LAMBDA e, a : e = "ALLOW" /\ a = "REQUIRE_REVIEW")

ASSUME ScoreIsByCount == \A results \in Lists : RawScore(results) = RawByCount(results)

\* The score is a fraction of one; only a list without a mistake has it whole,
\* and only one with nothing but mistakes about BLOCK has none of it.
ASSUME ScoreIsFraction ==
  \A results \in Lists \ {<<>>} :
    LET score == calculate_compliance_score(results) IN
    /\ score \in 0..One
    /\ score = One <=> \A i \in DOMAIN results : results[i].expected = results[i].actual
    /\ score = 0 <=> \A i \in DOMAIN results :
                       /\ results[i].expected # results[i].actual
                       /\ "BLOCK" \in {results[i].expected, results[i].actual}

\* Correcting one decision never lowers the score.
ASSUME CorrectionNeverHurts ==
  \A results \in Lists :
    \A i \in DOMAIN results :
      calculate_compliance_score([results EXCEPT ![i].actual = results[i].expected])
        >= calculate_compliance_score(results)

\* The smoke test can only fail for a defect of the pipeline: the mock passes the
\* gate, whatever the baseline and the samples.
ASSUME MockPasses ==
  \A expected \in UNION {[1..n -> PolicyDecisions] : n \in 1..3} :
    LET report == MetricsOf([i \in DOMAIN expected |-> mock_qualify(expected[i])]) IN
    /\ report = [k \in Metrics |-> One]
    /\ \A x \in {0, 7400, 8050, One} : compare([k \in Metrics |-> x], report) = {TRUE}

\* The committed baseline, 50 samples: one wrong priority more passes, two do not,
\* and a single repaired sample is on the threshold, where the floats decide.
Baseline == [priority_accuracy |-> 7400, schema_valid_rate |-> One, compliance_score |-> 8050]

ASSUME GateOfBaseline ==
  /\ compare(Baseline, [Baseline EXCEPT !.priority_accuracy = Rounded(36, 50)]) = {TRUE}
  /\ compare(Baseline, [Baseline EXCEPT !.priority_accuracy = Rounded(35, 50)]) = {FALSE}
  /\ compare(Baseline, [Baseline EXCEPT !.schema_valid_rate = Rounded(49, 50)]) = BOOLEAN
=============================================================================
