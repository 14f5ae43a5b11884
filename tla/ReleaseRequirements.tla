-------------------------- MODULE ReleaseRequirements --------------------------
(***************************************************************************)
(* When a measured candidate is good enough (candidate_evaluation.py): the *)
(* generalization evidence, the target's requirements, the improvement on  *)
(* the baseline and the order of candidates.  Operators only.  A value     *)
(* that may be missing is a set of at most one element, a ratio is a pair, *)
(* and thresholds are percentages.                                         *)
(***************************************************************************)
EXTENDS LayerCascade

CONSTANTS
    Req,        \* the target's requirements
    Objective   \* "coverage", "latency" or "cost"

Given(x) == x # {}
Above(ratios, limit) == \E q \in ratios, n \in limit : 100 * q[1] > n * q[2]
Below(ratios, limit) == \E q \in ratios, n \in limit : 100 * q[1] < n * q[2]

Ratio(a, b) == IF b = 0 THEN {} ELSE {<<a, b>>}
Precision(m) == Ratio(m.correct, m.accepted)
Coverage(m)  == <<m.accepted, IF m.samples = 0 THEN 1 ELSE m.samples>>

\* The lower bound is five points below the precision, and not below zero.
LowerBound(m) ==
    LET low == 100 * m.correct - 5 * m.accepted
    IN  Ratio(IF low < 0 THEN 0 ELSE low, 100 * m.accepted)

\* Five points above the rate of wrong accepts, and at most one.
UpperBound(m) ==
    IF m.accepted = 0 THEN <<5, 100>>
    ELSE LET high == 100 * m.wrong + 5 * m.accepted
         IN  <<IF high > 100 * m.accepted THEN 100 * m.accepted ELSE high, 100 * m.accepted>>

-----------------------------------------------------------------------------
(* Generalization evidence. *)

Enough(m) == m.accepted >= Req.min_accepted
Sliced(slices) ==
    \/ Req.min_slice = 0
    \/ slices # {} /\ \A s \in slices : s.m.samples >= Req.min_slice

Evidence(fails, lacks) == IF fails THEN "fail" ELSE IF lacks THEN "insufficient" ELSE "pass"

\* Faulty variant: a wrong accept on test rows is left to the precision check.
SummaryTolerant(m, slices, drop, retention, tested) ==
    [drop |-> drop, retention |-> retention, slices |-> slices,
     evidence |-> Evidence(Above(drop, Req.drop_max) \/ Below(retention, Req.retention_min),
                           ~Enough(m) \/ ~Sliced(slices))]

Summary(m, slices, drop, retention, tested) ==
    [drop |-> drop, retention |-> retention, slices |-> slices,
     evidence |-> Evidence(\/ tested /\ m.wrong > 0
                           \/ Above(drop, Req.drop_max)
                           \/ Below(retention, Req.retention_min),
                           ~Enough(m) \/ ~Sliced(slices))]

\* Without a test result the coverage retained is none.
ValidationSummary(m, slices) ==
    Summary(m, slices, {}, Ratio(0, m.accepted), FALSE)

\* The test rows are first compared with themselves.
TestSummary(m, slices) ==
    Summary(m, slices, Ratio(0, m.accepted), Ratio(m.accepted, m.accepted), TRUE)

\* Then with the validation report of the candidate,
Reconciled(base, v, m) ==
    LET drop == IF v.accepted = 0 \/ m.accepted = 0 THEN {}
                ELSE {<<v.correct * m.accepted - m.correct * v.accepted, v.accepted * m.accepted>>}
        retention == Ratio(m.accepted * v.samples, v.accepted * m.samples)
    IN  [base EXCEPT
            !.drop = drop, !.retention = retention,
            !.evidence = Evidence(\/ base.evidence = "fail"
                                  \/ Above(drop, Req.drop_max)
                                  \/ Below(retention, Req.retention_min),
                                  \/ base.evidence = "insufficient"
                                  \/ Given(Req.drop_max) /\ ~Given(drop)
                                  \/ Given(Req.retention_min) /\ ~Given(retention))]

\* or, when none is given and transfer is required, it is insufficient,
\* also where it had failed.
Unpaired(base) ==
    IF Given(Req.drop_max) \/ Given(Req.retention_min)
      THEN [base EXCEPT !.drop = {}, !.retention = {}, !.evidence = "insufficient"]
      ELSE base

-----------------------------------------------------------------------------
(* Requirement results, as pairs of a name and a status. *)

Check(name, required, fails) ==
    IF Given(required) THEN {<<name, IF fails THEN "fail" ELSE "pass">>} ELSE {}

Transfer(name, required, known, fails) ==
    IF ~Given(required) THEN {}
    ELSE IF ~Given(known) THEN {<<name, "insufficient">>}
    ELSE {<<name, IF fails THEN "fail" ELSE "pass">>}

PrecisionResult(m) ==
    IF ~Enough(m) THEN {<<"min_accepted_samples", "insufficient">>}
    ELSE {<<"precision_min",
            IF ~Given(LowerBound(m)) \/ Below(LowerBound(m), {Req.precision_min})
              THEN "fail" ELSE "pass">>}

CriticalResults(slices) ==
    LET critical == {s \in slices : s.tag \in Req.critical}
        missing  == Req.critical \ {s.tag : s \in critical}
        precise  == UNION {Precision(s.m) : s \in critical}
    IN  IF Req.critical = {} THEN {}
        ELSE IF missing # {} \/ \E s \in critical : s.m.samples < Req.min_slice
          THEN {<<"critical_slices", "insufficient">>}
        ELSE Check("critical_slice_precision_min", Req.critical_precision_min,
                   precise = {} \/ Below(precise, Req.critical_precision_min))
               \cup Check("critical_slice_coverage_min", Req.critical_coverage_min,
                          Below({Coverage(s.m) : s \in critical}, Req.critical_coverage_min))

RequirementResults(m, gen, p95, cost) ==
    PrecisionResult(m)
      \cup Check("wrong_accept_rate_max", Req.wrong_max, Above({UpperBound(m)}, Req.wrong_max))
      \cup Check("p95_latency_ms_max", Req.p95_max, \E n \in Req.p95_max : p95 > n)
      \cup Check("serving_cost_per_1000_max", Req.cost_max, \E n \in Req.cost_max : cost > n)
      \cup Transfer("precision_drop", Req.drop_max, gen.drop, Above(gen.drop, Req.drop_max))
      \cup Transfer("coverage_retention", Req.retention_min, gen.retention,
                    Below(gen.retention, Req.retention_min))
      \cup (IF Sliced(gen.slices) THEN {} ELSE {<<"min_slice_samples", "insufficient">>})
      \cup CriticalResults(gen.slices)
      \cup {<<"generalization", gen.evidence>>}

\* Strictly better than the base Release where that is measured.
BaselineResults(m, p95, cost, baseline) ==
    LET worse == \/ Objective = "coverage"
                      /\ \E q \in baseline.coverage : Coverage(m)[1] * q[2] <= q[1] * Coverage(m)[2]
                 \/ Objective = "latency" /\ \E n \in baseline.p95 : p95 >= n
                 \/ Objective = "cost" /\ \E n \in baseline.cost : cost >= n
    IN  IF worse THEN {<<"baseline_improvement", "fail">>} ELSE {}

SafetyResults(safe) == IF safe THEN {} ELSE {<<"fault_fallback", "fail">>}

Has(results, status) == \E r \in results : r[2] = status
Passes(results) == ~Has(results, "fail") /\ ~Has(results, "insufficient")

StatusOf(results) ==
    IF Passes(results) THEN "eligible_for_release"
    ELSE IF Has(results, "fail") THEN "rejected"
    ELSE "insufficient_evidence"

\* _candidate_objective_key, as an order: r is at least as good as q.
AtLeastAsGood(r, q) ==
    \/ Objective = "coverage"
         /\ Coverage(r.m)[1] * Coverage(q.m)[2] >= Coverage(q.m)[1] * Coverage(r.m)[2]
    \/ Objective = "latency" /\ r.p95 <= q.p95
    \/ Objective = "cost" /\ r.cost <= q.cost

=============================================================================
