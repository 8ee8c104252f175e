------------------------------ MODULE Measures ------------------------------
(***************************************************************************)
(* The measuring queries of the validation job as operators on the tables: *)
(* F.1 coverage, F.2 areas (F.3's distances go with them), F.4 reduction   *)
(* (internal/validation/metrics, comparison) and F.5 precision and recall  *)
(* (internal/validation/integrity).  The estimates table is a function     *)
(* from events to the lambda their rows were made with, 0 for none: an     *)
(* event has one row per key, all written by one statement.                *)
(***************************************************************************)
EXTENDS Sampling

CONSTANTS
    Key,            \* method and confidence of an estimate row
    Recorded,       \* events with a row in hts_records
    Covered,        \* events whose truth row says covered
    Injected,       \* [Event -> 0..5], truth row's injected_rule, 0 for NULL
    HitFrom,        \* [Key -> [Event -> Nat]], smallest lambda that covers
    AreaOf,         \* [Key -> [Event -> Nat]], area at lambda 1
    Finding         \* [event, rule, suppressed, phase], what S4 will find

ASSUME MeasuresAssumption ==
    /\ {"B0", "B1", "M90"} \subseteq Key /\ IsFiniteSet(Key) /\ IsFiniteSet(Finding)
    /\ Recorded \subseteq Covered /\ Covered \subseteq Event
    /\ Injected \in [Event -> 0..5]
    /\ HitFrom \in [Key -> [Event -> Nat]] /\ AreaOf \in [Key -> [Event -> Nat]]

RowsPerEvent == Cardinality(Key)

Estimated(estimate) == {e \in DOMAIN estimate : estimate[e] # 0}
CountEstimates(estimate) == RowsPerEvent * Cardinality(Estimated(estimate))

\* estimates JOIN ground_truth on the event, one partition.
Joined(estimate, truths, p) ==
    {e \in Estimated(estimate) \cap truths : Of(e) = p}

\* F.1 leaves out the events the truth says were not covered.
Measured(estimate, truths, p) == Joined(estimate, truths, p) \cap Covered

Coverage(estimate, truths, p) ==
    LET m == Measured(estimate, truths, p)
    IN  [k \in IF m = {} THEN {} ELSE Key |->
            [n |-> Cardinality(m),
             hits |-> Cardinality({e \in m : estimate[e] >= HitFrom[k][e]})]]

(***************************************************************************)
(* F.2 does not filter on covered.  The model scales with lambda, the two  *)
(* baselines do not.  percentile_cont(0.5) is the mean of the two middle   *)
(* values: twice the median is their sum.                                  *)
(***************************************************************************)
Area(estimate, k, e) ==
    IF k \in {"B0", "B1"} THEN AreaOf[k][e] ELSE AreaOf[k][e] * estimate[e]

TwiceMedian(set, value) ==
    LET n == Cardinality(set)
        Rank(i) == CHOOSE v \in {value[e] : e \in set} :
                     /\ Cardinality({e \in set : value[e] < v}) < i
                     /\ Cardinality({e \in set : value[e] <= v}) >= i
    IN  Rank((n + 1) \div 2) + Rank((n \div 2) + 1)

AreaStats(estimate, truths, p) ==
    LET j == Joined(estimate, truths, p)
    IN  [k \in IF j = {} THEN {} ELSE Key |->
            TwiceMedian(j, [e \in j |-> Area(estimate, k, e)])]

\* F.4: the medians of the partition V; an answer needs all three and a
\* positive baseline.
Reductions(estimate, truths) == AreaStats(estimate, truths, "V")

Reducible(f4) == /\ {"B0", "B1", "M90"} \subseteq DOMAIN f4
                 /\ f4["B0"] > 0 /\ f4["B1"] > 0

\* 1 - M/B, kept as the pair it is made of.
ReductionOf(f4) == [m |-> f4["M90"], b0 |-> f4["B0"], b1 |-> f4["B1"]]

NoReduction == [m |-> 0, b0 |-> 0, b1 |-> 0]

\* The rows Compute joins from F.1 and F.2; F.4 goes on the model's row.
Computable(f1, f2) == /\ DOMAIN f1 # {}
                      /\ DOMAIN f1 \subseteq DOMAIN f2
                      /\ \A k \in DOMAIN f1 : f1[k].n > 0 /\ f2[k] > 0

MetricRow(k, p, f1, f2, reduction) ==
    [key |-> k, partition |-> p, n |-> f1[k].n, hits |-> f1[k].hits,
     median |-> f2[k],
     reduction |-> IF k = "M90" /\ p = "V" THEN reduction ELSE NoReduction]

(***************************************************************************)
(* F.5.  A finding without a truth row stays in precision's denominator, a *)
(* suppressed one counts nowhere; rule 4 deletes the event, so it has no   *)
(* anchor and no precision.                                                *)
(***************************************************************************)
Rule == 1..5
EventAnchored(r) == r # 4

Canonical(findings, r) == {f \in findings : f.rule = r /\ ~f.suppressed}

Precision(findings, truths) ==
    [r \in Rule |->
        [findings |-> Cardinality(Canonical(findings, r)),
         correct  |-> Cardinality({f \in Canonical(findings, r) :
                                    f.event \in truths /\ Injected[f.event] = r})]]

Recall(findings, truths) ==
    [r \in Rule |->
        LET injected == {e \in truths : Injected[e] = r}
        IN  [injected |-> Cardinality(injected),
             caught |-> Cardinality({e \in injected :
                          \E f \in Canonical(findings, r) : f.event = e})]]

IntegrityRow(r, precision, recall, minFindings) ==
    LET measured == EventAnchored(r) /\ precision[r].findings > 0
    IN  [findings |-> precision[r].findings,
         correct |-> precision[r].correct,
         injected |-> recall[r].injected,
         caught |-> IF recall[r].injected > 0 THEN recall[r].caught ELSE 0,
         verdict |-> IF ~EventAnchored(r) THEN "out of scope"
                     ELSE IF ~measured THEN "unmeasured"
                     ELSE IF precision[r].findings < minFindings THEN "insufficient"
                     ELSE IF 10 * precision[r].correct >= 9 * precision[r].findings
                          THEN "passed" ELSE "failed"]
=============================================================================
