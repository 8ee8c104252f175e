--------------------------- MODULE MCMeasurement ---------------------------
(***************************************************************************)
(* A run of seven events.  v1, v2 and v3 fall in the partition V, v3 is    *)
(* thinned out of the sample; c1 falls in C; n1 is a record of a cell that *)
(* does not exist, put there by rule 1; d1 was deleted by rule 4 and u1    *)
(* never covered, both have a truth row only.                              *)
(***************************************************************************)
EXTENDS Measurement, TLC

CONSTANTS v1, n1, v2, v3, c1, d1, u1, x, y, a, b, fake

MCEvent == {v1, n1, v2, v3, c1, d1, u1}
MCRecorded == {v1, n1, v2, v3, c1}
MCMassless == {n1}
MCCovered == MCRecorded \cup {d1}
MCId == v1 :> 1 @@ n1 :> 2 @@ v2 :> 3 @@ c1 :> 4 @@ d1 :> 5 @@ v3 :> 6 @@ u1 :> 7
MCUniform == [e \in MCEvent |-> IF e = c1 THEN 10 ELSE 60]
MCThin == v1 :> 10 @@ n1 :> 10 @@ v2 :> 40 @@ v3 :> 90 @@ c1 :> 20 @@ d1 :> 5 @@ u1 :> 5
MCInjected == [e \in MCEvent |-> IF e = d1 THEN 4 ELSE IF e = n1 THEN 1
                                 ELSE IF e = v2 THEN 3 ELSE IF e = v3 THEN 5 ELSE 0]
MCKey == {"B0", "B1", "M90"}
MCHitFrom == [k \in MCKey |-> [e \in MCEvent |->
                IF k = "M90" /\ e = v2 THEN 2 ELSE IF e = c1 THEN 3 ELSE 1]]
MCAreaOf == [k \in MCKey |-> [e \in MCEvent |->
                (IF k = "B0" THEN 20 ELSE IF k = "B1" THEN 9 ELSE 2)
                + (IF e = v1 THEN 1 ELSE 0)]]
Find(e, r, s, p) == [event |-> e, rule |-> r, suppressed |-> s, phase |-> p]
MCFinding == {Find(v2, 3, FALSE, "stream"), Find(v1, 3, FALSE, "stream"),
              Find(v2, 2, TRUE, "batch"), Find(v3, 5, FALSE, "batch")}

\* Coverage in tenths: 9 is the target, nothing else is within the tolerance.
MCLevel == {5, 8, 9, 10}
Rising == {f \in [1..9 -> MCLevel] : \A l \in 1..8 : f[l] <= f[l + 1]}
Flat == [l \in 1..9 |-> 5]
Bent == {[l \in 1..9 |-> IF l \in 4..6 THEN 10 ELSE IF l = 2 THEN 9 ELSE 8],
         [l \in 1..9 |-> IF l < 5 THEN 10 ELSE IF l = 8 THEN 9 ELSE 5]}
MCCurves == Rising \cup Bent
One == {Flat}
Two == {Flat, [l \in 1..9 |-> IF l < 7 THEN 5 ELSE 9]}

Opt(c, r, bo, i) == [calibrate |-> c, recompute |-> r, both |-> bo, integrity |-> i]
MCJob == 1..5
MCOption == <<Opt(FALSE, TRUE, FALSE, "no"), Opt(FALSE, TRUE, TRUE, "too"),
              Opt(FALSE, FALSE, FALSE, "only"), Opt(TRUE, FALSE, FALSE, "no"),
              Opt(TRUE, TRUE, FALSE, "no")>>

Cast(w, j, n, l, f, r, c, m) ==
    [writers |-> w, jobs |-> j, launches |-> n, losses |-> l, faults |-> f,
     requests |-> r, leaves |-> TRUE, curves |-> c, modes |-> m]

MCBudgets ==
    {Cast({"run", "records", "truths", "engine"}, {1}, 1, 0, 1, 0, One, {"validation"}),
     Cast({"run", "records", "engine"}, {1}, 2, 0, 1, 0, One, {"validation"}),
     Cast({}, {1, 2}, 0, 0, 2, 0, One, {"full"}),
     Cast({"engine"}, {2}, 2, 1, 1, 0, One, {"full", "calibration"}),
     Cast({"engine"}, {1}, 1, 2, 0, 0, One, {"full"}),
     Cast({"run", "truths", "findings"}, {3}, 0, 0, 1, 0, One, {"validation"}),
     Cast({}, {4}, 0, 0, 1, 0, MCCurves, {"validation"}),
     Cast({}, {4, 5}, 0, 0, 1, 0, Two, {"validation"}),
     Cast({"engine"}, {}, 1, 0, 0, 1, One, {"full"}),
     Cast({}, {1, 3}, 0, 0, 0, 1, One, {"full"}),
     Cast({}, {}, 0, 0, 1, 2, One, {"full"})}

Asked(s, e) == [surface |-> s, endpoint |-> e, run |-> "good", bbox |-> "none",
                window |-> "good", confidence |-> "none", method |-> "none",
                rule |-> "none", subscriber |-> x]
MCRequest ==
    UNION {{Asked(s, "estimates"), Asked(s, "findings"), Asked(s, "activity"),
            [Asked(s, "estimates") EXCEPT !.method = "lower"],
            [Asked(s, "estimates") EXCEPT !.subscriber = "missing"],
            [Asked(s, "estimates") EXCEPT !.confidence =
                IF s = "rest" THEN "malformed" ELSE "bad"],
            [Asked(s, "findings") EXCEPT !.rule = "bad", !.run = "nil"],
            [Asked(s, "findings") EXCEPT !.window = "inverted"],
            [Asked(s, "cells") EXCEPT !.bbox = "invalid"],
            [Asked(s, "metrics") EXCEPT !.run = "malformed"],
            Asked(s, "metrics"), Asked(s, "integrity metrics"),
            [Asked(s, "runs") EXCEPT !.run = "missing"]} : s \in {"rest", "grpc"}}
    \cup {Asked("rest", "subscribers"), Asked("grpc", "cells"),
         [Asked("rest", "activity") EXCEPT !.bbox = "malformed"],
         [Asked("rest", "findings") EXCEPT !.rule = "malformed"]}

MCSubscriberOf == v1 :> x @@ n1 :> y @@ v2 :> x @@ v3 :> y @@ c1 :> y
MCCellOf == v1 :> a @@ n1 :> fake @@ v2 :> b @@ v3 :> a @@ c1 :> b
MCCells == {a, b}
=============================================================================
