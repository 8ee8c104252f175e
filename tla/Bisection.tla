------------------------------ MODULE Bisection ------------------------------
(***************************************************************************)
(* The calibration's search for lambda (internal/validation/calibration,   *)
(* bisect and Runner.Run).  The coverage the mass model gives is a         *)
(* function from lambda to a level, any of Curves: the code assumes it     *)
(* increasing and never checks.  Lambda is counted on a grid fine enough   *)
(* for every midpoint the search can reach, so (lo + hi) / 2 is exact, as  *)
(* it is in the program until the mantissa ends.                           *)
(***************************************************************************)
EXTENDS Integers, FiniteSets

CONSTANTS
    LambdaMin, LambdaMax,   \* calibration.lambda_min and lambda_max
    TargetCoverage,         \* calibration.target_coverage
    Tolerance,              \* calibration.tolerance
    MaxIterations,          \* calibration.max_iterations
    Level,                  \* the coverage levels, integers
    Curves                  \* the coverage functions considered

Lambda == LambdaMin..LambdaMax

\* The grid holds every midpoint the search can reach.
ASSUME GridAssumption ==
    (LambdaMax - LambdaMin) % (2 ^ (MaxIterations + 1)) = 0

ASSUME BisectionAssumption ==
    /\ LambdaMin \in Int /\ LambdaMax \in Int /\ LambdaMin < LambdaMax
    /\ LambdaMin > 0
    /\ TargetCoverage \in Int
    /\ Tolerance \in Int /\ Tolerance > 0
    /\ MaxIterations \in Nat \ {0}
    /\ Level \subseteq Int
    /\ Curves \subseteq [Lambda -> Level]

VARIABLES
    curve,      \* what coverageAt answers for the sample of this run
    lo, hi,     \* the interval of the search
    iteration,  \* evaluations made so far
    search,     \* "idle" | "running" | "converged" | "exhausted" | "failed"
    lambda,     \* Result.Lambda, the last value evaluated
    written     \* what this search has put in run_config.lambda, 0 for nothing

bisectionVars == <<curve, lo, hi, iteration, search, lambda, written>>

BisectionTypeOK ==
    /\ curve \in Curves
    /\ lo \in Lambda /\ hi \in Lambda
    /\ iteration \in 0..MaxIterations
    /\ search \in {"idle", "running", "converged", "exhausted", "failed"}
    /\ lambda \in Lambda \cup {0}
    /\ written \in Lambda \cup {0}

BisectionInit ==
    /\ curve \in Curves
    /\ lo = LambdaMin /\ hi = LambdaMax
    /\ iteration = 0
    /\ search = "idle"
    /\ lambda = 0 /\ written = 0

\* The level the mass model gives the fixed sample at a lambda.
coverageAt(l) == curve[l]

Within(coverage) == /\ coverage - TargetCoverage < Tolerance
                    /\ TargetCoverage - coverage < Tolerance

Mid(a, b) == (a + b) \div 2

\* Runner.Run: the sample is loaded, the interval starts at the bounds. Every
\* calibrating job makes a search of its own, over the run's one curve.
StartSearch ==
    /\ search \in {"idle", "failed"} \/ written # 0
    /\ search' = "running"
    /\ lo' = LambdaMin /\ hi' = LambdaMax
    /\ iteration' = 0 /\ lambda' = 0 /\ written' = 0
    /\ UNCHANGED curve

\* Where the interval goes when the coverage missed the target.
NarrowedBackwards(mid) ==
    IF coverageAt(mid) < TargetCoverage THEN lo' = lo /\ hi' = mid
                                        ELSE lo' = mid /\ hi' = hi
Narrowed(mid) ==
    IF coverageAt(mid) < TargetCoverage THEN lo' = mid /\ hi' = hi
                                        ELSE lo' = lo /\ hi' = mid

Iterate ==
    /\ search = "running" /\ iteration < MaxIterations
    /\ iteration' = iteration + 1
    /\ lambda' = Mid(lo, hi)
    /\ IF Within(coverageAt(Mid(lo, hi)))
       THEN search' = "converged" /\ UNCHANGED <<lo, hi>>
       ELSE search' = "running" /\ Narrowed(Mid(lo, hi))
    /\ UNCHANGED <<curve, written>>

(***************************************************************************)
(* The interval left after the last iteration: its midpoint is evaluated   *)
(* and kept whatever it gives, and it is not reported as converged.        *)
(***************************************************************************)
TakeMiddle ==
    /\ search = "running" /\ iteration = MaxIterations
    /\ lambda' = Mid(lo, hi)
    /\ search' = "exhausted"
    /\ UNCHANGED <<curve, lo, hi, iteration, written>>

\* The context ends between two iterations, no event can be evaluated, or the
\* write of the result fails: the job ends with lambda as it was.
SearchFails ==
    /\ search \in {"running", "converged", "exhausted"} /\ written = 0
    /\ search' = "failed"
    /\ UNCHANGED <<curve, lo, hi, iteration, lambda, written>>

\* SetLambda: the result is stored, converged or not.
SetLambda ==
    /\ search \in {"converged", "exhausted"} /\ written = 0
    /\ written' = lambda
    /\ UNCHANGED <<curve, lo, hi, iteration, search, lambda>>

BisectionNext == \/ StartSearch \/ Iterate \/ TakeMiddle
                 \/ SearchFails \/ SetLambda

BisectionSpec == BisectionInit /\ [][BisectionNext]_bisectionVars

-----------------------------------------------------------------------------
Increasing == \A a, b \in Lambda : a <= b => curve[a] <= curve[b]

(***************************************************************************)
(* The search loses no answer and claims none it does not have.  Whatever  *)
(* the curve: both moved ends miss the target on their own side, a         *)
(* converged search holds a lambda within the tolerance, and the stored    *)
(* lambda is the one a finished search evaluated last, never one of a      *)
(* search that failed.  When the curve increases, every lambda that would  *)
(* do is still inside the interval (bisect and its use in Runner.Run).     *)
(***************************************************************************)
BisectionSound ==
    /\ lo <= hi
    /\ lo = LambdaMin \/ curve[lo] + Tolerance <= TargetCoverage
    /\ hi = LambdaMax \/ curve[hi] - Tolerance >= TargetCoverage
    /\ search = "converged" => lambda \in Lambda /\ Within(curve[lambda])
    /\ written # 0 => /\ written = lambda
                      /\ search \in {"converged", "exhausted"}
    /\ Increasing => \A l \in Lambda : Within(curve[l]) => l \in lo..hi
=============================================================================
