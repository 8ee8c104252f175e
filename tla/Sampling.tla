------------------------------ MODULE Sampling ------------------------------
(***************************************************************************)
(* Which events are analysed: the calibration/validation split and the     *)
(* thinning of a partition (internal/analysis/sampling, pkg/split).  Both  *)
(* hashes of an event identifier are constants: Uniform is the split's,    *)
(* Thin the sampler's, in percent of the unit interval.                    *)
(***************************************************************************)
EXTENDS Integers, FiniteSets

CONSTANTS
    Event,          \* the run's event identifiers
    Uniform,        \* [Event -> 0..99], split.Uniform
    Thin,           \* [Event -> 0..99], Policy.thin: a different hash
    SplitRatio,     \* calibration.split_ratio, in percent
    ValidationEvents,   \* analysis.sample.validation_events, 0 for all
    CalibrationEvents   \* analysis.sample.calibration_events

ASSUME SamplingAssumption ==
    /\ IsFiniteSet(Event)
    /\ Uniform \in [Event -> 0..99] /\ Thin \in [Event -> 0..99]
    /\ SplitRatio \in 1..99
    /\ ValidationEvents \in Nat /\ CalibrationEvents \in Nat

Modes == {"validation", "calibration", "full"}

\* The partition an event falls in, from its identifier alone.
Of(e) == IF Uniform[e] < SplitRatio THEN "C" ELSE "V"

(***************************************************************************)
(* A sampling policy exists for a mode when the run's volume is known or   *)
(* not needed; total is run_config.published_events, NoTotal while NULL.   *)
(***************************************************************************)
NoTotal == -1

Thinned(mode) == \/ mode = "calibration"
                 \/ mode = "validation" /\ ValidationEvents > 0

Buildable(mode, total) ==
    Thinned(mode) => /\ total > 0
                     /\ mode = "calibration" => CalibrationEvents > 0

\* thin(e) < min(1, wanted / expected): the kept share of a partition.
Kept(e, wanted, percent, total) ==
    Thin[e] * total * percent < wanted * 100 * 100

Includes(mode, total, e) ==
    CASE mode = "full" -> TRUE
      [] mode = "validation" ->
           /\ Of(e) = "V"
           /\ Thinned(mode) => Kept(e, ValidationEvents, 100 - SplitRatio, total)
      [] mode = "calibration" ->
           Of(e) = "C" /\ Kept(e, CalibrationEvents, SplitRatio, total)

(***************************************************************************)
(* ExactSample keeps the target events of lowest rank, the identifier      *)
(* breaking a tie; selectSample keeps everything when there is no target.  *)
(***************************************************************************)
CONSTANT Id             \* [Event -> Int], the order of the identifiers

ASSUME OrderAssumption == Id \in [Event -> Int]

Before(e, f) == Thin[e] < Thin[f] \/ (Thin[e] = Thin[f] /\ Id[e] < Id[f])

ExactSample(set, target) ==
    {e \in set : Cardinality({f \in set : Before(f, e)}) < target}

selectSample(set, target) ==
    IF target <= 0 \/ target >= Cardinality(set) THEN set
    ELSE ExactSample(set, target)
=============================================================================
