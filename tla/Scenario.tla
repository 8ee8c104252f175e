------------------------------ MODULE Scenario ------------------------------
(***************************************************************************)
(* The scenario file of a run (internal/config): the morphology profile,   *)
(* the overrides of the file, the defaults and the checks of Validate.     *)
(* Lengths, powers and angles are integers in the unit of their field;     *)
(* ratios, weights, lambda and coverage are in thousandths.  An optional   *)
(* field that the file leaves out is None.                                 *)
(***************************************************************************)
EXTENDS Integers, Sequences, SequencesExt

CONSTANT None

Mille == 1000

Override(value, default) == IF value = None THEN default ELSE value

Profile(morphology, radius, isd, model, height, bands, home, speed, reach, tilt, eirp, range) ==
    [morphology |-> morphology, areaRadiusKM |-> radius, interSiteDistanceM |-> isd,
     propagationModel |-> model, antHeightM |-> height, freqDistribution |-> bands,
     homeWorkMinKM |-> home[1], homeWorkMaxKM |-> home[2], commuteSpeedKMH |-> speed,
     dMaxKM |-> reach, beamWidthDeg |-> 65, tiltDeg |-> tilt, eirpDBm |-> eirp, rMaxM |-> range]

Band(mhz, weight) == [mhz |-> mhz, weight |-> weight]

UrbanProfile ==
    Profile("urban", 5, 500, "UMa", 25, <<Band(1800, 300), Band(2100, 400), Band(2600, 300)>>,
            <<1, 8>>, 30, 5, 6, 58, 5000)

RuralProfile ==
    Profile("rural", 20, 2000, "RMa", 45, <<Band(800, 500), Band(900, 350), Band(1800, 150)>>,
            <<5, 25>>, 70, 10, 3, 62, 20000)

ProfileFor == [urban |-> UrbanProfile, rural |-> RuralProfile]

\* Radius and reach are always in the file and count only when positive; the
\* optional fields count whenever they are there, whatever their value.
ResolveProfile(s) ==
    LET p == ProfileFor[s.morphology]
        n == s.network
    IN  [p EXCEPT !.areaRadiusKM = IF s.area.radiusKM > 0 THEN s.area.radiusKM ELSE @,
                  !.dMaxKM = IF s.radio.dMaxKM > 0 THEN s.radio.dMaxKM ELSE @,
                  !.interSiteDistanceM = Override(n.interSiteDistanceM, @),
                  !.antHeightM = Override(n.antHeightM, @),
                  !.propagationModel = Override(n.propagationModel, @),
                  !.freqDistribution = IF n.freqBands # <<>> THEN n.freqBands ELSE @,
                  !.beamWidthDeg = Override(n.beamWidthDeg, @),
                  !.tiltDeg = Override(n.tiltDeg, @),
                  !.eirpDBm = Override(n.eirpDBm, @),
                  !.rMaxM = Override(n.rMaxM, @)]

DetectionDefaults(d) ==
    [d EXCEPT !.velocityMarginCap = IF @ = 0 THEN 1000000 ELSE @,
              !.activityMinSupport = IF @ = 0 THEN 2 ELSE @,
              !.minFindings = IF @ = 0 THEN 30 ELSE @]

Total(weights) == FoldSeq(LAMBDA x, sum : x + sum, 0, weights)

FreqBandsValid(bands) ==
    /\ bands # <<>>
    /\ \A i \in DOMAIN bands : bands[i].mhz > 0 /\ bands[i].weight > 0
    /\ Total([i \in DOMAIN bands |-> bands[i].weight]) = Mille

ProfileValid(p) ==
    /\ p.morphology \in {"urban", "rural"}
    /\ p.propagationModel \in {"UMa", "UMi", "RMa"}
    /\ p.areaRadiusKM > 0 /\ p.interSiteDistanceM > 0 /\ p.antHeightM > 0
    /\ FreqBandsValid(p.freqDistribution)
    /\ p.homeWorkMinKM > 0 /\ p.homeWorkMaxKM > p.homeWorkMinKM
    /\ p.commuteSpeedKMH > 0 /\ p.dMaxKM > 0
    /\ p.beamWidthDeg > 0 /\ p.beamWidthDeg <= 360
    /\ p.tiltDeg \in 0 .. 89
    /\ p.rMaxM > 0

\* Go maps have no order: the weights are a function on the rule numbers given.
RuleWeightsValid(w) ==
    /\ DOMAIN w = 1 .. 5
    /\ \A r \in DOMAIN w : w[r] >= 0
    /\ \E r \in DOMAIN w : w[r] > 0

DetectionValid(d) ==
    /\ d.velocityMarginCap >= 1 /\ d.timeBackstepToleranceS >= 0
    /\ d.activityMinSupport >= 1 /\ d.minFindings >= 1

ScenarioValid(s) ==
    /\ s.run.scenario \in {"A", "B", "C", "D"} /\ s.run.name # ""
    /\ ProfileValid(s.profile)
    /\ s.area.originLat \in -90 .. 90 /\ s.area.originLon \in -180 .. 180
    /\ s.simulation.agents > 0 /\ s.simulation.durationDays > 0 /\ s.simulation.tickMinutes > 0
    /\ s.network.sitesMin > 0 /\ s.network.sitesMax >= s.network.sitesMin
    /\ s.network.rxSensitivityDBm < 0 /\ s.radio.shadowingSigmaDB > 0
    /\ s.timingAdvance.enabled => s.timingAdvance.technology \in {"LTE", "GSM"}
    /\ s.analysis.gridResolutionM > 0 /\ s.analysis.neighborMaxCount > 0
    /\ s.analysis.contourLevels # <<>>
    /\ \A i \in DOMAIN s.analysis.contourLevels : s.analysis.contourLevels[i] \in 1 .. Mille - 1
    /\ s.analysis.calibrationEvents > 0 /\ s.analysis.validationEvents >= 0
    /\ s.calibration.splitRatio \in 1 .. Mille - 1
    /\ s.calibration.lambdaMin > 0 /\ s.calibration.lambdaMax > s.calibration.lambdaMin
    /\ s.calibration.targetCoverage \in 1 .. Mille - 1
    /\ s.calibration.tolerance > 0 /\ s.calibration.maxIterations > 0
    /\ s.integrity.maxVelocityKMH > 0 /\ s.integrity.injectionRate \in 0 .. Mille - 1
    /\ RuleWeightsValid(s.integrity.ruleWeights) /\ DetectionValid(s.integrity.detection)
    /\ s.privacy.kAnonymity >= 1 /\ s.privacy.hmacSaltEnv # ""
    /\ s.api.maxGeometriesPerRequest > 0

\* The types that the program gives the fields that the models count with.
Typed(s) ==
    /\ {s.simulation.agents, s.simulation.durationDays, s.simulation.tickMinutes} \subseteq Int
    /\ {s.profile.areaRadiusKM, s.network.sitesMin, s.network.sitesMax} \subseteq Int
    /\ s.timingAdvance.enabled \in BOOLEAN

\* What Load makes of a file: the scenario with its profile, or None when it
\* is refused (a field nobody knows, an unknown morphology, a failed check).
Load(raw) ==
    IF raw.unknownField \/ raw.morphology \notin DOMAIN ProfileFor THEN None
    ELSE LET s == [raw EXCEPT !.profile = ResolveProfile(raw),
                               !.integrity.detection = DetectionDefaults(@)]
         IN  IF ScenarioValid(s) THEN s ELSE None
=============================================================================
