---------------------------- MODULE MCSimulatorRun ----------------------------
(***************************************************************************)
(* Instances of SimulatorRun for TLC: six scenario files, two agents over  *)
(* the three ticks of a day on a network of seven sites, with draws that   *)
(* give an event without manipulation, one of every rule, and one outside  *)
(* coverage.  Only "day" is run to the end: "sites" asks for a number of   *)
(* sites that no lattice has, "clock" for ticks that do not divide a day,  *)
(* "far" for people who work further away than the area is wide, "typo"    *)
(* and "weights" are refused when they are read.                           *)
(***************************************************************************)
EXTENDS SimulatorRun

Day ==
    [unknownField |-> FALSE, morphology |-> "urban", profile |-> None,
     run |-> [scenario |-> "A", name |-> "day", seed |-> 1],
     area |-> [originLat |-> 41, originLon |-> 29, radiusKM |-> 2],
     simulation |-> [agents |-> 2, durationDays |-> 1, tickMinutes |-> 480],
     network |-> [sitesMin |-> 4, sitesMax |-> 12, rxSensitivityDBm |-> -110,
                  interSiteDistanceM |-> None, antHeightM |-> None, propagationModel |-> None,
                  freqBands |-> <<>>, beamWidthDeg |-> None, tiltDeg |-> None, eirpDBm |-> None,
                  rMaxM |-> None],
     radio |-> [shadowingSigmaDB |-> 6, dMaxKM |-> 5],
     timingAdvance |-> [enabled |-> TRUE, technology |-> "LTE"],
     analysis |-> [gridResolutionM |-> 50, contourLevels |-> <<500, 900>>, neighborMaxCount |-> 6,
                   calibrationEvents |-> 2, validationEvents |-> 0],
     calibration |-> [splitRatio |-> 800, lambdaMin |-> 100, lambdaMax |-> 3000,
                      targetCoverage |-> 900, tolerance |-> 10, maxIterations |-> 20],
     integrity |-> [maxVelocityKMH |-> 150, injectionRate |-> 900,
                    ruleWeights |-> [r \in 1 .. 5 |-> 200],
                    detection |-> [velocityMarginCap |-> 0, timeBackstepToleranceS |-> 0,
                                   activityMinSupport |-> 0, minFindings |-> 0]],
     privacy |-> [kAnonymity |-> 5, hmacSaltEnv |-> "HMAC_SALT"],
     api |-> [maxGeometriesPerRequest |-> 100]]

MCFileOf ==
    [day     |-> Day,
     sites   |-> [Day EXCEPT !.network.sitesMin = 8, !.network.sitesMax = 12],
     clock   |-> [Day EXCEPT !.simulation.tickMinutes = 420],
     far     |-> [Day EXCEPT !.morphology = "rural", !.network.rMaxM = 2500],
     typo    |-> [Day EXCEPT !.unknownField = TRUE],
     weights |-> [Day EXCEPT !.network.freqBands = <<Band(900, 300), Band(1800, 600)>>]]

MCFile == DOMAIN MCFileOf

MCPathLossDB(model, mhz, d, los) ==
    70 + mhz \div 100 + d \div (IF model = "RMa" THEN 40 ELSE 20) + (IF los THEN 0 ELSE 8)

MCLOSChance(model, d) == IF d >= 1000 THEN 0 ELSE 1000 - d

OffAxis(a) == LET m == a % 360 IN IF m > 180 THEN 360 - m ELSE m

MCAttenuationDB(offset, d, c) ==
    LET side == (12 * Square(OffAxis(offset))) \div Square(c.beamWidth)
    IN  (IF side > 30 THEN 30 ELSE side) + (IF d < 50 THEN 3 ELSE 0)

MCTangent(deg) == (deg * 1000) \div 57

\* Eight directions, the nearest by the ratio of the components.
MCBearing(dx, dy) ==
    LET ax == IF dx < 0 THEN -dx ELSE dx
        ay == IF dy < 0 THEN -dy ELSE dy
    IN  CASE 2 * ax < ay -> IF dy > 0 THEN 0 ELSE 180
          [] 2 * ay < ax -> IF dx > 0 THEN 90 ELSE 270
          [] OTHER -> IF dx >= 0 THEN (IF dy > 0 THEN 45 ELSE 135) ELSE (IF dy > 0 THEN 315 ELSE 225)

\* A building in the east that nothing reaches.
MCEnvironment(site, p) ==
    [los |-> (site.q + site.r) % 2 = 0, shadowing |-> IF p.x > 640 THEN -90 ELSE site.q]

\* A purpose, an agent or a sector, and a slot, in thousandths.
MCDraw(purpose, who, slot) ==
    CASE purpose = "sites"   -> 900
      [] purpose = "band"    -> (who.q * 370 + who.r * 110 + slot * 230) % 1000
      [] purpose = "work"    -> 5
      [] purpose = "depart"  -> 500
      [] purpose = "noise x" -> IF who = 1 /\ slot = 0 THEN 1000 ELSE 400
      [] purpose = "noise y" -> 300
      [] purpose = "speed"   -> 600
      [] purpose = "count"   -> IF who = 0 THEN <<600, 90, 30>>[slot + 1] ELSE <<600, 3, 60>>[slot + 1]
      [] purpose = "split"   -> (who * 500 + slot * 13) % 1000
      [] purpose = "type"    -> (who * 300 + slot * 7) % 1000
      [] purpose = "inject"  -> IF who = 0 /\ slot = 0 THEN 950 ELSE 100
      [] purpose = "rule"    -> (who * 600 + slot * 200 + 100) % 1000
      [] purpose = "swap"    -> 0

MCDiskPoint(agent, attempt, radius) ==
    IF attempt = 1 THEN [x |-> radius \div 2, y |-> 0]
    ELSE IF agent = 0 THEN [x |-> -(radius \div 4), y |-> radius \div 8]
    ELSE [x |-> 630, y |-> -(radius \div 10)]

MCToward(agent, attempt) ==
    IF attempt = 1 THEN [x |-> 1000, y |-> 0] ELSE [x |-> -600, y |-> 800]

MCNoEventChance(lambda) ==
    CASE lambda < 1200 -> 380 [] lambda < 4500 -> 18 [] OTHER -> 2

\* In these files every jump can be seen, as LabelsAreTrue (SimulatorRunProofs) asks.
ASSUME JumpsSeen == JumpsShow
=============================================================================
