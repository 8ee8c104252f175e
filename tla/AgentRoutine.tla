----------------------------- MODULE AgentRoutine -----------------------------
(***************************************************************************)
(* The people of a run (simulator/agent): where they live and work, when   *)
(* they leave, and where they are at a tick.  The state of an agent at a   *)
(* tick depends on its anchors and the tick alone, never on the tick       *)
(* before; AgentWorld shows that the pool that computes it keeps it so.    *)
(***************************************************************************)
EXTENDS CellInventory

CONSTANTS
    DiskPoint(_, _, _),   \* agent, attempt, radius: a point of the disk
    Toward(_, _)          \* agent, attempt: a direction, a vector of length 1000

MaxPlacementAttempts == 100

MinutesPerDay == 1440

(* --- the clock ---------------------------------------------------------- *)

ClockValid(tickMinutes) == tickMinutes > 0 /\ MinutesPerDay % tickMinutes = 0

Ticks(scn) == scn.simulation.durationDays * (MinutesPerDay \div scn.simulation.tickMinutes)

MinuteOfDay(tickMinutes, t) == (t * tickMinutes) % MinutesPerDay

DayIndex(tickMinutes, t) == (t * tickMinutes) \div MinutesPerDay

IsWeekend(tickMinutes, t) == DayIndex(tickMinutes, t) % 7 >= 5

(* --- the anchors -------------------------------------------------------- *)

Serves(best) == best.cell # Nobody /\ best.covered

Covered(inv, scn, p) == Serves(Select(inv.cells, scn.network.rxSensitivityDBm, p))

\* A home: the first candidate that is covered; None after too many.
PlaceHome(inv, scn, agent) ==
    LET radius == 1000 * scn.profile.areaRadiusKM
        attempt[i \in 1 .. MaxPlacementAttempts + 1] ==
            IF i > MaxPlacementAttempts THEN None
            ELSE IF Covered(inv, scn, DiskPoint(agent, i, radius)) THEN DiskPoint(agent, i, radius)
            ELSE attempt[i + 1]
    IN  attempt[1]

\* A candidate for work: uniform in area between the two commuting distances.
WorkCandidate(scn, agent, attempt, home) ==
    LET least == 1000 * scn.profile.homeWorkMinKM
        most == 1000 * scn.profile.homeWorkMaxKM
        reach == Root(Square(least) + ((Square(most) - Square(least)) \div Mille) * Draw("work", agent, attempt))
        way == Toward(agent, attempt)
    IN  [x |-> home.x + (reach * way.x) \div 1000, y |-> home.y + (reach * way.y) \div 1000]

\* Work: the first candidate inside the area and covered.
PlaceWork(inv, scn, agent, home) ==
    LET Candidate(i) == WorkCandidate(scn, agent, i, home)
        attempt[i \in 1 .. MaxPlacementAttempts + 1] ==
            IF i > MaxPlacementAttempts THEN None
            ELSE IF /\ Distance(Candidate(i), Origin) <= 1000 * scn.profile.areaRadiusKM
                    /\ Covered(inv, scn, Candidate(i)) THEN Candidate(i)
            ELSE attempt[i + 1]
    IN  attempt[1]

CommuteMinutes(metres, speedKMH) ==
    LET minutes == (metres * 60 + 1000 * speedKMH - 1) \div (1000 * speedKMH)
    IN  IF minutes < 1 THEN 1 ELSE minutes

(* --- the routine -------------------------------------------------------- *)

NominalDepartWorkMin == 8 * 60
NominalDepartHomeMin == 17 * 60 + 30
DepartJitterMin == 45

ClampMinuteOfDay(m) == IF m < 0 THEN 0 ELSE IF m >= MinutesPerDay THEN MinutesPerDay - 1 ELSE m

Jitter(u) == ((2 * u - Mille) * DepartJitterMin) \div Mille

\* When an agent leaves for work and for home: never for home before it has
\* arrived, and early enough to arrive before midnight.
PersonalizeRoutine(agent, commute) ==
    LET work == ClampMinuteOfDay(NominalDepartWorkMin + Jitter(Draw("depart", agent, 1)))
        drawn == ClampMinuteOfDay(NominalDepartHomeMin + Jitter(Draw("depart", agent, 2)))
        arrived == work + commute + 1
        home == IF drawn <= arrived THEN ClampMinuteOfDay(arrived + 1) ELSE drawn
    IN  [work |-> work,
         home |-> IF home + commute >= MinutesPerDay THEN MinutesPerDay - commute - 1 ELSE home]

AgentValid(s) ==
    /\ s.commute > 0
    /\ s.departWork \in 0 .. MinutesPerDay - 1 /\ s.departHome \in 0 .. MinutesPerDay - 1
    /\ s.departHome > s.departWork + s.commute

AgentOf(agent, home, work, commute, depart) ==
    [id |-> agent, home |-> home, work |-> work, commute |-> commute,
     departWork |-> depart.work, departHome |-> depart.home]

Employ(scn, agent, home, work) ==
    LET commute == CommuteMinutes(Distance(home, work), scn.profile.commuteSpeedKMH)
    IN  IF work = None THEN None
        ELSE AgentOf(agent, home, work, commute, PersonalizeRoutine(agent, commute))

House(inv, scn, agent, home) ==
    IF home = None THEN None ELSE Employ(scn, agent, home, PlaceWork(inv, scn, agent, home))

PlaceAgent(inv, scn, agent) == House(inv, scn, agent, PlaceHome(inv, scn, agent))

\* Commuting further than across the area, or an agent without a place.
Settled(scn, agents) ==
    IF \/ scn.profile.homeWorkMinKM > 2 * scn.profile.areaRadiusKM
       \/ \E i \in DOMAIN agents : agents[i] = None \/ ~AgentValid(agents[i])
    THEN None
    ELSE agents

\* The population of a scenario, agents counted from 0, or None.
PlaceAgents(inv, scn) ==
    Settled(scn, [i \in 0 .. scn.simulation.agents - 1 |-> PlaceAgent(inv, scn, i)])

(* --- the movement ------------------------------------------------------- *)

PhaseAt(s, tickMinutes, t) ==
    LET minute == MinuteOfDay(tickMinutes, t)
    IN  CASE IsWeekend(tickMinutes, t)         -> "HOME"
          [] minute < s.departWork             -> "HOME"
          [] minute < s.departWork + s.commute -> "COMMUTE_TO_WORK"
          [] minute < s.departHome             -> "WORK"
          [] minute < s.departHome + s.commute -> "COMMUTE_TO_HOME"
          [] OTHER                             -> "HOME"

\* The noise of a position: up to scale metres on either axis.
JitterAround(p, agent, t, scale) ==
    [x |-> p.x + ((2 * Draw("noise x", agent, t) - Mille) * scale) \div Mille,
     y |-> p.y + ((2 * Draw("noise y", agent, t) - Mille) * scale) \div Mille]

\* On the way, in thousandths of it, with a speed that varies by a quarter.
AlongPath(s, tickMinutes, t, left, from, to) ==
    LET elapsed == ((MinuteOfDay(tickMinutes, t) - left) * Mille) \div s.commute
        speed == Mille + (2 * Draw("speed", s.id, t) - Mille) \div 4
        done == IF (elapsed * speed) \div Mille > Mille THEN Mille ELSE (elapsed * speed) \div Mille
        taper == (4 * done * (Mille - done)) \div Mille
    IN  JitterAround([x |-> from.x + ((to.x - from.x) * done) \div Mille,
                      y |-> from.y + ((to.y - from.y) * done) \div Mille],
                     s.id, t, (60 * taper) \div Mille)

PositionAt(s, tickMinutes, t) ==
    CASE PhaseAt(s, tickMinutes, t) = "HOME" -> JitterAround(s.home, s.id, t, 25)
      [] PhaseAt(s, tickMinutes, t) = "WORK" -> JitterAround(s.work, s.id, t, 25)
      [] PhaseAt(s, tickMinutes, t) = "COMMUTE_TO_WORK" ->
             AlongPath(s, tickMinutes, t, s.departWork, s.home, s.work)
      [] OTHER -> AlongPath(s, tickMinutes, t, s.departHome, s.work, s.home)

Observation(agent, t, p, best) ==
    [agent |-> agent, tick |-> t, pos |-> p, covered |-> Serves(best),
     cell |-> best.cell, distance |-> best.distance]

ObserveAt(inv, scn, s, t, p) ==
    Observation(s.id, t, p, Select(inv.cells, scn.network.rxSensitivityDBm, p))

\* What the world reports of an agent at a tick.
Observe(inv, scn, s, t) ==
    ObserveAt(inv, scn, s, t, PositionAt(s, scn.simulation.tickMinutes, t))
=============================================================================
