------------------------------- MODULE EventPair -------------------------------
(***************************************************************************)
(* The events of a run (simulator/event and its injector): how many an     *)
(* observation yields, the record and the ground truth of each, and what   *)
(* an injected manipulation does to them.  An event is identified by its   *)
(* key, which the UUID is computed from; pseudonyms are the agents they    *)
(* stand for (HMAC under one salt); times are minutes since the start.     *)
(***************************************************************************)
EXTENDS AgentRoutine

CONSTANT NoEventChance(_)   \* exp(-lambda) in thousandths, of lambda in thousandths

\* A field that a record or a truth does not have.
Absent == -1

(* --- how many ----------------------------------------------------------- *)

\* Events per hour and agent in hundredths, by the hour of the day.
DiurnalLambda ==
    <<12, 8, 6, 5, 6, 10, 22, 45, 80, 75, 55, 50, 50, 50, 45, 45, 50, 72, 80, 72, 58, 48, 36, 20>>

\* NewGenerator refuses a profile whose hours do not add up to ten events.
ProfileNormalised == Total(DiurnalLambda) = 1000

LambdaPerTick(tickMinutes, t) ==
    (DiurnalLambda[MinuteOfDay(tickMinutes, t) \div 60 + 1] * 10 * tickMinutes) \div 60

MaxEventsPerTick == 16

\* The smallest k whose cumulative Poisson probability reaches the draw.
PoissonCount(lambda, u) ==
    LET term[k \in 0 .. MaxEventsPerTick] ==
            IF k = 0 THEN NoEventChance(lambda) ELSE (term[k - 1] * lambda) \div (Mille * k)
        cum[k \in 0 .. MaxEventsPerTick] ==
            IF k = 0 THEN term[0] ELSE cum[k - 1] + term[k]
        reached == {k \in 0 .. MaxEventsPerTick - 1 : u <= cum[k]}
    IN  IF lambda = 0 THEN 0
        ELSE IF reached = {} THEN MaxEventsPerTick
        ELSE Min(reached)

Count(scn, agent, t) ==
    PoissonCount(LambdaPerTick(scn.simulation.tickMinutes, t), Draw("count", agent, t))

(* --- the pair ----------------------------------------------------------- *)

EventId(agent, t, seq) == <<agent, t, seq>>

EventIds == Nat \X Nat \X Nat

Slot(t, seq) == t * MaxEventsPerTick + seq

TimeAt(scn, t) == t * scn.simulation.tickMinutes

\* The set an event belongs to hangs on the event and the seed alone.
PartitionOf(scn, id) ==
    IF Draw("split", id[1], Slot(id[2], id[3])) < scn.calibration.splitRatio THEN "C" ELSE "V"

\* Centimetres per step of Timing Advance.
Resolution == [LTE |-> 7812, GSM |-> 55000]

\* Rounded down to the ring the point lies in.
FromDistance(metres, technology) == (100 * metres) \div Resolution[technology]

Ring(value, technology) ==
    [inner |-> value * Resolution[technology], outer |-> (value + 1) * Resolution[technology]]

RingContains(ring, metres) == 100 * metres >= ring.inner /\ 100 * metres < ring.outer

TimingAdvance(scn, metres) ==
    IF scn.timingAdvance.enabled THEN FromDistance(metres, scn.timingAdvance.technology) ELSE Absent

EventTypes == <<"MOC", "MTC", "SMS", "DATA">>

EventType(agent, t, seq) ==
    EventTypes[(Draw("type", agent, Slot(t, seq)) * 4) \div Mille + 1]

FakeCellId(event) == [fake |-> event]

\* The records, whatever was done to them.
Message ==
    [event : EventIds, time : Int, msisdn : Nat, imei : Nat, type : Range(EventTypes),
     cell : SectorId \cup [fake : EventIds], ta : Int, scenario : {"A", "B", "C", "D"}]

\* Outside coverage there is a truth and no record.
BuildPair(scn, obs, seq) ==
    LET id == EventId(obs.agent, obs.tick, seq)
        at == TimeAt(scn, obs.tick)
        truth == [event |-> id, time |-> at, agent |-> obs.agent, location |-> obs.pos,
                  covered |-> obs.covered, partition |-> PartitionOf(scn, id), injectedRule |-> Absent]
        record == [event |-> id, time |-> at, msisdn |-> obs.agent, imei |-> obs.agent,
                   type |-> EventType(obs.agent, obs.tick, seq), cell |-> obs.cell,
                   ta |-> TimingAdvance(scn, obs.distance), scenario |-> scn.run.scenario]
    IN  [truth |-> truth, record |-> IF obs.covered THEN record ELSE None]

(* --- the injection ------------------------------------------------------ *)

FakeCell == 1
Jump == 2
TimeShift == 3
Gap == 4
DeviceSwap == 5

DefaultTimeShift == -120

\* The rules that can be drawn: a weight of zero takes a rule out.
DrawableRules(weights) == {r \in 1 .. 5 : weights[r] > 0}

\* The first rule whose share of the weights lies above the draw.
PickRule(weights, u) ==
    LET Share(r) == Total([k \in 1 .. r |-> weights[k]])
        above == {r \in DrawableRules(weights) : u * Share(5) < Mille * Share(r)}
    IN  IF above = {} THEN Max(DrawableRules(weights)) ELSE Min(above)

\* A sector furthest from another one, on the site that is the first from the
\* west and the south when several are; which of its sectors is open, since
\* the code sorts by the position alone and not stably.
FarthestCell(inv, id) ==
    LET cells == {inv.cells[i] : i \in DOMAIN inv.cells}
        Far(c) == SquareDistance(CellOf(inv, id).enu, c.enu)
        most == Max({Far(c) : c \in cells})
        best == IF id \in CellIds(inv) THEN {c \in cells : Far(c) = most} ELSE cells
        west == Min({c.enu.x : c \in best})
        south == Min({c.enu.y : c \in {o \in best : o.enu.x = west}})
    IN  (CHOOSE c \in best : c.enu.x = west /\ c.enu.y = south).id

\* Never the agent itself.
OtherAgent(agent, u) == agent + 1 + (u * 999) \div Mille

\* Mutant: the swapped identity is the subscriber's.
ManipulateSubscriber(inv, r, rule, agent, u) ==
    CASE rule = FakeCell   -> [r EXCEPT !.cell = FakeCellId(r.event)]
      [] rule = Jump       -> [r EXCEPT !.cell = FarthestCell(inv, r.cell)]
      [] rule = TimeShift  -> [r EXCEPT !.time = @ + DefaultTimeShift]
      [] rule = Gap        -> None
      [] rule = DeviceSwap -> [r EXCEPT !.msisdn = OtherAgent(agent, u)]

Manipulate(inv, r, rule, agent, u) ==
    CASE rule = FakeCell   -> [r EXCEPT !.cell = FakeCellId(r.event)]
      [] rule = Jump       -> [r EXCEPT !.cell = FarthestCell(inv, r.cell)]
      [] rule = TimeShift  -> [r EXCEPT !.time = @ + DefaultTimeShift]
      [] rule = Gap        -> None
      [] rule = DeviceSwap -> [r EXCEPT !.imei = OtherAgent(agent, u)]

\* An event without a record stays as it is; the label goes to the truth only.
Inject(inv, scn, pair) ==
    LET id == pair.truth.event
        slot == Slot(id[2], id[3])
        rule == PickRule(scn.integrity.ruleWeights, Draw("rule", id[1], slot))
    IN  IF pair.record = None \/ Draw("inject", id[1], slot) >= scn.integrity.injectionRate THEN pair
        ELSE [truth |-> [pair.truth EXCEPT !.injectedRule = rule],
              record |-> Manipulate(inv, pair.record, rule, id[1], Draw("swap", id[1], slot))]

(* --- the events of a tick ------------------------------------------------ *)

PairsOfAgent(inv, scn, s, t) ==
    LET obs == Observe(inv, scn, s, t)
    IN  [k \in 1 .. Count(scn, s.id, t) |-> Inject(inv, scn, BuildPair(scn, obs, k - 1))]

\* Agent by agent, in the order of the observations.
PairsOfTick(inv, scn, agents, t) ==
    FlattenSeq([i \in 1 .. scn.simulation.agents |-> PairsOfAgent(inv, scn, agents[i - 1], t)])
=============================================================================
