----------------------------- MODULE SerialWorld -----------------------------
(***************************************************************************)
(* The agent world as a reader of the simulator may think of it (K10 in    *)
(* the repository's words): one tick after the other, every agent moved    *)
(* once from the state the previous tick left, the coverage counted, and   *)
(* the observations handed to the event generator. TickSerial of           *)
(* agent/world.go is this specification's step; no workers and no second   *)
(* buffer are in sight.                                                    *)
(***************************************************************************)
EXTENDS Integers, FiniteSets

CONSTANTS
  Agent,         \* indices of the population
  Initial,       \* the placed agents
  Advance(_, _), \* Mobility.Advance: state of an agent in a tick
  Covered(_),    \* Selector.Select(state.Pos).Covered
  Zero           \* the zero value of a state

VARIABLES
  agents,  \* what World.Agents() returns
  tick,    \* ticks evaluated so far
  stats,   \* CoverageStats: total and uncovered agent-ticks
  seen     \* the observations the last event loop of Run worked on

svars == <<agents, tick, stats, seen>>

SerialInit ==
  /\ agents = Initial
  /\ tick = 0
  /\ stats = [total |-> 0, uncovered |-> 0]
  /\ seen = [i \in Agent |-> [tick |-> 0, state |-> Zero]]

\* StepSerial: every agent in turn, from the read buffer into the other one.
StepSerial == agents' = [i \in Agent |-> Advance(agents[i], tick)]

\* collectStats, over the states the step has just left.
CollectSerial ==
  stats' = [total     |-> stats.total + Cardinality(Agent),
            uncovered |-> stats.uncovered
                          + Cardinality({i \in Agent : ~Covered(agents'[i])})]

TickSerial ==
  /\ StepSerial
  /\ CollectSerial
  /\ tick' = tick + 1
  /\ UNCHANGED seen

\* Run turns the observations of the tick just done into events.
ReportSerial ==
  /\ seen' = [i \in Agent |-> [tick |-> tick - 1, state |-> agents[i]]]
  /\ UNCHANGED <<agents, tick, stats>>

Serial == SerialInit /\ [][TickSerial \/ ReportSerial]_svars
=============================================================================
