------------------------------ MODULE AgentWorld ------------------------------
(***************************************************************************)
(* The agent world of the simulator: World over DoubleBuffer               *)
(* (internal/simulator/agent/world.go and doublebuf.go), driven by the     *)
(* tick loop of Runner.Run (internal/simulator/run/run.go).                *)
(*                                                                         *)
(* A fixed pool of worker goroutines receives index ranges from a buffered *)
(* channel, reads the agents of its range from one buffer and writes them  *)
(* to the other one; the tick loop hands out the ranges, waits for the     *)
(* WaitGroup and exchanges the buffers. There is no lock: that nothing     *)
(* is written twice or read while written rests on the ranges and on the   *)
(* barrier alone.                                                          *)
(*                                                                         *)
(* Mobility.Advance and Selector.Select are functions of an agent's state  *)
(* and of the tick, and change nothing: they are parameters. An            *)
(* observation keeps the state it was made of; its fields are functions    *)
(* of that state.                                                          *)
(***************************************************************************)
EXTENDS Integers, FiniteSets

CONSTANTS
  AgentCount,     \* len(initial)
  WorkersArg,     \* Config.Workers: 0 or less asks for one per core
  Cores,          \* runtime.GOMAXPROCS(0)
  Ticks,          \* Runner.ticks
  State, Zero,    \* agent states and their zero value
  Initial,        \* the placed agents
  Advance(_, _),  \* Mobility.Advance(state, tick)
  Covered(_)      \* Selector.Select(state.Pos).Covered

Agent == 0..(AgentCount - 1)
Least(a, b) == IF a <= b THEN a ELSE b

\* The pool is as large as asked for and never larger than the population.
Workers ==
  Least(IF WorkersArg <= 0 THEN Cores ELSE WorkersArg, AgentCount)
Worker == 1..Workers

\* Step cuts the population into ranges of one length, the last ones shorter
\* or empty: range k is Lo(k)..Hi(k)-1.
FloorChunk == AgentCount \div Workers
Chunk == (AgentCount + Workers - 1) \div Workers
Lo(k) == Least(k * Chunk, AgentCount)
HiPastEnd(k) == Least(k * Chunk + Chunk + 1, AgentCount)
Hi(k) == Least(k * Chunk + Chunk, AgentCount)
Slice(k) == Lo(k)..(Hi(k) - 1)

Job == 0..(Workers - 1)
Observation == [tick : Nat, state : State]

\* NewDoubleBuffer refuses an empty population; GOMAXPROCS is never below one.
ASSUME WorldAssumption ==
  /\ AgentCount \in Nat \ {0}
  /\ WorkersArg \in Int
  /\ Cores \in Nat \ {0}
  /\ Ticks \in Nat
  /\ Zero \in State
  /\ Initial \in [Agent -> State]
  /\ \A s \in State, t \in 0..Ticks : Advance(s, t) \in State
  /\ \A s \in State : Covered(s) \in BOOLEAN

VARIABLES
  loop,      \* where the goroutine of Runner.Run is
  next,      \* its loop variable: the tick to come
  tick,      \* World.tick
  sent,      \* Step's loop variable: ranges handed out so far
  jobs,      \* ranges in the channel
  open,      \* the channel is not closed
  wg,        \* the WaitGroup's counter
  buf, cur,  \* the two buffers, and which of them is b.cur
  obs,       \* World.observations
  stats,     \* World.stats
  seen,      \* the observations the last event loop of Run worked on
  status,    \* status[x]: where worker x is
  job,       \* job[x]: the range it holds
  pos,       \* pos[x]: its loop variable
  fresh      \* fresh[x]: what updateFn has computed and not yet stored

mainVars == <<loop, next, tick, sent, open, cur, stats, seen>>
poolVars == <<status, job, pos, fresh>>
vars == <<mainVars, poolVars, jobs, wg, buf, obs>>

Blank == [tick |-> 0, state |-> Zero]

Init ==
  /\ loop = "ready" /\ next = 0 /\ tick = 0
  /\ sent = 0 /\ jobs = {} /\ open = TRUE /\ wg = 0
  /\ cur = 0
  /\ buf = [b \in {0, 1} |-> IF b = 0 THEN Initial ELSE [i \in Agent |-> Zero]]
  /\ obs = [i \in Agent |-> Blank]
  /\ stats = [total |-> 0, uncovered |-> 0]
  /\ seen = [i \in Agent |-> Blank]
  /\ status = [x \in Worker |-> "receive"]
  /\ job = [x \in Worker |-> 0]
  /\ pos = [x \in Worker |-> 0]
  /\ fresh = [x \in Worker |-> Blank]

-----------------------------------------------------------------------------
(* The workers                                                             *)

\* A worker receives a range. Which worker gets which range is up to the
\* scheduler, so that the order of the channel makes no difference.
Receive(x) ==
  /\ status[x] = "receive"
  /\ \E k \in jobs :
       /\ jobs' = jobs \ {k}
       /\ job' = [job EXCEPT ![x] = k]
       /\ pos' = [pos EXCEPT ![x] = Lo(k)]
  /\ status' = [status EXCEPT ![x] = "loop"]
  /\ UNCHANGED <<mainVars, fresh, wg, buf, obs>>

\* It reads its agent from the read buffer and the tick from the world.
Compute(x) ==
  /\ status[x] = "loop"
  /\ pos[x] < Hi(job[x])
  /\ fresh' = [fresh EXCEPT ![x] =
                 [tick |-> tick, state |-> Advance(buf[cur][pos[x]], tick)]]
  /\ status' = [status EXCEPT ![x] = "store"]
  /\ UNCHANGED <<mainVars, job, pos, jobs, wg, buf, obs>>

\* It stores the observation and, in the other buffer, the agent.
Store(x) ==
  /\ status[x] = "store"
  /\ obs' = [obs EXCEPT ![pos[x]] = fresh[x]]
  /\ buf' = [buf EXCEPT ![1 - cur][pos[x]] = fresh[x].state]
  /\ pos' = [pos EXCEPT ![x] = @ + 1]
  /\ fresh' = [fresh EXCEPT ![x] = Blank]
  /\ status' = [status EXCEPT ![x] = "loop"]
  /\ UNCHANGED <<mainVars, job, jobs, wg>>

\* The variables of the range end with it.
Forget(x) ==
  /\ status' = [status EXCEPT ![x] = "receive"]
  /\ job' = [job EXCEPT ![x] = 0]
  /\ pos' = [pos EXCEPT ![x] = 0]

DoneTwice(x) ==
  /\ status[x] = "loop"
  /\ pos[x] >= Hi(job[x])
  /\ wg' = wg - 2
  /\ Forget(x)
  /\ UNCHANGED <<mainVars, fresh, jobs, buf, obs>>

DoneUnlessEmpty(x) ==
  /\ status[x] = "loop"
  /\ pos[x] >= Hi(job[x])
  /\ wg' = IF Slice(job[x]) = {} THEN wg ELSE wg - 1
  /\ Forget(x)
  /\ UNCHANGED <<mainVars, fresh, jobs, buf, obs>>

\* Its range is done, and it goes back to the channel.
Done(x) ==
  /\ status[x] = "loop"
  /\ pos[x] >= Hi(job[x])
  /\ wg' = wg - 1
  /\ Forget(x)
  /\ UNCHANGED <<mainVars, fresh, jobs, buf, obs>>

\* The channel is closed and drained: the goroutine ends.
Exit(x) ==
  /\ status[x] = "receive"
  /\ ~open /\ jobs = {}
  /\ status' = [status EXCEPT ![x] = "gone"]
  /\ UNCHANGED <<mainVars, job, pos, fresh, jobs, wg, buf, obs>>

WorkerStep(x) ==
  Receive(x) \/ Compute(x) \/ Store(x) \/ Done(x) \/ Exit(x)

-----------------------------------------------------------------------------
(* The tick loop                                                           *)

\* World.Tick sets the tick, Step the counter of the ranges to wait for.
BeginTick ==
  /\ loop = "ready" /\ next < Ticks
  /\ tick' = next
  /\ wg' = wg + Workers
  /\ sent' = 0
  /\ loop' = "send"
  /\ UNCHANGED <<poolVars, next, jobs, open, cur, buf, obs, stats, seen>>

\* A send waits while the channel holds as many ranges as there are workers.
SendRange ==
  /\ loop = "send" /\ sent < Workers
  /\ Cardinality(jobs) < Workers
  /\ jobs' = jobs \cup {sent}
  /\ sent' = sent + 1
  /\ UNCHANGED <<poolVars, loop, next, tick, open, wg, cur, buf, obs, stats, seen>>

SwapEarly ==
  /\ loop = "send" /\ sent = Workers
  /\ cur' = 1 - cur
  /\ loop' = "collect"
  /\ UNCHANGED <<poolVars, next, tick, sent, jobs, open, wg, buf, obs, stats, seen>>

\* wg.Wait returns, and the buffers change places.
Swap ==
  /\ loop = "send" /\ sent = Workers
  /\ wg = 0
  /\ cur' = 1 - cur
  /\ loop' = "collect"
  /\ UNCHANGED <<poolVars, next, tick, sent, jobs, open, wg, buf, obs, stats, seen>>

CollectStats ==
  /\ loop = "collect"
  /\ stats' = [total     |-> stats.total + Cardinality(Agent),
               uncovered |-> stats.uncovered
                             + Cardinality({i \in Agent : ~Covered(obs[i].state)})]
  /\ loop' = "report"
  /\ UNCHANGED <<poolVars, next, tick, sent, jobs, open, wg, cur, buf, obs, seen>>

\* Run makes events of the observations, and goes on with the next tick.
Report ==
  /\ loop = "report"
  /\ seen' = obs
  /\ next' = next + 1
  /\ loop' = "ready"
  /\ UNCHANGED <<poolVars, tick, sent, jobs, open, wg, cur, buf, obs, stats>>

ReturnOpen ==
  /\ loop = "ready"
  /\ loop' = "closed"
  /\ UNCHANGED <<poolVars, next, tick, sent, jobs, open, wg, cur, buf, obs, stats, seen>>

\* Run returns, after the last tick or because its context is cancelled. The
\* deferred Close ends the pool.
Return ==
  /\ loop = "ready"
  /\ open' = FALSE
  /\ loop' = "closed"
  /\ UNCHANGED <<poolVars, next, tick, sent, jobs, wg, cur, buf, obs, stats, seen>>

\* A record of the tick cannot be built or published: Run returns from within
\* the event loop, by the same deferred Close.
Abort ==
  /\ loop = "report"
  /\ open' = FALSE
  /\ loop' = "aborted"
  /\ UNCHANGED <<poolVars, next, tick, sent, jobs, wg, cur, buf, obs, stats, seen>>

MainStep == BeginTick \/ SendRange \/ Swap \/ CollectStats \/ Report \/ Return \/ Abort

Ended == loop \in {"closed", "aborted"}

\* Nothing is left to run.
Rest ==
  /\ Ended /\ \A x \in Worker : status[x] = "gone"
  /\ UNCHANGED vars

Next == MainStep \/ (\E x \in Worker : WorkerStep(x)) \/ Rest

Spec == Init /\ [][Next]_vars

\* The Go scheduler lets every goroutine run that is not blocked. The end of
\* the run is owed nothing else: it may come at any tick.
FairSpec ==
  /\ Spec
  /\ WF_vars(MainStep)
  /\ \A x \in Worker : WF_vars(WorkerStep(x))

-----------------------------------------------------------------------------
(* Properties                                                              *)

\* Every counter, index and buffer holds a value of its type: in particular
\* the WaitGroup never goes below zero, which panics.
TypeOK ==
  /\ loop \in {"ready", "send", "collect", "report", "closed", "aborted"}
  /\ next \in 0..Ticks /\ tick \in 0..Ticks
  /\ sent \in 0..Workers /\ jobs \subseteq Job /\ open \in BOOLEAN /\ wg \in Nat
  /\ cur \in {0, 1} /\ buf \in [{0, 1} -> [Agent -> State]]
  /\ obs \in [Agent -> Observation]
  /\ stats \in [total : Nat, uncovered : Nat]
  /\ seen \in [Agent -> Observation]
  /\ status \in [Worker -> {"receive", "loop", "store", "gone"}]
  /\ job \in [Worker -> Job]
  /\ pos \in [Worker -> 0..AgentCount]
  /\ fresh \in [Worker -> Observation]

Busy(x) == status[x] \in {"loop", "store"}

\* The worker may touch the agent of its index.
Touches(x) == status[x] = "store" \/ (status[x] = "loop" /\ pos[x] < Hi(job[x]))

\* No data race (doublebuf.go:16, "each worker writes its own index range
\* only, so no lock is needed"): two workers never touch one agent, and while
\* any of them is at work the tick loop is inside Step and leaves the buffers,
\* the observations and the tick alone.
NoDataRace ==
  /\ \A x, y \in Worker : Touches(x) /\ Touches(y) /\ x # y => pos[x] # pos[y]
  /\ \A x \in Worker : Busy(x) => loop = "send"

\* Determinism (K10, world.go:147): whatever the number of workers and
\* whatever their order, the agents, the coverage counters and the
\* observations Run makes events of are those of the serial world.
Serially == INSTANCE SerialWorld
  WITH agents <- IF loop = "collect" THEN buf[1 - cur] ELSE buf[cur],
       tick   <- IF loop \in {"report", "aborted"} THEN next + 1 ELSE next
IsSerial == Serially!Serial

\* Step always returns: every tick begun gets to its events.
TickReturns == (loop = "send") ~> (loop = "report")

\* No worker outlives the run (doublebuf.go:43, "so that worker goroutines do
\* not leak").
PoolEnds == Ended ~> (\A x \in Worker : status[x] = "gone")
=============================================================================
