--------------------------- MODULE AgentWorldProofs ---------------------------
(***************************************************************************)
(* Proofs about the agent world for every population, every number of      *)
(* workers and every number of ticks.                                      *)
(*                                                                         *)
(* The argument. The slices cut the population without gap or overlap,     *)
(* and each is in one place: not yet sent, in the channel, with one worker *)
(* or done. The WaitGroup counts those that are not done. So it reaches    *)
(* zero when every agent has been moved from the read buffer, which nobody *)
(* writes in the meantime, and no worker is at work any more.              *)
(***************************************************************************)
EXTENDS AgentWorld, FiniteSetTheorems, TLAPS

\* Slices of this step that are not done.
Held == {job[x] : x \in {y \in Worker : Busy(y)}}
Pending == (sent..(Workers - 1)) \cup jobs \cup Held

\* What the step makes of agent i, and that both places hold it.
Moved(i) == [tick |-> tick, state |-> Advance(buf[cur][i], tick)]
Settled(i) == obs[i] = Moved(i) /\ buf[1 - cur][i] = Moved(i).state

\* Every slice is in one place, and a worker is within its slice.
OnePlace ==
  /\ \A k \in jobs : k < sent
  /\ \A x \in Worker : Busy(x) =>
       /\ job[x] < sent /\ job[x] \notin jobs
       /\ Lo(job[x]) <= pos[x] /\ pos[x] <= Hi(job[x])
  /\ \A x, y \in Worker : Busy(x) /\ Busy(y) /\ x # y => job[x] # job[y]
  /\ \A x \in Worker : status[x] = "store" =>
       pos[x] < Hi(job[x]) /\ fresh[x] = Moved(pos[x])

\* The WaitGroup counts the slices that are not done, and outside Step there
\* are none.
Counted ==
  /\ loop = "send" => wg = Cardinality(Pending)
  /\ loop # "send" => wg = 0 /\ jobs = {} /\ \A x \in Worker : ~Busy(x)

\* What has been worked on is settled.
Progress ==
  loop = "send" =>
    /\ \A k \in Job : k \notin Pending => \A i \in Slice(k) : Settled(i)
    /\ \A x \in Worker : Busy(x) => \A i \in Lo(job[x])..(pos[x] - 1) : Settled(i)

\* After the exchange the observations are those of the new read buffer.
Exchanged ==
  /\ loop \in {"send", "collect", "report"} => tick = next /\ next < Ticks
  /\ loop \in {"collect", "report"} =>
       \A i \in Agent : obs[i] = [tick |-> tick, state |-> buf[cur][i]]
  /\ loop = "collect" =>
       \A i \in Agent : buf[cur][i] = Advance(buf[1 - cur][i], tick)

WInv == TypeOK /\ OnePlace /\ Counted /\ Progress /\ Exchanged

-----------------------------------------------------------------------------
(* The slices.                                                             *)

LEMMA Euclid ==
  ASSUME NEW a \in Nat, NEW b \in Nat \ {0}
  PROVE  /\ a \div b \in Nat
         /\ b * (a \div b) <= a
         /\ a < b * (a \div b) + b
OBVIOUS

LEMMA NextMultiple ==
  ASSUME NEW a \in Nat, NEW b \in Nat, NEW c \in Nat, a < b
  PROVE  a * c + c <= b * c
<1>1. b - a - 1 \in Nat
  OBVIOUS
<1>2. (b - a - 1) * c \in Nat
  BY <1>1
<1> QED
  BY <1>2

LEMMA PoolSize ==
  /\ Workers \in Nat \ {0} /\ Workers <= AgentCount
  /\ AgentCount \in Nat \ {0}
BY WorldAssumption DEF Workers, Least

\* The chunks are long enough for all agents.
LEMMA ChunkSize ==
  /\ Chunk \in Nat \ {0}
  /\ AgentCount <= Workers * Chunk
<1>1. AgentCount + Workers - 1 \in Nat
  BY PoolSize
<1>2. /\ Chunk \in Nat
      /\ AgentCount + Workers - 1 < Workers * Chunk + Workers
  BY <1>1, PoolSize, Euclid DEF Chunk
<1>3. Workers * Chunk \in Nat
  BY <1>2, PoolSize
<1>4. AgentCount <= Workers * Chunk
  BY <1>2, <1>3, PoolSize
<1>5. Chunk # 0
  BY <1>4, PoolSize
<1> QED
  BY <1>2, <1>4, <1>5

LEMMA SliceBounds ==
  ASSUME NEW k \in Job
  PROVE  /\ Lo(k) \in 0..AgentCount /\ Hi(k) \in 0..AgentCount
         /\ Lo(k) <= Hi(k)
         /\ Slice(k) \subseteq Agent
<1>1. k * Chunk \in Nat /\ Chunk \in Nat
  BY ChunkSize, PoolSize DEF Job
<1>2. Lo(k) \in 0..AgentCount /\ Hi(k) \in 0..AgentCount /\ Lo(k) <= Hi(k)
  BY <1>1, PoolSize DEF Lo, Hi, Least
<1> QED
  BY <1>2, PoolSize DEF Slice, Agent

\* No agent is in two slices.
LEMMA SlicesApart ==
  ASSUME NEW j \in Job, NEW k \in Job, j # k,
         NEW a \in Int, NEW b \in Int,
         Lo(j) <= a, a < Hi(j), Lo(k) <= b, b < Hi(k)
  PROVE  a # b
<1>1. ASSUME NEW m \in Job, NEW n \in Job, m < n
      PROVE  Hi(m) <= Lo(n)
  <2>1. m \in Nat /\ n \in Nat /\ Chunk \in Nat
    BY ChunkSize, PoolSize DEF Job
  <2>2. m * Chunk \in Nat /\ n * Chunk \in Nat
    BY <2>1
  <2>3. m * Chunk + Chunk <= n * Chunk
    BY <1>1, <2>1, NextMultiple
  <2> QED
    BY <2>1, <2>2, <2>3, PoolSize DEF Hi, Lo, Least
<1>2. j \in Int /\ k \in Int
  BY PoolSize DEF Job
<1>3. CASE j < k
  BY <1>1, <1>3, SliceBounds
<1>4. CASE k < j
  BY <1>1, <1>4, SliceBounds
<1> QED
  BY <1>2, <1>3, <1>4

\* Every agent is in one.
LEMMA SlicesCover ==
  ASSUME NEW i \in Agent
  PROVE  \E k \in Job : i \in Slice(k)
<1> DEFINE k == i \div Chunk
<1>1. i \in Nat /\ i < AgentCount
  BY PoolSize DEF Agent
<1>2. k \in Nat /\ Chunk * k <= i /\ i < Chunk * k + Chunk
  BY <1>1, ChunkSize, Euclid
<1> HIDE DEF k
<1>3. k * Chunk \in Nat /\ k * Chunk <= i /\ i < k * Chunk + Chunk
  BY <1>2, ChunkSize
<1>4. k < Workers
  <2> SUFFICES ASSUME Workers <= k
               PROVE  FALSE
    BY <1>2, PoolSize
  <2>1. (k - Workers) * Chunk \in Nat
    BY <1>2, ChunkSize, PoolSize
  <2>2. Workers * Chunk <= k * Chunk
    BY <2>1, <1>2, ChunkSize, PoolSize
  <2> QED
    BY <1>1, <1>3, <2>2, ChunkSize, PoolSize
<1>5. Lo(k) <= i /\ i < Hi(k)
  BY <1>1, <1>3, ChunkSize, PoolSize DEF Lo, Hi, Least
<1>6. k \in Job
  BY <1>2, <1>4, PoolSize DEF Job
<1> QED
  BY <1>1, <1>5, <1>6, SliceBounds DEF Slice

-----------------------------------------------------------------------------
(* What the steps have in common.                                          *)

LEMMA PendingFinite ==
  ASSUME TypeOK
  PROVE  /\ Pending \subseteq Job
         /\ IsFiniteSet(Pending) /\ Cardinality(Pending) \in Nat
<1>1. Pending \subseteq Job
  <2>1. Held \subseteq Job /\ jobs \subseteq Job
    BY DEF Held, TypeOK
  <2>2. sent..(Workers - 1) \subseteq Job
    BY PoolSize DEF Job, TypeOK
  <2> QED
    BY <2>1, <2>2 DEF Pending
<1>2. IsFiniteSet(Job)
  BY FS_Interval, PoolSize DEF Job
<1> QED
  BY <1>1, <1>2, FS_Subset, FS_CardinalityType

\* The read buffer gives states, and so do its agents moved.
LEMMA MovedType ==
  ASSUME TypeOK, NEW i \in Agent
  PROVE  /\ buf[cur][i] \in State
         /\ Moved(i) \in Observation /\ Moved(i).state = Advance(buf[cur][i], tick)
<1>1. buf[cur][i] \in State
  BY DEF TypeOK
<1>2. Advance(buf[cur][i], tick) \in State
  BY <1>1, WorldAssumption DEF TypeOK
<1>3. tick \in Nat
  BY WorldAssumption DEF TypeOK
<1> QED
  BY <1>1, <1>2, <1>3 DEF Moved, Observation

\* A worker that may still touch its index touches an agent.
LEMMA IndexInPopulation ==
  ASSUME WInv, NEW x \in Worker, Busy(x), pos[x] < Hi(job[x])
  PROVE  pos[x] \in Agent
<1>1. job[x] \in Job /\ pos[x] \in 0..AgentCount
  BY DEF WInv, TypeOK
<1>2. Hi(job[x]) \in 0..AgentCount
  BY <1>1, SliceBounds
<1> QED
  BY <1>1, <1>2, PoolSize DEF Agent

\* Somebody is at work or something is in the channel only inside Step.
LEMMA InsideStep ==
  ASSUME WInv, jobs # {} \/ \E x \in Worker : Busy(x)
  PROVE  loop = "send"
BY DEF WInv, Counted

LEMMA InitHolds ==
  ASSUME Init
  PROVE  WInv
<1>1. TypeOK
  <2>1. Blank \in Observation
    BY WorldAssumption DEF Blank, Observation
  <2>2. buf \in [{0, 1} -> [Agent -> State]]
    BY WorldAssumption DEF Init
  <2>3. 0 \in Job
    BY PoolSize DEF Job
  <2> QED
    BY <2>1, <2>2, <2>3, PoolSize, WorldAssumption DEF Init, TypeOK
<1>2. OnePlace /\ Counted /\ Progress /\ Exchanged
  BY DEF Init, OnePlace, Counted, Progress, Exchanged, Busy
<1> QED
  BY <1>1, <1>2 DEF WInv

-----------------------------------------------------------------------------
(* The workers keep the invariant.                                         *)

LEMMA ReceiveKeeps ==
  ASSUME WInv, NEW x \in Worker, Receive(x)
  PROVE  WInv'
<1>1. PICK k \in jobs :
        /\ jobs' = jobs \ {k}
        /\ job' = [job EXCEPT ![x] = k]
        /\ pos' = [pos EXCEPT ![x] = Lo(k)]
  BY DEF Receive
<1>2. /\ status[x] = "receive" /\ status' = [status EXCEPT ![x] = "loop"]
      /\ UNCHANGED <<loop, next, tick, sent, open, cur, stats, seen, fresh, wg, buf, obs>>
  BY DEF Receive, mainVars
<1>3. k \in Job /\ k < sent /\ loop = "send"
  BY InsideStep DEF WInv, TypeOK, OnePlace
<1>4. Lo(k) \in 0..AgentCount /\ Lo(k) <= Hi(k)
  BY <1>3, SliceBounds
<1>5. /\ \A y \in Worker : y # x =>
            /\ status'[y] = status[y] /\ job'[y] = job[y] /\ pos'[y] = pos[y]
      /\ status'[x] = "loop" /\ job'[x] = k /\ pos'[x] = Lo(k)
  BY <1>1, <1>2 DEF WInv, TypeOK
<1>6. TypeOK'
  BY <1>1, <1>2, <1>3, <1>4 DEF WInv, TypeOK
<1>7. OnePlace'
  BY <1>1, <1>2, <1>3, <1>4, <1>5 DEF WInv, OnePlace, Busy, Moved
<1>8. Pending' = Pending
  <2>1. Held' = Held \cup {k}
    BY <1>2, <1>5 DEF Held, Busy
  <2> QED
    BY <1>1, <1>2, <2>1 DEF Pending
<1>9. Counted'
  BY <1>2, <1>3, <1>8 DEF WInv, Counted
<1>10. Progress'
  <2>1. Lo(k)..(Lo(k) - 1) = {}
    BY <1>4, PoolSize
  <2> QED
    BY <1>2, <1>5, <1>8, <2>1 DEF WInv, Progress, Busy, Settled, Moved
<1>11. Exchanged'
  BY <1>2 DEF WInv, Exchanged
<1> QED
  BY <1>6, <1>7, <1>9, <1>10, <1>11 DEF WInv

LEMMA ComputeKeeps ==
  ASSUME WInv, NEW x \in Worker, Compute(x)
  PROVE  WInv'
<1>1. /\ status[x] = "loop" /\ pos[x] < Hi(job[x])
      /\ status' = [status EXCEPT ![x] = "store"]
      /\ fresh' = [fresh EXCEPT ![x] = Moved(pos[x])]
      /\ UNCHANGED <<loop, next, tick, sent, open, cur, stats, seen, job, pos,
                     jobs, wg, buf, obs>>
  BY DEF Compute, mainVars, Moved
<1>2. Busy(x) /\ pos[x] \in Agent
  BY <1>1, IndexInPopulation DEF Busy
<1>3. Moved(pos[x]) \in Observation
  BY <1>2, MovedType DEF WInv
<1>4. \A y \in Worker : Busy(y)' <=> Busy(y)
  BY <1>1 DEF Busy, WInv, TypeOK
<1>5. TypeOK'
  BY <1>1, <1>3 DEF WInv, TypeOK
<1>6. OnePlace'
  <2>1. \A y \in Worker : status'[y] = "store" =>
          pos'[y] < Hi(job'[y]) /\ fresh'[y] = Moved(pos'[y])
    BY <1>1 DEF WInv, OnePlace, TypeOK
  <2>2. \A i : Moved(i)' = Moved(i)
    BY <1>1 DEF Moved
  <2> QED
    BY <1>1, <1>4, <2>1, <2>2 DEF WInv, OnePlace
<1>7. Pending' = Pending
  BY <1>1, <1>4 DEF Pending, Held
<1>8. Counted'
  BY <1>1, <1>4, <1>7 DEF WInv, Counted
<1>9. Progress' /\ Exchanged'
  BY <1>1, <1>4, <1>7 DEF WInv, Progress, Exchanged, Settled, Moved
<1> QED
  BY <1>5, <1>6, <1>8, <1>9 DEF WInv

LEMMA StoreKeeps ==
  ASSUME WInv, NEW x \in Worker, Store(x)
  PROVE  WInv'
<1> DEFINE a == pos[x]
<1>1. /\ status[x] = "store" /\ status' = [status EXCEPT ![x] = "loop"]
      /\ obs' = [obs EXCEPT ![a] = fresh[x]]
      /\ buf' = [buf EXCEPT ![1 - cur][a] = fresh[x].state]
      /\ pos' = [pos EXCEPT ![x] = @ + 1]
      /\ fresh' = [fresh EXCEPT ![x] = Blank]
      /\ UNCHANGED <<loop, next, tick, sent, open, cur, stats, seen, job, jobs, wg>>
  BY DEF Store, mainVars
<1>2. Busy(x) /\ a < Hi(job[x]) /\ fresh[x] = Moved(a) /\ loop = "send"
  BY <1>1, InsideStep DEF Busy, WInv, OnePlace
<1>3. a \in Agent /\ a \in Nat /\ a + 1 \in 0..AgentCount
  <2>1. a \in Agent
    BY <1>2, IndexInPopulation
  <2> QED
    BY <2>1, PoolSize DEF Agent
<1>4. Moved(a) \in Observation /\ Moved(a).state \in State /\ Blank \in Observation
  BY <1>3, MovedType, WorldAssumption DEF WInv, Observation, Blank
<1>5. \A y \in Worker : Busy(y)' <=> Busy(y)
  BY <1>1 DEF Busy, WInv, TypeOK
<1>6. /\ cur \in {0, 1} /\ 1 - cur \in {0, 1} /\ 1 - cur # cur
      /\ buf \in [{0, 1} -> [Agent -> State]] /\ obs \in [Agent -> Observation]
  BY DEF WInv, TypeOK
<1>7. TypeOK'
  <2>1. buf' \in [{0, 1} -> [Agent -> State]] /\ obs' \in [Agent -> Observation]
    BY <1>1, <1>2, <1>3, <1>4, <1>6
  <2>2. pos' \in [Worker -> 0..AgentCount] /\ fresh' \in [Worker -> Observation]
    BY <1>1, <1>3, <1>4 DEF WInv, TypeOK
  <2> QED
    BY <1>1, <2>1, <2>2 DEF WInv, TypeOK
<1>8. \A i \in Agent : Moved(i)' = Moved(i)
  BY <1>1, <1>6 DEF Moved
<1>9. \A i \in Agent : i = a \/ Settled(i) => Settled(i)'
  <2> SUFFICES ASSUME NEW i \in Agent, i = a \/ Settled(i)
               PROVE  Settled(i)'
    OBVIOUS
  <2>1. CASE i = a
    BY <1>1, <1>2, <1>3, <1>6, <1>8, <2>1 DEF Settled
  <2>2. CASE i # a /\ Settled(i)
    BY <1>1, <1>3, <1>6, <1>8, <2>2 DEF Settled
  <2> QED
    BY <2>1, <2>2
<1>10. OnePlace'
  <2>1. \A y \in Worker : Busy(y)' =>
          /\ job'[y] < sent' /\ job'[y] \notin jobs'
          /\ Lo(job'[y]) <= pos'[y] /\ pos'[y] <= Hi(job'[y])
    <3> SUFFICES ASSUME NEW y \in Worker, Busy(y)
                 PROVE  /\ job[y] < sent /\ job[y] \notin jobs
                        /\ Lo(job[y]) <= pos'[y] /\ pos'[y] <= Hi(job[y])
      BY <1>1, <1>5
    <3>1. /\ job[y] < sent /\ job[y] \notin jobs
          /\ Lo(job[y]) <= pos[y] /\ pos[y] <= Hi(job[y])
      BY DEF WInv, OnePlace
    <3>2. CASE y # x
      BY <1>1, <3>1, <3>2 DEF WInv, TypeOK
    <3>3. CASE y = x
      <4>1. pos'[y] = a + 1 /\ job[x] \in Job
        BY <1>1, <3>3 DEF WInv, TypeOK
      <4>2. Lo(job[x]) \in Int /\ Hi(job[x]) \in Int
        BY <4>1, SliceBounds
      <4> QED
        BY <1>2, <1>3, <3>1, <3>3, <4>1, <4>2
    <3> QED
      BY <3>2, <3>3
  <2>2. \A y \in Worker : status'[y] = "store" =>
          pos'[y] < Hi(job'[y]) /\ fresh'[y] = Moved(pos[y])'
    <3> SUFFICES ASSUME NEW y \in Worker, status'[y] = "store"
                 PROVE  pos'[y] < Hi(job'[y]) /\ fresh'[y] = Moved(pos[y])'
      OBVIOUS
    <3>1. y # x /\ status[y] = "store" /\ pos'[y] = pos[y] /\ fresh'[y] = fresh[y]
      BY <1>1 DEF WInv, TypeOK
    <3>2. pos[y] < Hi(job[y]) /\ fresh[y] = Moved(pos[y]) /\ Busy(y)
      BY <3>1 DEF WInv, OnePlace, Busy
    <3>3. Moved(pos[y])' = Moved(pos[y])
      BY <1>8, <3>1, <3>2, IndexInPopulation DEF Moved
    <3> QED
      BY <1>1, <3>1, <3>2, <3>3 DEF Moved
  <2> QED
    BY <1>1, <1>5, <2>1, <2>2 DEF WInv, OnePlace
<1>11. Pending' = Pending
  BY <1>1, <1>5 DEF Pending, Held
<1>12. Counted'
  BY <1>1, <1>5, <1>11 DEF WInv, Counted
<1>13. Progress'
  <2>1. ASSUME NEW k \in Job, k \notin Pending, NEW i \in Slice(k)
        PROVE  Settled(i)'
    BY <1>2, <1>9, <2>1, SliceBounds DEF WInv, Progress
  <2>2. ASSUME NEW y \in Worker, Busy(y), NEW i \in Lo(job[y])..(pos'[y] - 1)
        PROVE  Settled(i)'
    <3>1. job[y] \in Job /\ pos[y] \in Nat /\ pos[y] <= AgentCount
      BY PoolSize DEF WInv, TypeOK
    <3>2. Lo(job[y]) \in Nat
      BY <3>1, SliceBounds, PoolSize
    <3>3. i \in Lo(job[y])..(pos[y] - 1) \/ i = a
      BY <1>1, <1>3, <3>1, <3>2, <2>2 DEF WInv, TypeOK
    <3>4. i \in Agent
      BY <1>3, <3>1, <3>2, <3>3, PoolSize DEF Agent
    <3> QED
      BY <1>2, <1>9, <2>2, <3>3, <3>4 DEF WInv, Progress
  <2> QED
    BY <1>1, <1>5, <1>11, <2>1, <2>2 DEF Progress
<1>14. Exchanged'
  BY <1>1, <1>2 DEF WInv, Exchanged
<1> QED
  BY <1>7, <1>10, <1>12, <1>13, <1>14 DEF WInv

\* The slice leaves the pending ones, and the counter follows.
LEMMA DoneKeeps ==
  ASSUME WInv, NEW x \in Worker, Done(x)
  PROVE  WInv'
<1> DEFINE k == job[x]
<1>1. /\ status[x] = "loop" /\ pos[x] >= Hi(k)
      /\ wg' = wg - 1
      /\ status' = [status EXCEPT ![x] = "receive"]
      /\ job' = [job EXCEPT ![x] = 0]
      /\ pos' = [pos EXCEPT ![x] = 0]
      /\ UNCHANGED <<loop, next, tick, sent, open, cur, stats, seen, fresh, jobs, buf, obs>>
  BY DEF Done, Forget, mainVars
<1>2. Busy(x) /\ loop = "send" /\ k \in Job
  BY <1>1, InsideStep DEF Busy, WInv, TypeOK
<1>3. /\ \A y \in Worker : y # x =>
            /\ status'[y] = status[y] /\ job'[y] = job[y] /\ pos'[y] = pos[y]
      /\ status'[x] = "receive"
  BY <1>1 DEF WInv, TypeOK
<1>4. \A y \in Worker : Busy(y)' <=> Busy(y) /\ y # x
  BY <1>3 DEF Busy
<1>5. /\ Held' = Held \ {k} /\ k \in Held
      /\ k < sent /\ k \notin jobs
  <2>1. \A y \in Worker : Busy(y) /\ y # x => job[y] # k
    BY <1>2 DEF WInv, OnePlace
  <2> QED
    BY <1>2, <1>3, <1>4, <2>1 DEF Held, WInv, OnePlace
<1>6. Pending' = Pending \ {k} /\ k \in Pending
  <2>1. k \notin sent..(Workers - 1)
    BY <1>2, <1>5, PoolSize DEF WInv, TypeOK, Job
  <2> QED
    BY <1>1, <1>5, <2>1 DEF Pending
<1>7. wg' = Cardinality(Pending') /\ wg' \in Nat
  <2>1. wg = Cardinality(Pending)
    BY <1>2 DEF WInv, Counted
  <2>2. IsFiniteSet(Pending) /\ Cardinality(Pending) \in Nat
    BY PendingFinite DEF WInv
  <2>3. /\ IsFiniteSet(Pending \ {k})
        /\ Cardinality(Pending \ {k}) = Cardinality(Pending) - 1
    BY <1>6, <2>2, FS_RemoveElement
  <2>4. Cardinality(Pending \ {k}) \in Nat
    BY <2>3, FS_CardinalityType
  <2> QED
    BY <1>1, <1>6, <2>1, <2>3, <2>4
<1>8. TypeOK'
  <2>1. 0 \in Job /\ 0 \in 0..AgentCount
    BY PoolSize DEF Job
  <2> QED
    BY <1>1, <1>7, <2>1 DEF WInv, TypeOK
<1>9. OnePlace'
  <2>1. \A i : Moved(i)' = Moved(i)
    BY <1>1 DEF Moved
  <2> QED
    BY <1>1, <1>3, <1>4, <2>1 DEF WInv, OnePlace
<1>10. Counted'
  BY <1>1, <1>2, <1>7 DEF Counted
<1>11. Progress'
  <2>1. \A i : Settled(i)' <=> Settled(i)
    BY <1>1 DEF Settled, Moved
  <2>2. \A i \in Slice(k) : Settled(i)
    <3>1. \A i \in Lo(k)..(pos[x] - 1) : Settled(i)
      BY <1>2 DEF WInv, Progress
    <3>2. Lo(k) \in Int /\ Hi(k) \in Int /\ pos[x] \in Int
      BY <1>2, SliceBounds, PoolSize DEF WInv, TypeOK
    <3> QED
      BY <1>1, <3>1, <3>2 DEF Slice
  <2>3. \A m \in Job : m \notin Pending' => \A i \in Slice(m) : Settled(i)
    BY <1>2, <1>6, <2>2 DEF WInv, Progress
  <2>4. \A y \in Worker : Busy(y)' =>
          \A i \in Lo(job'[y])..(pos'[y] - 1) : Settled(i)
    BY <1>2, <1>3, <1>4 DEF WInv, Progress
  <2> QED
    BY <2>1, <2>3, <2>4 DEF Progress
<1>12. Exchanged'
  BY <1>1 DEF WInv, Exchanged
<1> QED
  BY <1>8, <1>9, <1>10, <1>11, <1>12 DEF WInv

LEMMA ExitKeeps ==
  ASSUME WInv, NEW x \in Worker, Exit(x)
  PROVE  WInv'
<1>1. /\ status[x] = "receive" /\ status' = [status EXCEPT ![x] = "gone"]
      /\ UNCHANGED <<loop, next, tick, sent, open, cur, stats, seen, fresh, job,
                     pos, jobs, wg, buf, obs>>
  BY DEF Exit, mainVars
<1>2. /\ \A y \in Worker : Busy(y)' <=> Busy(y)
      /\ \A y \in Worker : status'[y] = "store" <=> status[y] = "store"
  BY <1>1 DEF Busy, WInv, TypeOK
<1>3. TypeOK'
  BY <1>1 DEF WInv, TypeOK
<1>4. OnePlace'
  BY <1>1, <1>2 DEF WInv, OnePlace, Moved
<1>5. Pending' = Pending
  BY <1>1, <1>2 DEF Pending, Held
<1>6. Counted' /\ Exchanged'
  BY <1>1, <1>2, <1>5 DEF WInv, Counted, Exchanged
<1>7. Progress'
  BY <1>1, <1>2, <1>5 DEF WInv, Progress, Settled, Moved
<1> QED
  BY <1>3, <1>4, <1>6, <1>7 DEF WInv

-----------------------------------------------------------------------------
(* The tick loop keeps the invariant.                                      *)

LEMMA BeginTickKeeps ==
  ASSUME WInv, BeginTick
  PROVE  WInv'
<1> USE DEF BeginTick, poolVars
<1>1. wg = 0 /\ jobs = {} /\ \A x \in Worker : ~Busy(x)
  BY DEF WInv, Counted
<1>2. \A x \in Worker : ~Busy(x)' /\ status'[x] # "store"
  BY <1>1 DEF Busy
<1>3. TypeOK'
  BY <1>1, PoolSize, WorldAssumption DEF WInv, TypeOK
<1>4. OnePlace'
  BY <1>1, <1>2 DEF OnePlace
<1>5. Pending' = Job
  BY <1>1, <1>2 DEF Pending, Held, Job
<1>6. Counted'
  <2>1. Cardinality(Job) = Workers
    BY FS_Interval, PoolSize DEF Job
  <2> QED
    BY <1>1, <1>5, <2>1, PoolSize DEF Counted
<1>7. Progress'
  BY <1>2, <1>5 DEF Progress
<1>8. Exchanged'
  BY DEF Exchanged
<1> QED
  BY <1>3, <1>4, <1>6, <1>7, <1>8 DEF WInv

LEMMA SendRangeKeeps ==
  ASSUME WInv, SendRange
  PROVE  WInv'
<1> USE DEF SendRange, poolVars
<1>1. sent \in Job /\ sent' \in 0..Workers /\ sent \in Nat
  BY PoolSize DEF WInv, TypeOK, Job
<1>2. \A x \in Worker : Busy(x)' <=> Busy(x)
  BY DEF Busy
<1>3. TypeOK'
  BY <1>1 DEF WInv, TypeOK
<1>4. OnePlace'
  <2>1. \A i : Moved(i)' = Moved(i)
    BY DEF Moved
  <2>2. \A k \in jobs' : k < sent'
    <3>1. \A k \in jobs : k \in Int
      BY PoolSize DEF WInv, TypeOK, Job
    <3> QED
      BY <1>1, <3>1 DEF WInv, OnePlace
  <2>3. \A x \in Worker : Busy(x) => job[x] < sent + 1 /\ job[x] \notin jobs'
    <3>1. \A x \in Worker : job[x] \in Int
      BY PoolSize DEF WInv, TypeOK, Job
    <3> QED
      BY <1>1, <3>1 DEF WInv, OnePlace
  <2> QED
    BY <1>2, <2>1, <2>2, <2>3 DEF WInv, OnePlace
<1>5. Pending' = Pending
  <2>1. sent..(Workers - 1) = {sent} \cup ((sent + 1)..(Workers - 1))
    BY <1>1, PoolSize
  <2>2. Held' = Held
    BY <1>2 DEF Held
  <2> QED
    BY <2>1, <2>2 DEF Pending
<1>6. Counted' /\ Exchanged'
  BY <1>2, <1>5 DEF WInv, Counted, Exchanged
<1>7. Progress'
  BY <1>2, <1>5 DEF WInv, Progress, Settled, Moved
<1> QED
  BY <1>3, <1>4, <1>6, <1>7 DEF WInv

\* When the counter is zero, all agents are settled and nobody is at work.
LEMMA BarrierOpens ==
  ASSUME WInv, loop = "send", wg = 0
  PROVE  /\ jobs = {} /\ \A x \in Worker : ~Busy(x)
         /\ \A i \in Agent : Settled(i)
<1>1. Pending = {}
  BY PendingFinite, FS_EmptySet DEF WInv, Counted
<1>2. jobs = {} /\ \A x \in Worker : ~Busy(x)
  BY <1>1 DEF Pending, Held
<1>3. \A i \in Agent : Settled(i)
  BY <1>1, SlicesCover DEF WInv, Progress
<1> QED
  BY <1>2, <1>3

LEMMA SwapKeeps ==
  ASSUME WInv, Swap
  PROVE  WInv'
<1> USE DEF Swap, poolVars
<1>1. /\ jobs = {} /\ \A x \in Worker : ~Busy(x)
      /\ \A i \in Agent : Settled(i)
  BY BarrierOpens
<1>2. cur \in {0, 1} /\ 1 - cur \in {0, 1} /\ 1 - (1 - cur) = cur
  BY DEF WInv, TypeOK
<1>3. \A x \in Worker : ~Busy(x)' /\ status'[x] # "store"
  BY <1>1 DEF Busy
<1>4. TypeOK'
  BY <1>2 DEF WInv, TypeOK
<1>5. OnePlace' /\ Counted' /\ Progress'
  BY <1>1, <1>3 DEF OnePlace, Counted, Progress
<1>6. Exchanged'
  <2>1. \A i \in Agent :
          /\ obs[i] = [tick |-> tick, state |-> buf[1 - cur][i]]
          /\ buf[1 - cur][i] = Advance(buf[cur][i], tick)
    BY <1>1, MovedType DEF WInv, Settled, Moved
  <2>2. tick = next /\ next < Ticks
    BY DEF WInv, Exchanged
  <2> QED
    BY <1>2, <2>1, <2>2 DEF Exchanged
<1> QED
  BY <1>4, <1>5, <1>6 DEF WInv

\* The other steps of the loop leave the workers and what they work on alone.
LEMMA CollectStatsKeeps ==
  ASSUME WInv, CollectStats
  PROVE  WInv'
<1> USE DEF CollectStats, poolVars
<1>1. /\ Cardinality(Agent) \in Nat
      /\ Cardinality({i \in Agent : ~Covered(obs[i].state)}) \in Nat
  <2>1. IsFiniteSet(Agent)
    BY FS_Interval, PoolSize DEF Agent
  <2>2. IsFiniteSet({i \in Agent : ~Covered(obs[i].state)})
    BY <2>1, FS_Subset
  <2> QED
    BY <2>1, <2>2, FS_CardinalityType
<1>2. stats' \in [total : Nat, uncovered : Nat]
  BY <1>1 DEF WInv, TypeOK
<1>3. TypeOK'
  BY <1>2 DEF WInv, TypeOK
<1>4. OnePlace' /\ Counted' /\ Progress' /\ Exchanged'
  BY DEF WInv, OnePlace, Counted, Progress, Exchanged, Busy, Moved
<1> QED
  BY <1>3, <1>4 DEF WInv

LEMMA ReportKeeps ==
  ASSUME WInv, Report
  PROVE  WInv'
<1> USE DEF Report, poolVars
<1>1. TypeOK'
  <2>1. next \in 0..Ticks /\ next < Ticks
    BY DEF WInv, TypeOK, Exchanged
  <2>2. next + 1 \in 0..Ticks
    BY <2>1, WorldAssumption
  <2> QED
    BY <2>2 DEF WInv, TypeOK
<1>2. OnePlace' /\ Counted' /\ Progress' /\ Exchanged'
  BY DEF WInv, OnePlace, Counted, Progress, Exchanged, Busy, Moved
<1> QED
  BY <1>1, <1>2 DEF WInv

LEMMA EndKeeps ==
  ASSUME WInv, Return \/ Abort
  PROVE  WInv'
<1> USE DEF Return, Abort, poolVars
<1>1. TypeOK'
  BY DEF WInv, TypeOK
<1>2. OnePlace' /\ Counted' /\ Progress' /\ Exchanged'
  BY DEF WInv, OnePlace, Counted, Progress, Exchanged, Busy, Moved
<1> QED
  BY <1>1, <1>2 DEF WInv

-----------------------------------------------------------------------------
(* The theorems.                                                           *)

LEMMA StepKeeps ==
  ASSUME WInv, [Next]_vars
  PROVE  WInv'
<1>1. CASE MainStep
  BY <1>1, BeginTickKeeps, SendRangeKeeps, SwapKeeps, CollectStatsKeeps,
     ReportKeeps, EndKeeps DEF MainStep
<1>2. CASE \E x \in Worker : WorkerStep(x)
  BY <1>2, ReceiveKeeps, ComputeKeeps, StoreKeeps, DoneKeeps, ExitKeeps
     DEF WorkerStep
<1>3. CASE UNCHANGED vars
  <2>1. UNCHANGED <<loop, next, tick, sent, open, cur, stats, seen, status, job,
                    pos, fresh, jobs, wg, buf, obs>>
    BY <1>3 DEF vars, mainVars, poolVars
  <2> QED
    BY <2>1 DEF WInv, TypeOK, OnePlace, Counted, Progress, Exchanged, Busy, Moved,
                Settled, Pending, Held
<1> QED
  BY <1>1, <1>2, <1>3 DEF Next, Rest

\* The inductive invariant of the worker pool.
THEOREM WorldInvariant == Spec => []WInv
<1>1. Init => WInv
  BY InitHolds
<1>2. WInv /\ [Next]_vars => WInv'
  BY StepKeeps
<1> QED
  BY <1>1, <1>2, PTL DEF Spec

\* Counters, indices and buffers keep their types; the WaitGroup is never
\* below zero.
THEOREM WorldTypeOK == Spec => []TypeOK
<1>1. WInv => TypeOK
  BY DEF WInv
<1> QED
  BY <1>1, WorldInvariant, PTL

\* Whatever the pool's size and the order of its workers, no agent is touched
\* by two of them and none is touched outside Step.
THEOREM PoolHasNoDataRace == Spec => []NoDataRace
<1>1. WInv => NoDataRace
  <2> SUFFICES ASSUME WInv
               PROVE  NoDataRace
    OBVIOUS
  <2>1. \A x \in Worker : Busy(x) => loop = "send"
    BY DEF WInv, Counted
  <2>2. ASSUME NEW x \in Worker, NEW y \in Worker,
               Touches(x), Touches(y), x # y
        PROVE  pos[x] # pos[y]
    <3>1. /\ Busy(x) /\ pos[x] < Hi(job[x])
          /\ Busy(y) /\ pos[y] < Hi(job[y])
      BY <2>2 DEF Touches, Busy, WInv, OnePlace
    <3>2. /\ job[x] \in Job /\ job[y] \in Job /\ pos[x] \in Int /\ pos[y] \in Int
      BY DEF WInv, TypeOK
    <3>3. /\ job[x] # job[y] /\ Lo(job[x]) <= pos[x] /\ Lo(job[y]) <= pos[y]
      BY <2>2, <3>1 DEF WInv, OnePlace
    <3> QED
      BY <3>1, <3>2, <3>3, SlicesApart
  <2> QED
    BY <2>1, <2>2 DEF NoDataRace
<1> QED
  BY <1>1, WorldInvariant, PTL

\* What the serial world sees of the pool.
Agents == IF loop = "collect" THEN buf[1 - cur] ELSE buf[cur]
Count  == IF loop \in {"report", "aborted"} THEN next + 1 ELSE next
Seen   == <<Agents, Count, stats, seen>>

\* Workers write where the serial world does not look.
LEMMA WorkersUnseen ==
  ASSUME WInv, NEW x \in Worker, WorkerStep(x)
  PROVE  UNCHANGED Seen
<1>1. UNCHANGED <<loop, next, cur, stats, seen>>
  BY DEF WorkerStep, Receive, Compute, Store, Done, Exit, mainVars
<1>2. buf'[cur] = buf[cur] /\ (loop = "collect" => buf' = buf)
  <2>1. CASE Store(x)
    <3>1. loop = "send"
      BY <2>1, InsideStep DEF Store, Busy
    <3>2. cur \in {0, 1} /\ buf' = [buf EXCEPT ![1 - cur][pos[x]] = fresh[x].state]
      BY <2>1 DEF Store, WInv, TypeOK
    <3>3. buf'[cur] = buf[cur]
      BY <3>2 DEF WInv, TypeOK
    <3> QED
      BY <3>1, <3>3
  <2>2. CASE ~Store(x)
    BY <2>2 DEF WorkerStep, Receive, Compute, Done, Exit
  <2> QED
    BY <2>1, <2>2
<1> QED
  BY <1>1, <1>2 DEF Seen, Agents, Count

\* The serial world counts as this one does.
LEMMA SameCount == \A S : Serially!Cardinality(S) = Cardinality(S)
BY DEF Serially!Cardinality, Cardinality

\* Collecting the statistics ends the serial world's tick.
LEMMA CollectIsTick ==
  ASSUME WInv, CollectStats
  PROVE  Serially!TickSerial
<1>1. /\ loop = "collect" /\ loop' = "report"
      /\ UNCHANGED <<next, cur, buf, seen>>
      /\ stats' = [total     |-> stats.total + Cardinality(Agent),
                   uncovered |-> stats.uncovered
                        + Cardinality({i \in Agent : ~Covered(obs[i].state)})]
  BY DEF CollectStats
<1>2. /\ tick = next
      /\ \A i \in Agent : /\ obs[i] = [tick |-> tick, state |-> buf[cur][i]]
                           /\ buf[cur][i] = Advance(buf[1 - cur][i], next)
  BY <1>1 DEF WInv, Exchanged
<1>3. buf[cur] \in [Agent -> State]
  BY DEF WInv, TypeOK
<1>4. buf[cur] = [i \in Agent |-> Advance(buf[1 - cur][i], next)]
  BY <1>2, <1>3
<1>5. Serially!StepSerial
  BY <1>1, <1>4 DEF Serially!StepSerial
<1>6. {i \in Agent : ~Covered(obs[i].state)} = {i \in Agent : ~Covered(Agents'[i])}
  <2>1. Agents' = buf[cur]
    BY <1>1 DEF Agents
  <2>2. ASSUME NEW i \in Agent
        PROVE  obs[i].state = buf[cur][i]
    <3>1. obs[i] = [tick |-> tick, state |-> buf[cur][i]]
      BY <1>2
    <3> QED
      BY <3>1
  <2> QED
    BY <2>1, <2>2, Zenon
<1>7. Serially!CollectSerial
  <2>1. stats' = [total     |-> stats.total + Serially!Cardinality(Agent),
                  uncovered |-> stats.uncovered
                       + Serially!Cardinality({i \in Agent : ~Covered(Agents'[i])})]
    BY <1>1, <1>6, SameCount
  <2> QED
    BY <2>1 DEF Serially!CollectSerial, Agents
<1> QED
  BY <1>1, <1>5, <1>7 DEF Serially!TickSerial

LEMMA ReportIsReport ==
  ASSUME WInv, Report
  PROVE  Serially!ReportSerial
<1>1. /\ loop = "report" /\ loop' = "ready" /\ seen' = obs /\ next' = next + 1
      /\ UNCHANGED <<cur, buf, stats>>
  BY DEF Report
<1>2. /\ \A i \in Agent : obs[i] = [tick |-> next, state |-> buf[cur][i]]
      /\ obs \in [Agent -> Observation] /\ next \in Int
  BY <1>1 DEF WInv, Exchanged, TypeOK
<1>3. obs = [i \in Agent |-> [tick |-> (next + 1) - 1, state |-> buf[cur][i]]]
  BY <1>2
<1> QED
  BY <1>1, <1>3 DEF Serially!ReportSerial

LEMMA SerialStep ==
  ASSUME WInv, [Next]_vars
  PROVE  [Serially!TickSerial \/ Serially!ReportSerial]_Seen
<1>1. CASE CollectStats
  BY <1>1, CollectIsTick
<1>2. CASE Report
  BY <1>2, ReportIsReport
<1>3. CASE BeginTick \/ SendRange \/ Return \/ Abort
  BY <1>3 DEF BeginTick, SendRange, Return, Abort, Seen, Agents, Count
<1>4. CASE Swap
  <2>1. cur \in {0, 1} /\ 1 - (1 - cur) = cur
    BY DEF WInv, TypeOK
  <2> QED
    BY <1>4, <2>1 DEF Swap, Seen, Agents, Count
<1>5. CASE \E x \in Worker : WorkerStep(x)
  BY <1>5, WorkersUnseen
<1>6. CASE UNCHANGED vars
  BY <1>6 DEF vars, mainVars, Seen, Agents, Count
<1> QED
  BY <1>1, <1>2, <1>3, <1>4, <1>5, <1>6 DEF Next, MainStep, Rest

\* Determinism (K10): the pool computes what one goroutine would, for every
\* population, pool size, number of ticks and schedule.
THEOREM WorldIsSerial == Spec => IsSerial
<1>1. Init => Serially!SerialInit
  BY DEF Init, Serially!SerialInit, Blank
<1>2. WInv /\ [Next]_vars => [Serially!TickSerial \/ Serially!ReportSerial]_Seen
  BY SerialStep
<1> QED
  BY <1>1, <1>2, WorldInvariant, PTL
     DEF Spec, IsSerial, Serially!Serial, Serially!svars, Seen, Agents, Count

=============================================================================
