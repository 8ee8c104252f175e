-------------------------- MODULE SimulatorRunProofs --------------------------
(***************************************************************************)
(* Proofs about a run of the simulator, for every set of scenario files,   *)
(* every batch size and any number of processes, failures and interrupts.  *)
(*                                                                         *)
(* The argument. The transaction for the run lets one process past it, and *)
(* only while nothing is announced; so one process produces, and what the  *)
(* topics hold is what this process has taken from the sequence of its     *)
(* pairs and no longer has in its batch. At the end nothing is left of     *)
(* either. A process that stops before leaves no mark.                     *)
(*                                                                         *)
(* The pairs. A run's events are the ticks of its population, and a tick   *)
(* is in an event's key; so a run has no event twice, and every pair is    *)
(* labelled as it was made (EventsOfRun, from EventPairProofs). A consumer *)
(* that finds the record, the truth and the cells of a run therefore sees  *)
(* what the label says (LabelsAreTrue), where a jump shows in its ring.    *)
(***************************************************************************)
EXTENDS SimulatorRun, EventPairProofs

Storing == {"cells", "sites", "setup"}
Producing == {"tick", "events", "flush", "complete"}

PairsOf(f) == AllPairs(Pairs[f])

-----------------------------------------------------------------------------
(* The parts of the invariant that the steps of the process decide.        *)

\* Who may be where: the file of the process and the file of the run.
FilesAgree ==
  /\ pc # "off" => file \in File /\ starts \in 1..Starts
  /\ pc \in {"database"} \cup Storing \cup Producing => Inventory[file] # None
  /\ pc \in Storing \cup Producing => dbFile = file
  /\ dbFile # None => Inventory[dbFile] # None

\* The run is announced once its inventory is stored, and nothing is out before.
OneRun ==
  /\ announced => dbFile # None /\ Ready(dbFile)
  /\ ~announced => truthTopic = {} /\ recordTopic = {} /\ producers = {} /\ finished = None
  /\ pc \in Storing => ~announced
  /\ pc \in Producing => announced

\* A process at work is the only one that ever produced.
OneProducer ==
  /\ pc \in Producing => finished = None /\ producers \subseteq {starts}
  /\ \E k \in 1..Starts + 1 : producers \subseteq {k}
  /\ truthTopic \cup recordTopic # {} => producers # {}

\* From the announcement on the cache has all cells or none.
CacheWhole ==
  /\ pc \in {"sites", "setup"} \/ announced => cacheCells \in {0, Len(CellsOf(dbFile))}
  /\ held # None => announced /\ held = CellIds(Inventory[dbFile])

\* The batch is not full where a pair is added to it, and empty at the start.
BatchRoom ==
  /\ pc \in {"config", "connect", "build", "database"} \cup Storing =>
       tick = 0 /\ batch = <<>> /\ todo = <<>> /\ stats = NoStats
  /\ pc \in {"tick", "events"} => Len(batch) < BatchPairs
  /\ pc \in Producing => batch \in Seq(PairsOf(file)) /\ todo \in Seq(PairsOf(file))

Control == TypeOK /\ FilesAgree /\ OneRun /\ OneProducer /\ CacheWhole /\ BatchRoom

-----------------------------------------------------------------------------
LEMMA Nothing == Len(<<>>) = 0 /\ \A S : <<>> \in Seq(S)
OBVIOUS

\* What is loaded has passed its checks.
LEMMA ConfigValid ==
  ASSUME NEW f \in File, Config[f] # None
  PROVE  /\ ScenarioValid(Config[f]) /\ Typed(Config[f])
         /\ NetworkTyped(Config[f]) /\ EventsTyped(Config[f])
         /\ Config[f].simulation.agents \in Nat /\ Ticks(Config[f]) \in Nat
<1> DEFINE scn == Config[f]
<1>1. ScenarioValid(scn)
  BY DEF Config, Load
<1>2. Typed(scn)
  BY ValuesAssumption
<1> HIDE DEF scn
<1>3. /\ scn.simulation.agents \in Int /\ scn.simulation.durationDays \in Int
      /\ scn.simulation.tickMinutes \in Int /\ scn.profile.areaRadiusKM \in Int
      /\ scn.network.sitesMin \in Int /\ scn.network.sitesMax \in Int
      /\ scn.timingAdvance.enabled \in BOOLEAN
  BY <1>2 DEF Typed
<1>4. /\ scn.simulation.agents > 0 /\ scn.simulation.durationDays > 0 /\ scn.simulation.tickMinutes > 0
      /\ scn.network.sitesMin > 0 /\ scn.network.sitesMax >= scn.network.sitesMin
      /\ scn.run.scenario \in {"A", "B", "C", "D"}
      /\ scn.timingAdvance.enabled => scn.timingAdvance.technology \in {"LTE", "GSM"}
      /\ RuleWeightsValid(scn.integrity.ruleWeights)
  BY <1>1 DEF ScenarioValid
<1>5. scn.profile.areaRadiusKM > 0
  BY <1>1 DEF ScenarioValid, ProfileValid
<1>6. NetworkTyped(scn)
  BY <1>3, <1>4, <1>5 DEF NetworkTyped
<1>7. EventsTyped(scn)
  BY <1>3, <1>4 DEF EventsTyped
<1>8. Ticks(scn) \in Nat
  <2> DEFINE days == scn.simulation.durationDays
             minutes == scn.simulation.tickMinutes
  <2>1. days \in Nat /\ minutes \in Nat \ {0}
    BY <1>3, <1>4
  <2> HIDE DEF days, minutes
  <2>2. 1440 \div minutes \in Nat
    BY <2>1
  <2>3. days * (1440 \div minutes) \in Nat
    BY <2>1, <2>2
  <2> QED
    BY <2>3 DEF Ticks, MinutesPerDay, days, minutes
<1>9. scn.simulation.agents \in Nat
  BY <1>3, <1>4
<1> QED
  BY <1>1, <1>2, <1>6, <1>7, <1>8, <1>9 DEF scn

LEMMA InventoryPlaced ==
  ASSUME NEW f \in File, Inventory[f] # None
  PROVE  /\ Config[f] # None /\ Inventory[f] = Build(Config[f])
         /\ CellsPlaced(Inventory[f], ISD(Config[f]))
<1>1. Config[f] # None /\ Inventory[f] = Build(Config[f])
  BY DEF Inventory
<1>2. NetworkTyped(Config[f])
  BY <1>1, ConfigValid
<1> QED
  BY <1>1, <1>2, InventoryFitsScenario DEF CellsPlaced

LEMMA CellsType ==
  ASSUME NEW f \in File, Inventory[f] # None
  PROVE  Len(CellsOf(f)) \in Nat /\ Len(CellsOf(f)) - 1 \in Nat
         /\ DOMAIN CellsOf(f) = 1..Len(CellsOf(f))
<1>1. PICK C : CellsOf(f) \in Seq(C) /\ CellsOf(f) # <<>>
  BY InventoryPlaced DEF CellsOf, CellsPlaced
<1> HIDE DEF CellsOf
<1> QED
  BY <1>1

\* A tick of a run that is ready is one that the event pairs are made for.
LEMMA TicksSound ==
  ASSUME NEW f \in File, Ready(f)
  PROVE  /\ Ticks(Config[f]) \in Nat /\ DOMAIN Pairs[f] = 0..Ticks(Config[f]) - 1
         /\ \A t \in 0..Ticks(Config[f]) - 1 :
              /\ TickSound(Inventory[f], ISD(Config[f]), Config[f], Population[f], t)
              /\ Pairs[f][t] = PairsOfTick(Inventory[f], Config[f], Population[f], t)
<1> DEFINE scn == Config[f]
           inv == Inventory[f]
           agents == Population[f]
<1>1. inv # None /\ agents # None
  BY DEF Ready
<1>2. scn # None /\ CellsPlaced(inv, ISD(scn))
  BY <1>1, InventoryPlaced
<1>3. EventsTyped(scn) /\ scn.simulation.agents \in Nat /\ Ticks(scn) \in Nat
  BY <1>2, ConfigValid
<1>4. agents = PlaceAgents(inv, scn)
  BY <1>1 DEF Population
<1>5. \A a \in 0..scn.simulation.agents - 1 : agents[a].id = a
  BY <1>1, <1>4, AgentsNumbered
<1>6. Pairs[f] = [t \in 0..Ticks(scn) - 1 |-> PairsOfTick(inv, scn, agents, t)]
  BY DEF Pairs
<1>7. ASSUME NEW t \in 0..Ticks(scn) - 1
      PROVE  TickSound(inv, ISD(scn), scn, agents, t)
  <2>1. t \in Nat
    BY <1>3
  <2>2. ASSUME NEW a \in 0..scn.simulation.agents - 1
        PROVE  /\ \A k \in DOMAIN inv.cells :
                    RxDBm(inv.cells[k], PositionAt(agents[a], scn.simulation.tickMinutes, t)) \in Int
               /\ \A purpose \in {"type", "swap"}, seq \in 0..MaxEventsPerTick - 1 :
                    Draw(purpose, a, Slot(t, seq)) \in 0..Mille - 1
    BY ValuesAssumption
  <2>3. None \notin Message
    BY ValuesAssumption
  <2> QED
    BY <1>2, <1>3, <1>5, <2>1, <2>2, <2>3 DEF TickSound
<1> QED
  BY <1>3, <1>6, <1>7

LEMMA PairsType ==
  ASSUME NEW f \in File, Ready(f)
  PROVE  /\ Ticks(Config[f]) \in Nat
         /\ DOMAIN Pairs[f] = 0..Ticks(Config[f]) - 1
         /\ \A t \in 0..Ticks(Config[f]) - 1 : Pairs[f][t] \in Seq(PairsOf(f))
<1>1. ASSUME NEW t \in 0..Ticks(Config[f]) - 1
      PROVE  Pairs[f][t] \in Seq(PairsOf(f))
  <2> DEFINE s == Pairs[f][t]
  <2>1. s \in Seq(Range(s))
    BY TicksSound, TickEvents
  <2>2. Range(s) \subseteq PairsOf(f)
    BY TicksSound DEF PairsOf, AllPairs
  <2> HIDE DEF s
  <2>3. s \in Seq(PairsOf(f))
    BY <2>1, <2>2
  <2> QED
    BY <2>3 DEF s
<1> QED
  BY <1>1, TicksSound

\* What the events of a run are, whatever its file: every record is there
\* unless its event is outside coverage or deleted, every label tells what was
\* done, and no event is there twice (Generator.Generate, Injector.Inject).
THEOREM EventsOfRun ==
  ASSUME NEW f \in File, Ready(f)
  PROVE  /\ \A p \in PairsOf(f) : PairWhole(p) /\ PairLabelled(Inventory[f], Config[f], p)
         /\ \A t, u \in DOMAIN Pairs[f] : \A i \in DOMAIN Pairs[f][t], k \in DOMAIN Pairs[f][u] :
              Pairs[f][t][i].truth.event = Pairs[f][u][k].truth.event => t = u /\ i = k
<1>1. ASSUME NEW t \in DOMAIN Pairs[f], NEW i \in DOMAIN Pairs[f][t]
      PROVE  /\ PairWhole(Pairs[f][t][i]) /\ PairLabelled(Inventory[f], Config[f], Pairs[f][t][i])
             /\ \E a, j \in Nat : Pairs[f][t][i].truth.event = EventId(a, t, j)
  <2> DEFINE inv == Inventory[f]
             scn == Config[f]
             agents == Population[f]
  <2>1. /\ t \in 0..Ticks(scn) - 1
        /\ TickSound(inv, ISD(scn), scn, agents, t) /\ Pairs[f][t] = PairsOfTick(inv, scn, agents, t)
    BY TicksSound
  <2>2. i \in DOMAIN PairsOfTick(inv, scn, agents, t)
    BY <2>1
  <2> HIDE DEF inv, scn, agents
  <2>3. LET p == PairsOfTick(inv, scn, agents, t)[i]
        IN  PairWhole(p) /\ PairLabelled(inv, scn, p) /\ \E a, j \in Nat : p.truth.event = EventId(a, t, j)
    BY <2>1, <2>2, TickEvents
  <2> QED
    BY <2>1, <2>3 DEF inv, scn
<1>2. ASSUME NEW t \in DOMAIN Pairs[f], NEW i \in DOMAIN Pairs[f][t], NEW k \in DOMAIN Pairs[f][t],
             Pairs[f][t][i].truth.event = Pairs[f][t][k].truth.event
      PROVE  i = k
  BY <1>2, TicksSound, TickEvents
<1>3. ASSUME NEW t \in DOMAIN Pairs[f], NEW u \in DOMAIN Pairs[f],
             NEW i \in DOMAIN Pairs[f][t], NEW k \in DOMAIN Pairs[f][u],
             Pairs[f][t][i].truth.event = Pairs[f][u][k].truth.event
      PROVE  t = u
  <2>1. PICK a, j \in Nat : Pairs[f][t][i].truth.event = EventId(a, t, j)
    BY <1>1
  <2>2. PICK b, l \in Nat : Pairs[f][u][k].truth.event = EventId(b, u, l)
    BY <1>1
  <2>3. <<a, t, j>> = <<b, u, l>>
    BY <1>3, <2>1, <2>2 DEF EventId
  <2> QED
    BY <2>3
<1>4. ASSUME NEW p \in PairsOf(f)
      PROVE  \E t \in DOMAIN Pairs[f] : \E i \in DOMAIN Pairs[f][t] : p = Pairs[f][t][i]
  BY DEF PairsOf, AllPairs, Range
<1>5. ASSUME NEW p \in PairsOf(f)
      PROVE  PairWhole(p) /\ PairLabelled(Inventory[f], Config[f], p)
  BY <1>1, <1>4
<1> QED
  BY <1>2, <1>3, <1>5

LEMMA PairsWhole ==
  ASSUME NEW f \in File, Ready(f)
  PROVE  \A p \in PairsOf(f) :
           /\ p.record = None <=> ~p.truth.covered \/ p.truth.injectedRule = Gap
           /\ p.truth.injectedRule = Gap => p.truth.covered
           /\ p.record # None =>
                /\ p.record.event = p.truth.event
                /\ p.record.cell \in CellIds(Inventory[f]) \/ p.truth.injectedRule = FakeCell
<1> SUFFICES ASSUME NEW p \in PairsOf(f)
             PROVE  /\ p.record = None <=> ~p.truth.covered \/ p.truth.injectedRule = Gap
                    /\ p.truth.injectedRule = Gap => p.truth.covered
                    /\ p.record # None =>
                         /\ p.record.event = p.truth.event
                         /\ p.record.cell \in CellIds(Inventory[f]) \/ p.truth.injectedRule = FakeCell
  OBVIOUS
<1>1. PairWhole(p) /\ PairLabelled(Inventory[f], Config[f], p)
  BY EventsOfRun
<1>2. p.record # None /\ p.record.cell \notin CellIds(Inventory[f]) => p.truth.injectedRule = FakeCell
  BY <1>1 DEF PairLabelled
<1> QED
  BY <1>1, <1>2 DEF PairWhole

\* The records of a sequence of pairs are finitely many.
LEMMA RecordsFinite ==
  ASSUME NEW S, NEW pairs \in Seq(S)
  PROVE  IsFiniteSet(Records(pairs)) /\ Cardinality(Records(pairs)) \in Nat
<1> DEFINE D == {k \in DOMAIN pairs : pairs[k].record # None}
           g == [k \in D |-> pairs[k].record]
<1>1. IsFiniteSet(D)
  <2>1. IsFiniteSet(1..Len(pairs))
    BY FS_Interval
  <2>2. D \in SUBSET (1..Len(pairs))
    OBVIOUS
  <2> QED
    BY <2>1, <2>2, FS_Subset
<1>2. g \in Surjection(D, Records(pairs))
  <2>1. g \in [D -> Records(pairs)]
    BY DEF Records
  <2>2. \A r \in Records(pairs) : \E k \in D : g[k] = r
    BY DEF Records
  <2> QED
    BY <2>1, <2>2 DEF Surjection
<1>3. IsFiniteSet(Records(pairs))
  BY <1>1, <1>2, FS_Surjection
<1> QED
  BY <1>3, FS_CardinalityType

-----------------------------------------------------------------------------
LEMMA InitControl == Init => Control
<1> SUFFICES ASSUME Init PROVE Control
  OBVIOUS
<1>1. TypeOK
  <2>1. Len(batch) <= BatchPairs
    BY SimulatorAssumption, Nothing DEF Init
  <2>2. stats \in [records : Nat, truths : Nat]
    BY DEF Init, NoStats
  <2>3. /\ pc = "off" /\ producers = {}
        /\ starts \in 0..Starts /\ faults \in 0..Faults /\ signals \in 0..Signals
    BY SimulatorAssumption DEF Init
  <2> QED
    BY <2>1, <2>2, <2>3 DEF Init, TypeOK
<1>2. FilesAgree /\ OneRun /\ CacheWhole
  BY DEF Init, FilesAgree, OneRun, CacheWhole, Storing, Producing
<1>3. OneProducer /\ BatchRoom
  BY SimulatorAssumption DEF Init, OneProducer, BatchRoom, Storing, Producing
<1> QED
  BY <1>1, <1>2, <1>3 DEF Control

\* A call that fails or works moves the environment within its types.
LEMMA EnvironmentTypes ==
  ASSUME TypeOK, Fails \/ Works
  PROVE  /\ starts' = starts /\ starts' \in 0..Starts /\ faults' \in 0..Faults
         /\ signals' \in 0..Signals /\ cancelled' \in BOOLEAN
BY SimulatorAssumption DEF Fails, Works, TypeOK, environment

\* Before the topics: from the start of a process to its announcement.
LEMMA StoringControl ==
  ASSUME Control,
         ReadConfig \/ Connect \/ BuildInventory \/ InsertRunWithCells \/ InsertFails
         \/ BulkLoadCells \/ BulkLoadSites \/ Setup \/ LoadSomeCells
  PROVE  Control'
<1> USE SimulatorAssumption DEF Control
<1>1. CASE ReadConfig
  <2> USE DEF ReadConfig, Goto, Stop, environment, storage, topics, readers, Storing, Producing
  <2>1. TypeOK'
    BY <1>1 DEF TypeOK
  <2>2. FilesAgree'
    BY <1>1 DEF TypeOK, FilesAgree
  <2>3. OneRun'
    BY <1>1 DEF FilesAgree, OneRun
  <2>4. OneProducer'
    BY <1>1 DEF TypeOK, FilesAgree, OneRun, OneProducer
  <2>5. CacheWhole'
    BY <1>1 DEF FilesAgree, OneRun, CacheWhole
  <2>6. BatchRoom'
    BY <1>1 DEF TypeOK, BatchRoom
  <2> QED
    BY <2>1, <2>2, <2>3, <2>4, <2>5, <2>6
<1>2. CASE Connect
  <2> USE DEF Connect, Goto, Stop, storage, topics, readers, Storing, Producing
  <2>1. TypeOK'
    BY <1>2, EnvironmentTypes DEF TypeOK
  <2>2. FilesAgree'
    BY <1>2, EnvironmentTypes DEF TypeOK, FilesAgree
  <2>3. OneRun'
    BY <1>2, EnvironmentTypes DEF FilesAgree, OneRun
  <2>4. OneProducer'
    BY <1>2, EnvironmentTypes DEF TypeOK, FilesAgree, OneRun, OneProducer
  <2>5. CacheWhole'
    BY <1>2, EnvironmentTypes DEF FilesAgree, OneRun, CacheWhole
  <2>6. BatchRoom'
    BY <1>2, EnvironmentTypes DEF TypeOK, BatchRoom
  <2> QED
    BY <2>1, <2>2, <2>3, <2>4, <2>5, <2>6
<1>3. CASE BuildInventory
  <2> USE DEF BuildInventory, Goto, Stop, environment, storage, topics, readers, Storing, Producing
  <2>1. TypeOK'
    BY <1>3 DEF TypeOK
  <2>2. FilesAgree'
    BY <1>3 DEF TypeOK, FilesAgree
  <2>3. OneRun'
    BY <1>3 DEF FilesAgree, OneRun
  <2>4. OneProducer'
    BY <1>3 DEF TypeOK, FilesAgree, OneRun, OneProducer
  <2>5. CacheWhole'
    BY <1>3 DEF FilesAgree, OneRun, CacheWhole
  <2>6. BatchRoom'
    BY <1>3 DEF TypeOK, BatchRoom
  <2> QED
    BY <2>1, <2>2, <2>3, <2>4, <2>5, <2>6
<1>4. CASE InsertRunWithCells
  <2> USE DEF InsertRunWithCells, Goto, Stop, topics, readers, Storing, Producing
  <2>1. TypeOK'
    BY <1>4, EnvironmentTypes DEF TypeOK
  <2>2. FilesAgree'
    BY <1>4, EnvironmentTypes DEF TypeOK, FilesAgree
  <2>3. OneRun'
    BY <1>4, EnvironmentTypes DEF FilesAgree, OneRun
  <2>4. OneProducer'
    BY <1>4, EnvironmentTypes DEF TypeOK, FilesAgree, OneRun, OneProducer
  <2>5. CacheWhole'
    BY <1>4, EnvironmentTypes DEF FilesAgree, OneRun, CacheWhole
  <2>6. BatchRoom'
    BY <1>4, EnvironmentTypes DEF TypeOK, BatchRoom
  <2> QED
    BY <2>1, <2>2, <2>3, <2>4, <2>5, <2>6
<1>5. CASE InsertFails
  <2> USE DEF InsertFails, Stop, topics, readers, Storing, Producing
  <2>1. TypeOK'
    BY <1>5, EnvironmentTypes DEF TypeOK
  <2>2. FilesAgree'
    BY <1>5, EnvironmentTypes DEF TypeOK, FilesAgree
  <2>3. OneRun'
    BY <1>5, EnvironmentTypes DEF FilesAgree, OneRun
  <2>4. OneProducer'
    BY <1>5, EnvironmentTypes DEF TypeOK, FilesAgree, OneRun, OneProducer
  <2>5. CacheWhole'
    BY <1>5, EnvironmentTypes DEF FilesAgree, OneRun, CacheWhole
  <2>6. BatchRoom'
    BY <1>5, EnvironmentTypes DEF TypeOK, BatchRoom
  <2> QED
    BY <2>1, <2>2, <2>3, <2>4, <2>5, <2>6
<1>6. CASE BulkLoadCells
  <2> USE DEF BulkLoadCells, Goto, Stop, topics, readers, Storing, Producing
  <2>1. file \in File /\ Inventory[file] # None
    BY <1>6 DEF TypeOK, FilesAgree
  <2>2. Len(CellsOf(file)) \in Nat /\ Len(CellsOf(file)) - 1 \in Nat
    BY <2>1, CellsType
  <2>3. TypeOK'
    BY <1>6, EnvironmentTypes, <2>2 DEF TypeOK
  <2>4. FilesAgree'
    BY <1>6, EnvironmentTypes DEF TypeOK, FilesAgree
  <2>5. OneRun'
    BY <1>6, EnvironmentTypes DEF FilesAgree, OneRun
  <2>6. OneProducer'
    BY <1>6, EnvironmentTypes DEF TypeOK, FilesAgree, OneRun, OneProducer
  <2>7. CacheWhole'
    BY <1>6, EnvironmentTypes DEF FilesAgree, OneRun, CacheWhole
  <2>8. BatchRoom'
    BY <1>6, EnvironmentTypes DEF TypeOK, BatchRoom
  <2> QED
    BY <2>3, <2>4, <2>5, <2>6, <2>7, <2>8
<1>7. CASE BulkLoadSites
  <2> USE DEF BulkLoadSites, Goto, Stop, topics, readers, Storing, Producing
  <2>1. TypeOK'
    BY <1>7, EnvironmentTypes DEF TypeOK
  <2>2. FilesAgree'
    BY <1>7, EnvironmentTypes DEF TypeOK, FilesAgree
  <2>3. OneRun'
    BY <1>7, EnvironmentTypes DEF FilesAgree, OneRun
  <2>4. OneProducer'
    BY <1>7, EnvironmentTypes DEF TypeOK, FilesAgree, OneRun, OneProducer
  <2>5. CacheWhole'
    BY <1>7, EnvironmentTypes DEF FilesAgree, OneRun, CacheWhole
  <2>6. BatchRoom'
    BY <1>7, EnvironmentTypes DEF TypeOK, BatchRoom
  <2> QED
    BY <2>1, <2>2, <2>3, <2>4, <2>5, <2>6
<1>8. CASE Setup
  <2> USE DEF Goto, Stop, environment, storage, topics, readers, Storing, Producing
  <2>1. TypeOK'
    BY <1>8 DEF Setup, TypeOK
  <2>2. FilesAgree' /\ OneRun' /\ CacheWhole'
    BY <1>8 DEF Setup, FilesAgree, OneRun, CacheWhole
  <2>3. OneProducer'
    BY <1>8 DEF Setup, OneRun, OneProducer
  <2>4. batch = <<>> /\ todo = <<>>
    BY <1>8 DEF Setup, BatchRoom
  <2>5. batch' \in Seq(PairsOf(file')) /\ todo' \in Seq(PairsOf(file')) /\ Len(batch') < BatchPairs
    <3>1. batch' = <<>> /\ todo' = <<>>
      BY <1>8, <2>4 DEF Setup
    <3> HIDE DEF Control
    <3>2. Len(batch') = 0 /\ \A S : batch' \in Seq(S) /\ todo' \in Seq(S)
      BY <3>1, Nothing
    <3> QED
      BY <3>2
  <2>6. BatchRoom'
    BY <1>8, <2>5 DEF Setup, BatchRoom
  <2> QED
    BY <2>1, <2>2, <2>3, <2>6
<1>9. CASE LoadSomeCells
  <2> USE DEF LoadSomeCells, process, environment, topics, readers, Storing, Producing
  <2>1. file \in File /\ Inventory[file] # None
    BY <1>9 DEF TypeOK, FilesAgree
  <2>2. Len(CellsOf(file)) \in Nat /\ Len(CellsOf(file)) - 1 \in Nat
    BY <2>1, CellsType
  <2>3. TypeOK'
    BY <1>9, <2>2 DEF TypeOK
  <2>4. FilesAgree'
    BY <1>9 DEF TypeOK, FilesAgree
  <2>5. OneRun'
    BY <1>9 DEF FilesAgree, OneRun
  <2>6. OneProducer'
    BY <1>9 DEF TypeOK, FilesAgree, OneRun, OneProducer
  <2>7. CacheWhole'
    BY <1>9 DEF FilesAgree, OneRun, CacheWhole
  <2>8. BatchRoom'
    BY <1>9 DEF TypeOK, BatchRoom
  <2> QED
    BY <2>3, <2>4, <2>5, <2>6, <2>7, <2>8
<1> QED
  BY <1>1, <1>2, <1>3, <1>4, <1>5, <1>6, <1>7, <1>8, <1>9

\* A tick begins: its pairs are what is to be done.
LEMMA TickPairs ==
  ASSUME Control, pc = "tick", tick < Ticks(Config[file])
  PROVE  Pairs[file][tick] \in Seq(PairsOf(file)) /\ tick + 1 \in Nat
<1>1. file \in File /\ Ready(file) /\ tick \in Nat
  BY DEF Control, TypeOK, FilesAgree, OneRun, Producing
<1> QED
  BY <1>1, PairsType

\* From the first tick to the mark, or to a death on the way.
LEMMA ProducingControl ==
  ASSUME Control,
         BeginTick \/ Emit \/ EndTick \/ EndRun \/ Flush \/ FlushFails
         \/ CompleteRun \/ CompleteFails
  PROVE  Control'
<1> USE SimulatorAssumption DEF Control
<1>1. CASE BeginTick
  <2> USE DEF BeginTick, Stop, environment, storage, topics, readers, Storing, Producing
  <2>1. TypeOK'
    BY <1>1, TickPairs DEF TypeOK
  <2>2. FilesAgree'
    BY <1>1, TickPairs DEF TypeOK, FilesAgree
  <2>3. OneRun'
    BY <1>1, TickPairs DEF FilesAgree, OneRun
  <2>4. OneProducer'
    BY <1>1, TickPairs DEF TypeOK, FilesAgree, OneRun, OneProducer
  <2>5. CacheWhole'
    BY <1>1, TickPairs DEF FilesAgree, OneRun, CacheWhole
  <2>6. BatchRoom'
    BY <1>1, TickPairs DEF TypeOK, BatchRoom
  <2> QED
    BY <2>1, <2>2, <2>3, <2>4, <2>5, <2>6
<1>2. CASE Emit
  <2>1. /\ batch \in Seq(PairsOf(file)) /\ todo \in Seq(PairsOf(file))
        /\ Len(batch) < BatchPairs /\ tick \in Nat
    BY <1>2 DEF Emit, BatchRoom, TypeOK, Producing
  <2>2. /\ batch' \in Seq(PairsOf(file)) /\ todo' \in Seq(PairsOf(file))
        /\ Len(batch') = Len(batch) + 1
    BY <1>2, <2>1 DEF Emit
  <2>3. TypeOK'
    BY <1>2, <2>1 DEF Emit, environment, storage, topics, TypeOK
  <2>4. FilesAgree'
    BY <1>2 DEF Emit, environment, storage, Producing, FilesAgree
  <2>5. OneRun'
    BY <1>2 DEF Emit, storage, Storing, Producing, OneRun
  <2>6. OneProducer'
    BY <1>2 DEF Emit, environment, storage, topics, Producing, OneProducer
  <2>7. CacheWhole'
    BY <1>2 DEF Emit, storage, readers, CacheWhole
  <2>8. BatchRoom'
    BY <1>2, <2>2 DEF Emit, Storing, BatchRoom
  <2> QED
    BY <2>3, <2>4, <2>5, <2>6, <2>7, <2>8
<1>3. CASE EndTick
  <2>1. TypeOK'
    BY <1>3 DEF EndTick, environment, storage, topics, TypeOK
  <2>2. FilesAgree'
    BY <1>3 DEF EndTick, environment, storage, Producing, FilesAgree
  <2>3. OneRun'
    BY <1>3 DEF EndTick, storage, Storing, Producing, OneRun
  <2>4. OneProducer'
    BY <1>3 DEF EndTick, environment, storage, topics, Producing, OneProducer
  <2>5. CacheWhole'
    BY <1>3 DEF EndTick, storage, readers, CacheWhole
  <2>6. BatchRoom'
    BY <1>3 DEF EndTick, Storing, Producing, BatchRoom
  <2> QED
    BY <2>1, <2>2, <2>3, <2>4, <2>5, <2>6
<1>4. CASE EndRun
  <2> USE DEF EndRun, Goto, environment, storage, topics, readers, Storing, Producing
  <2>1. TypeOK'
    BY <1>4 DEF TypeOK
  <2>2. FilesAgree'
    BY <1>4 DEF TypeOK, FilesAgree
  <2>3. OneRun'
    BY <1>4 DEF FilesAgree, OneRun
  <2>4. OneProducer'
    BY <1>4 DEF TypeOK, FilesAgree, OneRun, OneProducer
  <2>5. CacheWhole'
    BY <1>4 DEF FilesAgree, OneRun, CacheWhole
  <2>6. BatchRoom'
    BY <1>4 DEF TypeOK, BatchRoom
  <2> QED
    BY <2>1, <2>2, <2>3, <2>4, <2>5, <2>6
<1>5. CASE Flush
  <2>1. batch \in Seq(PairsOf(file)) /\ todo \in Seq(PairsOf(file))
    BY <1>5 DEF Flush, BatchRoom, Producing
  <2>2. Cardinality(Records(batch)) \in Nat /\ Len(batch) \in Nat
    BY <2>1, RecordsFinite
  <2>3. batch' = <<>> /\ Len(batch') = 0 /\ batch' \in Seq(PairsOf(file))
    BY <1>5, Nothing DEF Flush
  <2>4. stats' \in [records : Nat, truths : Nat]
    BY <1>5, <2>2 DEF Flush, TypeOK
  <2>5. /\ producers' \subseteq {starts} /\ producers' # {} /\ starts' = starts
        /\ starts \in 1..Starts /\ starts \in 1..Starts + 1
    BY <1>5, EnvironmentTypes DEF Flush, OneProducer, Producing, FilesAgree, TypeOK
  <2>6. TypeOK'
    <3>1. /\ pc' \in {"off", "config", "connect", "build", "database", "cells", "sites", "setup", "tick",
                     "events", "flush", "complete"}
          /\ file' \in File \cup {None} /\ dbFile' \in File \cup {None}
      BY <1>5 DEF Flush, storage, TypeOK
    <3>2. starts' \in 0..Starts /\ faults' \in 0..Faults /\ signals' \in 0..Signals
      BY <1>5, EnvironmentTypes DEF Flush
    <3>3. cancelled' \in BOOLEAN /\ announced' \in BOOLEAN /\ cacheSites' \in BOOLEAN
      BY <1>5, EnvironmentTypes DEF Flush, storage, TypeOK
    <3>4. /\ Len(batch') <= BatchPairs /\ tick' \in Nat /\ cacheCells' \in Nat
          /\ stats' \in [records : Nat, truths : Nat]
      BY <1>5, <2>4 DEF Flush, storage, TypeOK
    <3>5. finished' \in Nat \cup {None} /\ producers' \subseteq 1..Starts
      BY <1>5, <2>5 DEF Flush, storage, TypeOK
    <3> QED
      BY <3>1, <3>2, <3>3, <3>4, <3>5 DEF TypeOK
  <2>7. FilesAgree'
    BY <1>5, <2>5 DEF Flush, storage, Producing, FilesAgree
  <2>8. OneRun'
    BY <1>5 DEF Flush, storage, Storing, Producing, OneRun
  <2>9. OneProducer'
    BY <1>5, <2>5 DEF Flush, storage, Producing, OneProducer
  <2>10. CacheWhole'
    BY <1>5 DEF Flush, storage, readers, CacheWhole
  <2>11. BatchRoom'
    BY <1>5, <2>1 DEF Flush, Storing, BatchRoom
  <2> QED
    BY <2>6, <2>7, <2>8, <2>9, <2>10, <2>11
<1>6. CASE FlushFails
  <2>1. /\ producers' \subseteq {starts} /\ starts' = starts
        /\ starts \in 1..Starts /\ starts \in 1..Starts + 1
    BY <1>6, EnvironmentTypes DEF FlushFails, OneProducer, Producing, FilesAgree, TypeOK
  <2>2. truthTopic' \cup recordTopic' # {} => producers' # {}
    BY <1>6 DEF FlushFails, OneProducer
  <2>3. TypeOK'
    <3>1. /\ pc' \in {"off", "config", "connect", "build", "database", "cells", "sites", "setup", "tick",
                     "events", "flush", "complete"}
          /\ file' \in File \cup {None} /\ dbFile' \in File \cup {None}
      BY <1>6 DEF FlushFails, Stop, storage, TypeOK
    <3>2. starts' \in 0..Starts /\ faults' \in 0..Faults /\ signals' \in 0..Signals
      BY <1>6, EnvironmentTypes DEF FlushFails
    <3>3. cancelled' \in BOOLEAN /\ announced' \in BOOLEAN /\ cacheSites' \in BOOLEAN
      BY <1>6, EnvironmentTypes DEF FlushFails, storage, TypeOK
    <3>4. /\ Len(batch') <= BatchPairs /\ tick' \in Nat /\ cacheCells' \in Nat
          /\ stats' \in [records : Nat, truths : Nat]
      BY <1>6 DEF FlushFails, Stop, storage, TypeOK
    <3>5. finished' \in Nat \cup {None} /\ producers' \subseteq 1..Starts
      BY <1>6, <2>1 DEF FlushFails, storage, TypeOK
    <3> QED
      BY <3>1, <3>2, <3>3, <3>4, <3>5 DEF TypeOK
  <2>4. FilesAgree'
    BY <1>6 DEF FlushFails, Stop, storage, Producing, FilesAgree
  <2>5. OneRun'
    BY <1>6 DEF FlushFails, Stop, storage, Storing, Producing, OneRun
  <2>6. OneProducer'
    BY <1>6, <2>1 DEF FlushFails, storage, Producing, OneProducer
  <2>7. CacheWhole'
    BY <1>6 DEF FlushFails, storage, readers, Producing, CacheWhole, OneRun
  <2>8. BatchRoom'
    BY <1>6 DEF FlushFails, Stop, Storing, Producing, BatchRoom
  <2> QED
    BY <2>3, <2>4, <2>5, <2>6, <2>7, <2>8
<1>7. CASE CompleteRun
  <2> USE DEF CompleteRun, Stop, environment, topics, readers, Storing, Producing
  <2>1. TypeOK'
    BY <1>7 DEF TypeOK
  <2>2. FilesAgree'
    BY <1>7 DEF TypeOK, FilesAgree
  <2>3. OneRun'
    BY <1>7 DEF FilesAgree, OneRun
  <2>4. OneProducer'
    BY <1>7 DEF TypeOK, FilesAgree, OneRun, OneProducer
  <2>5. CacheWhole'
    BY <1>7 DEF FilesAgree, OneRun, CacheWhole
  <2>6. BatchRoom'
    BY <1>7 DEF TypeOK, BatchRoom
  <2> QED
    BY <2>1, <2>2, <2>3, <2>4, <2>5, <2>6
<1>8. CASE CompleteFails
  <2>1. TypeOK'
    BY <1>8 DEF CompleteFails, Stop, topics, TypeOK
  <2>2. FilesAgree'
    BY <1>8 DEF CompleteFails, Stop, Producing, FilesAgree
  <2>3. OneRun'
    BY <1>8 DEF CompleteFails, Stop, Storing, Producing, OneRun
  <2>4. OneProducer'
    BY <1>8 DEF CompleteFails, Stop, topics, Producing, OneProducer
  <2>5. CacheWhole'
    BY <1>8 DEF CompleteFails, readers, Producing, CacheWhole, OneRun
  <2>6. BatchRoom'
    BY <1>8 DEF CompleteFails, Stop, Storing, Producing, BatchRoom
  <2> QED
    BY <2>1, <2>2, <2>3, <2>4, <2>5, <2>6
<1> QED
  BY <1>1, <1>2, <1>3, <1>4, <1>5, <1>6, <1>7, <1>8

\* Starts, deaths, the cache and the readers.
LEMMA AroundControl ==
  ASSUME Control,
         (\E f \in File : Start(f)) \/ Interrupt \/ Crash \/ CacheRestarts
         \/ LoadInventory \/ Drain
  PROVE  Control'
<1> USE SimulatorAssumption DEF Control
<1>1. CASE \E f \in File : Start(f)
  <2>1. Len(batch') = 0 /\ stats' \in [records : Nat, truths : Nat]
    BY <1>1, Nothing DEF Start, NoStats
  <2>2. TypeOK'
    <3>1. /\ pc' \in {"off", "config", "connect", "build", "database", "cells", "sites", "setup", "tick",
                     "events", "flush", "complete"}
          /\ file' \in File \cup {None} /\ dbFile' \in File \cup {None}
      BY <1>1 DEF Start, storage, TypeOK
    <3>2. starts' \in 0..Starts /\ faults' \in 0..Faults /\ signals' \in 0..Signals
      BY <1>1 DEF Start, TypeOK
    <3>3. cancelled' \in BOOLEAN /\ announced' \in BOOLEAN /\ cacheSites' \in BOOLEAN
      BY <1>1 DEF Start, storage, TypeOK
    <3>4. /\ Len(batch') <= BatchPairs /\ tick' \in Nat /\ cacheCells' \in Nat
          /\ stats' \in [records : Nat, truths : Nat]
      BY <1>1, <2>1 DEF Start, storage, TypeOK
    <3>5. finished' \in Nat \cup {None} /\ producers' \subseteq 1..Starts
      BY <1>1 DEF Start, storage, topics, TypeOK
    <3> QED
      BY <3>1, <3>2, <3>3, <3>4, <3>5 DEF TypeOK
  <2>3. FilesAgree'
    BY <1>1 DEF Start, storage, Storing, Producing, FilesAgree, TypeOK
  <2>4. OneRun'
    BY <1>1 DEF Start, storage, topics, Storing, Producing, OneRun
  <2>5. OneProducer'
    BY <1>1 DEF Start, topics, Producing, OneProducer
  <2>6. CacheWhole'
    BY <1>1 DEF Start, storage, readers, CacheWhole
  <2>7. BatchRoom'
    BY <1>1 DEF Start, BatchRoom
  <2> QED
    BY <2>2, <2>3, <2>4, <2>5, <2>6, <2>7
<1>2. CASE Interrupt
  <2>1. TypeOK'
    BY <1>2 DEF Interrupt, process, storage, topics, TypeOK
  <2>2. FilesAgree'
    BY <1>2 DEF Interrupt, process, storage, FilesAgree
  <2>3. OneRun'
    BY <1>2 DEF Interrupt, process, storage, topics, OneRun
  <2>4. OneProducer'
    BY <1>2 DEF Interrupt, process, storage, topics, OneProducer
  <2>5. CacheWhole'
    BY <1>2 DEF Interrupt, process, storage, readers, CacheWhole
  <2>6. BatchRoom'
    BY <1>2 DEF Interrupt, process, BatchRoom
  <2> QED
    BY <2>1, <2>2, <2>3, <2>4, <2>5, <2>6
<1>3. CASE Crash
  <2>1. TypeOK'
    BY <1>3 DEF Crash, Stop, storage, topics, TypeOK
  <2>2. FilesAgree'
    BY <1>3 DEF Crash, Stop, storage, Storing, Producing, FilesAgree
  <2>3. OneRun'
    BY <1>3 DEF Crash, Stop, storage, topics, Storing, Producing, OneRun
  <2>4. OneProducer'
    BY <1>3 DEF Crash, Stop, topics, Producing, OneProducer
  <2>5. CacheWhole'
    BY <1>3 DEF Crash, Stop, storage, readers, CacheWhole
  <2>6. BatchRoom'
    BY <1>3 DEF Crash, Stop, Storing, Producing, BatchRoom
  <2> QED
    BY <2>1, <2>2, <2>3, <2>4, <2>5, <2>6
<1>4. CASE CacheRestarts
  <2>1. TypeOK'
    <3>1. /\ pc' \in {"off", "config", "connect", "build", "database", "cells", "sites", "setup", "tick",
                     "events", "flush", "complete"}
          /\ file' \in File \cup {None} /\ dbFile' \in File \cup {None}
      BY <1>4 DEF CacheRestarts, process, TypeOK
    <3>2. starts' \in 0..Starts /\ faults' \in 0..Faults /\ signals' \in 0..Signals
      BY <1>4 DEF CacheRestarts, TypeOK
    <3>3. cancelled' \in BOOLEAN /\ announced' \in BOOLEAN /\ cacheSites' \in BOOLEAN
      BY <1>4 DEF CacheRestarts, TypeOK
    <3>4. /\ Len(batch') <= BatchPairs /\ tick' \in Nat /\ cacheCells' \in Nat
          /\ stats' \in [records : Nat, truths : Nat]
      BY <1>4 DEF CacheRestarts, process, TypeOK
    <3>5. finished' \in Nat \cup {None} /\ producers' \subseteq 1..Starts
      BY <1>4 DEF CacheRestarts, topics, TypeOK
    <3> QED
      BY <3>1, <3>2, <3>3, <3>4, <3>5 DEF TypeOK
  <2>2. FilesAgree'
    BY <1>4 DEF CacheRestarts, process, FilesAgree
  <2>3. OneRun'
    BY <1>4 DEF CacheRestarts, process, topics, OneRun
  <2>4. OneProducer'
    BY <1>4 DEF CacheRestarts, process, topics, OneProducer
  <2>5. CacheWhole'
    BY <1>4 DEF CacheRestarts, readers, CacheWhole
  <2>6. BatchRoom'
    BY <1>4 DEF CacheRestarts, process, BatchRoom
  <2> QED
    BY <2>1, <2>2, <2>3, <2>4, <2>5, <2>6
<1>5. CASE LoadInventory
  <2>1. dbFile \in File /\ Inventory[dbFile] # None
    BY <1>5 DEF LoadInventory, OneRun, FilesAgree, TypeOK
  <2>2. DOMAIN CellsOf(dbFile) = 1..Len(CellsOf(dbFile))
    BY <2>1, CellsType
  <2>3. (IF cacheCells > 0 THEN 1..cacheCells ELSE DOMAIN CellsOf(dbFile)) = DOMAIN CellsOf(dbFile)
    BY <1>5, <2>2 DEF LoadInventory, CacheWhole, TypeOK
  <2>4. held' = CellIds(Inventory[dbFile])
    BY <1>5, <2>3 DEF LoadInventory, CellIds, CellsOf
  <2>5. TypeOK'
    BY <1>5 DEF LoadInventory, process, environment, storage, topics, TypeOK
  <2>6. FilesAgree'
    BY <1>5 DEF LoadInventory, process, environment, storage, FilesAgree
  <2>7. OneRun'
    BY <1>5 DEF LoadInventory, process, storage, OneRun
  <2>8. OneProducer'
    BY <1>5 DEF LoadInventory, process, environment, storage, topics, OneProducer
  <2>9. CacheWhole'
    BY <1>5, <2>4 DEF LoadInventory, storage, CacheWhole
  <2>10. BatchRoom'
    BY <1>5 DEF LoadInventory, process, BatchRoom
  <2> QED
    BY <2>5, <2>6, <2>7, <2>8, <2>9, <2>10
<1>6. CASE Drain
  <2> USE DEF Drain, process, environment, storage, topics, Storing, Producing
  <2>1. TypeOK'
    BY <1>6 DEF TypeOK
  <2>2. FilesAgree'
    BY <1>6 DEF TypeOK, FilesAgree
  <2>3. OneRun'
    BY <1>6 DEF FilesAgree, OneRun
  <2>4. OneProducer'
    BY <1>6 DEF TypeOK, FilesAgree, OneRun, OneProducer
  <2>5. CacheWhole'
    BY <1>6 DEF FilesAgree, OneRun, CacheWhole
  <2>6. BatchRoom'
    BY <1>6 DEF TypeOK, BatchRoom
  <2> QED
    BY <2>1, <2>2, <2>3, <2>4, <2>5, <2>6
<1> QED
  BY <1>1, <1>2, <1>3, <1>4, <1>5, <1>6

LEMMA ControlKept == Control /\ [Next]_vars => Control'
<1> SUFFICES ASSUME Control, [Next]_vars PROVE Control'
  OBVIOUS
<1>1. CASE Next
  BY <1>1, StoringControl, ProducingControl, AroundControl DEF Next, Step
<1>2. CASE UNCHANGED vars
  BY <1>2 DEF vars, process, environment, storage, topics, readers, Control, TypeOK,
     FilesAgree, OneRun, OneProducer, CacheWhole, BatchRoom
<1> QED
  BY <1>1, <1>2

\* Every part of the state keeps its type, the batch its size and every counter
\* its bound, whatever fails (cmd/simulator, Runner.Run).
THEOREM SimulatorTypeCorrect == Spec => []TypeOK
<1>1. Spec => []Control
  BY InitControl, ControlKept, PTL DEF Spec
<1>2. Control => TypeOK
  BY DEF Control
<1> QED
  BY <1>1, <1>2, PTL

-----------------------------------------------------------------------------
(* What the topics hold.                                                   *)

\* The pairs of ticks that have not begun, and of the one that is being done.
Later == {t \in DOMAIN Pairs[file] : t > tick \/ (t = tick /\ pc = "tick")}
LaterPairs == UNION {Range(Pairs[file][t]) : t \in Later}
ToCome == Range(todo) \cup LaterPairs

\* What has left the batch.
Out == PairsOf(file) \ (Range(batch) \cup ToCome)

\* A pair comes once: what is to come is of this tick, once each, or later.
TodoOnce ==
  /\ todo # <<>> => Range(todo) \subseteq Range(Pairs[file][tick])
  /\ \A i, k \in DOMAIN todo : todo[i] = todo[k] => i = k
  /\ Range(batch) \cap ToCome = {}

Place ==
  /\ tick <= Ticks(Config[file])
  /\ pc \in {"tick", "complete"} \/ tick = Ticks(Config[file]) => todo = <<>>
  /\ pc = "events" => tick < Ticks(Config[file])
  /\ pc = "complete" => tick = Ticks(Config[file]) /\ batch = <<>>

Progress ==
  pc \in Producing => Place /\ TodoOnce /\ Holds(Out) /\ stats.records = Cardinality(recordTopic)

TopicsOfRun ==
  /\ truthTopic \subseteq {p.truth : p \in PairsOf(dbFile)}
  /\ recordTopic \subseteq {p.record : p \in PairsOf(dbFile)} \ {None}
  /\ IsFiniteSet(recordTopic)

TablesOfRun ==
  stored # None =>
    /\ finished # None /\ pc = "off"
    /\ stored.records \subseteq recordTopic /\ stored.truths \subseteq truthTopic

SInv == Control /\ Progress /\ TopicsOfRun /\ TablesOfRun /\ FinishedRunIsWhole

-----------------------------------------------------------------------------
LEMMA PairsApart ==
  ASSUME NEW f \in File, Ready(f)
  PROVE  /\ \A t, u \in DOMAIN Pairs[f] : \A i \in DOMAIN Pairs[f][t], k \in DOMAIN Pairs[f][u] :
              Pairs[f][t][i] = Pairs[f][u][k] => t = u /\ i = k
         /\ \A p, q \in PairsOf(f) : p.truth.event = q.truth.event => p = q
         /\ PairsOf(f) = UNION {Range(Pairs[f][t]) : t \in DOMAIN Pairs[f]}
<1>1. PairsOf(f) = UNION {Range(Pairs[f][t]) : t \in DOMAIN Pairs[f]}
  BY DEF PairsOf, AllPairs
<1>2. \A t, u \in DOMAIN Pairs[f] : \A i \in DOMAIN Pairs[f][t], k \in DOMAIN Pairs[f][u] :
        Pairs[f][t][i].truth.event = Pairs[f][u][k].truth.event => t = u /\ i = k
  BY EventsOfRun
<1>3. \A p \in PairsOf(f) : \E t \in DOMAIN Pairs[f] : \E i \in DOMAIN Pairs[f][t] : p = Pairs[f][t][i]
  BY <1>1 DEF Range
<1>4. \A p, q \in PairsOf(f) : p.truth.event = q.truth.event => p = q
  BY <1>2, <1>3
<1>5. \A t, u \in DOMAIN Pairs[f] : \A i \in DOMAIN Pairs[f][t], k \in DOMAIN Pairs[f][u] :
        Pairs[f][t][i] = Pairs[f][u][k] => t = u /\ i = k
  BY <1>2
<1> QED
  BY <1>1, <1>4, <1>5

\* Where the producing process is at home.
LEMMA AtWork ==
  ASSUME Control, pc \in Producing
  PROVE  /\ file \in File /\ Ready(file) /\ dbFile = file
         /\ tick \in Nat /\ Ticks(Config[file]) \in Nat
         /\ DOMAIN Pairs[file] = 0..Ticks(Config[file]) - 1
         /\ batch \in Seq(PairsOf(file)) /\ todo \in Seq(PairsOf(file))
         /\ Range(batch) \subseteq PairsOf(file)
<1>1. /\ file \in File /\ Ready(file) /\ dbFile = file /\ tick \in Nat
      /\ batch \in Seq(PairsOf(file)) /\ todo \in Seq(PairsOf(file))
  BY DEF Control, TypeOK, FilesAgree, OneRun, BatchRoom, Producing
<1>2. Range(batch) \subseteq PairsOf(file)
  BY <1>1 DEF Range
<1> QED
  BY <1>1, <1>2, PairsType

\* Taking the first of a sequence to the end of another.
LEMMA TakeOne ==
  ASSUME NEW S, NEW q \in Seq(S), q # <<>>, NEW b \in Seq(S),
         \A i, k \in DOMAIN q : q[i] = q[k] => i = k
  PROVE  /\ Range(q) = {Head(q)} \cup Range(Tail(q)) /\ Head(q) \notin Range(Tail(q))
         /\ \A i, k \in DOMAIN Tail(q) : Tail(q)[i] = Tail(q)[k] => i = k
         /\ Range(Append(b, Head(q))) = Range(b) \cup {Head(q)}
<1>1. /\ Tail(q) \in Seq(S) /\ Len(q) \in Nat /\ Len(q) > 0 /\ Len(Tail(q)) = Len(q) - 1
      /\ DOMAIN q = 1..Len(q) /\ DOMAIN Tail(q) = 1..Len(q) - 1
      /\ Head(q) = q[1] /\ \A i \in 1..Len(q) - 1 : Tail(q)[i] = q[i + 1]
  OBVIOUS
<1>2. \A i \in DOMAIN q : q[i] = Head(q) \/ q[i] \in Range(Tail(q))
  <2> TAKE i \in DOMAIN q
  <2>1. CASE i = 1
    BY <1>1, <2>1
  <2>2. CASE i # 1
    <3>1. i - 1 \in DOMAIN Tail(q) /\ Tail(q)[i - 1] = q[i]
      BY <1>1, <2>2
    <3> QED
      BY <3>1 DEF Range
  <2> QED
    BY <2>1, <2>2
<1>3. \A i \in DOMAIN Tail(q) : Tail(q)[i] \in Range(q) /\ Tail(q)[i] # Head(q)
  <2> TAKE i \in DOMAIN Tail(q)
  <2>1. i + 1 \in DOMAIN q /\ Tail(q)[i] = q[i + 1] /\ 1 \in DOMAIN q /\ i + 1 # 1
    BY <1>1
  <2> QED
    BY <1>1, <2>1 DEF Range
<1>4. Range(q) = {Head(q)} \cup Range(Tail(q)) /\ Head(q) \notin Range(Tail(q))
  <2>1. Head(q) \in Range(q)
    BY <1>1 DEF Range
  <2> QED
    BY <1>2, <1>3, <2>1 DEF Range
<1>5. \A i, k \in DOMAIN Tail(q) : Tail(q)[i] = Tail(q)[k] => i = k
  <2> TAKE i, k \in DOMAIN Tail(q)
  <2>1. i + 1 \in DOMAIN q /\ k + 1 \in DOMAIN q /\ Tail(q)[i] = q[i + 1] /\ Tail(q)[k] = q[k + 1]
        /\ i \in Nat /\ k \in Nat
    BY <1>1
  <2>2. Tail(q)[i] = Tail(q)[k] => i + 1 = k + 1
    BY <2>1
  <2> QED
    BY <2>1, <2>2
<1>6. Range(Append(b, Head(q))) = Range(b) \cup {Head(q)}
  <2> DEFINE a == Append(b, Head(q))
  <2>1. /\ Len(b) \in Nat /\ DOMAIN b = 1..Len(b) /\ DOMAIN a = 1..Len(b) + 1
        /\ a[Len(b) + 1] = Head(q) /\ \A i \in 1..Len(b) : a[i] = b[i]
    BY <1>1
  <2>2. \A x \in Range(a) : x \in Range(b) \cup {Head(q)}
    BY <2>1 DEF Range
  <2>3. Len(b) + 1 \in DOMAIN a /\ \A i \in DOMAIN b : i \in DOMAIN a
    BY <2>1
  <2> HIDE DEF a
  <2>4. \A x \in Range(b) \cup {Head(q)} : x \in Range(a)
    BY <2>1, <2>3 DEF Range
  <2> QED
    BY <2>2, <2>4 DEF a
<1> QED
  BY <1>4, <1>5, <1>6

-----------------------------------------------------------------------------
(* The steps that move pairs.                                              *)

\* A run that has just been announced has all its pairs to come.
LEMMA SetupProgress ==
  ASSUME SInv, Setup
  PROVE  Progress'
<1> SUFFICES ASSUME pc' \in Producing PROVE Progress'
  BY DEF Progress
<1> USE DEF SInv
<1>1. /\ Ready(file) /\ pc = "setup" /\ pc' = "tick" /\ file' = file /\ tick' = 0 /\ tick = 0
      /\ batch' = <<>> /\ todo' = <<>> /\ stats' = NoStats
      /\ truthTopic' = {} /\ recordTopic' = {} /\ file \in File
  BY DEF Setup, Goto, Stop, topics, Control, FilesAgree, OneRun, BatchRoom, Storing, Producing
<1>2. Ticks(Config[file]) \in Nat /\ DOMAIN Pairs[file] = 0..Ticks(Config[file]) - 1
  BY <1>1, PairsType
<1>3. Later' = DOMAIN Pairs[file]
  BY <1>1, <1>2 DEF Later
<1>4. Range(batch') = {} /\ Range(todo') = {} /\ DOMAIN todo' = {}
  BY <1>1 DEF Range
<1>5. ToCome' = PairsOf(file)
  BY <1>1, <1>3, <1>4, PairsApart DEF ToCome, LaterPairs
<1>6. Out' = {}
  BY <1>1, <1>5 DEF Out
<1>7. Holds(Out)'
  BY <1>1, <1>6 DEF Holds
<1>8. Place'
  BY <1>1, <1>2 DEF Place
<1>9. TodoOnce'
  BY <1>1, <1>4 DEF TodoOnce
<1>10. stats'.records = Cardinality(recordTopic')
  BY <1>1, FS_EmptySet DEF NoStats
<1> QED
  BY <1>7, <1>8, <1>9, <1>10 DEF Progress

LEMMA BeginTickProgress ==
  ASSUME SInv, BeginTick
  PROVE  Progress'
<1> SUFFICES ASSUME pc' \in Producing PROVE Progress'
  BY DEF Progress
<1> USE DEF SInv
<1>1. /\ pc = "tick" /\ pc' = "events" /\ tick < Ticks(Config[file]) /\ todo' = Pairs[file][tick]
      /\ UNCHANGED <<file, tick, batch, stats, truthTopic, recordTopic>>
  BY DEF BeginTick, Stop, topics, Producing
<1>2. Place /\ TodoOnce /\ Holds(Out) /\ stats.records = Cardinality(recordTopic) /\ todo = <<>>
  BY <1>1 DEF Progress, Producing, Place
<1>3. /\ tick \in DOMAIN Pairs[file] /\ file \in File /\ Ready(file)
      /\ DOMAIN Pairs[file] = 0..Ticks(Config[file]) - 1 /\ tick \in Nat
  BY <1>1, AtWork DEF Producing
<1>4. Later = {tick} \cup Later' /\ tick \notin Later'
  <2>1. \A t \in DOMAIN Pairs[file] : t \in Int /\ (t \in Later <=> t >= tick) /\ (t \in Later' <=> t > tick)
    <3> TAKE t \in DOMAIN Pairs[file]
    <3>1. t \in Int /\ tick \in Int
      BY <1>3
    <3>2. t \in Later <=> t > tick \/ t = tick
      BY <1>1 DEF Later
    <3>3. t \in Later' <=> t > tick
      BY <1>1 DEF Later
    <3> QED
      BY <3>1, <3>2, <3>3
  <2>2. \A t : (t \in Later => t \in DOMAIN Pairs[file]) /\ (t \in Later' => t \in DOMAIN Pairs[file])
    BY <1>1 DEF Later
  <2>3. tick \in Later /\ tick \notin Later'
    BY <1>3, <2>1
  <2>4. \A t : t \in Later <=> t = tick \/ t \in Later'
    BY <1>3, <2>1, <2>2, <2>3
  <2> QED
    BY <2>3, <2>4
<1>5. ToCome' = ToCome
  <2>1. Range(todo) = {}
    BY <1>2 DEF Range
  <2>2. LaterPairs = Range(Pairs[file][tick]) \cup LaterPairs'
    BY <1>1, <1>4 DEF LaterPairs
  <2> QED
    BY <1>1, <2>1, <2>2 DEF ToCome
<1>6. Out' = Out
  BY <1>1, <1>5 DEF Out
<1>7. Holds(Out)'
  BY <1>1, <1>2, <1>6 DEF Holds
<1>8. Place'
  BY <1>1, <1>2, <1>3, AtWork DEF Place, Producing
<1>9. TodoOnce'
  <2>1. \A i, k \in DOMAIN Pairs[file][tick] : Pairs[file][tick][i] = Pairs[file][tick][k] => i = k
    BY <1>3, PairsApart
  <2> QED
    BY <1>1, <1>2, <1>5, <2>1 DEF TodoOnce
<1> QED
  BY <1>1, <1>2, <1>7, <1>8, <1>9 DEF Progress

LEMMA EmitProgress ==
  ASSUME SInv, Emit
  PROVE  Progress'
<1> USE DEF SInv
<1> DEFINE h == Head(todo)
<1>1. /\ pc = "events" /\ pc' \in {"events", "flush"} /\ todo # <<>>
      /\ batch' = Append(batch, h) /\ todo' = Tail(todo)
      /\ UNCHANGED <<file, tick, stats, truthTopic, recordTopic>>
  BY DEF Emit, topics
<1>2. Place /\ TodoOnce /\ Holds(Out) /\ stats.records = Cardinality(recordTopic)
  BY <1>1 DEF Progress, Producing
<1>3. /\ file \in File /\ Ready(file) /\ tick \in Nat /\ tick < Ticks(Config[file])
      /\ tick \in DOMAIN Pairs[file] /\ DOMAIN Pairs[file] = 0..Ticks(Config[file]) - 1
      /\ batch \in Seq(PairsOf(file)) /\ todo \in Seq(PairsOf(file))
  BY <1>1, <1>2, AtWork DEF Producing, Place
<1>4. /\ Range(todo) = {h} \cup Range(todo') /\ h \notin Range(todo')
      /\ \A i, k \in DOMAIN todo' : todo'[i] = todo'[k] => i = k
      /\ Range(batch') = Range(batch) \cup {h}
  BY <1>1, <1>2, <1>3, TakeOne DEF TodoOnce
<1>5. Later' = Later /\ LaterPairs' = LaterPairs /\ tick \notin Later /\ Later \subseteq DOMAIN Pairs[file]
  <2>1. Later' = Later /\ tick \notin Later /\ Later \subseteq DOMAIN Pairs[file]
    BY <1>1, <1>3 DEF Later
  <2> QED
    BY <1>1, <2>1 DEF LaterPairs
<1>6. h \notin LaterPairs
  <2>1. h \in Range(Pairs[file][tick])
    BY <1>1, <1>2, <1>4 DEF TodoOnce
  <2>2. ASSUME NEW t \in Later, h \in Range(Pairs[file][t]) PROVE FALSE
    <3>1. PICK i \in DOMAIN Pairs[file][tick] : h = Pairs[file][tick][i]
      BY <2>1 DEF Range
    <3>2. PICK k \in DOMAIN Pairs[file][t] : h = Pairs[file][t][k]
      BY <2>2 DEF Range
    <3>3. t \in DOMAIN Pairs[file] /\ t # tick
      BY <1>5, <2>2
    <3>4. Pairs[file][tick][i] = Pairs[file][t][k] => tick = t
      <4>1. \A v, u \in DOMAIN Pairs[file] : \A m \in DOMAIN Pairs[file][v], n \in DOMAIN Pairs[file][u] :
              Pairs[file][v][m] = Pairs[file][u][n] => v = u /\ m = n
        BY <1>3, PairsApart
      <4> QED
        BY <1>3, <3>3, <4>1
    <3> QED
      BY <3>1, <3>2, <3>3, <3>4
  <2> QED
    BY <2>2 DEF LaterPairs
<1>7. ToCome = {h} \cup ToCome' /\ h \notin ToCome'
  BY <1>4, <1>5, <1>6 DEF ToCome
<1>8. Out' = Out
  BY <1>1, <1>4, <1>7 DEF Out
<1>9. Holds(Out)'
  BY <1>1, <1>2, <1>8 DEF Holds
<1>10. Place'
  BY <1>1, <1>2, <1>3 DEF Place
<1>11. TodoOnce'
  <2>1. Range(batch') \cap ToCome' = {}
    BY <1>2, <1>4, <1>7 DEF TodoOnce
  <2>2. Range(todo') \subseteq Range(Pairs[file][tick])
    BY <1>1, <1>2, <1>4 DEF TodoOnce
  <2> QED
    BY <1>1, <1>4, <2>1, <2>2 DEF TodoOnce
<1> QED
  BY <1>1, <1>2, <1>9, <1>10, <1>11 DEF Progress

LEMMA EndTickProgress ==
  ASSUME SInv, EndTick \/ EndRun
  PROVE  Progress'
<1> USE DEF SInv
<1>1. /\ pc \in {"events", "tick"}
      /\ pc = "events" => pc' = "tick" /\ tick' = tick + 1 /\ todo = <<>>
      /\ pc = "tick" => /\ tick = Ticks(Config[file]) /\ tick' = tick
                        /\ pc' = IF batch = <<>> THEN "complete" ELSE "flush"
      /\ UNCHANGED <<file, batch, todo, stats, truthTopic, recordTopic>>
  BY DEF EndTick, EndRun, Goto, topics
<1>2. Place /\ TodoOnce /\ Holds(Out) /\ stats.records = Cardinality(recordTopic)
  BY <1>1 DEF Progress, Producing
<1>3. /\ DOMAIN Pairs[file] = 0..Ticks(Config[file]) - 1 /\ Ticks(Config[file]) \in Nat
      /\ tick \in Nat
  BY <1>1, AtWork DEF Producing
<1>4. Later' = Later
  <2>1. \A t \in DOMAIN Pairs[file] : t \in Int /\ t < Ticks(Config[file]) /\ (t \in Later' <=> t \in Later)
    <3> TAKE t \in DOMAIN Pairs[file]
    <3>1. t \in Int /\ tick \in Int /\ Ticks(Config[file]) \in Int /\ t < Ticks(Config[file])
      BY <1>3
    <3>2. t \in Later <=> t > tick \/ (t = tick /\ pc = "tick")
      BY DEF Later
    <3>3. t \in Later' <=> t > tick' \/ (t = tick' /\ pc' = "tick")
      BY <1>1 DEF Later
    <3> QED
      BY <1>1, <3>1, <3>2, <3>3
  <2> QED
    BY <1>1, <2>1 DEF Later
<1>5. ToCome' = ToCome
  BY <1>1, <1>4 DEF ToCome, LaterPairs
<1>6. Out' = Out
  BY <1>1, <1>5 DEF Out
<1>7. Holds(Out)'
  BY <1>1, <1>2, <1>6 DEF Holds
<1>8. Place'
  BY <1>1, <1>2, <1>3 DEF Place
<1>9. TodoOnce'
  BY <1>1, <1>2, <1>5 DEF TodoOnce
<1> QED
  BY <1>1, <1>2, <1>7, <1>8, <1>9 DEF Progress

\* A batch that goes out was not out before.
LEMMA BatchIsNew ==
  ASSUME SInv, pc = "flush"
  PROVE  /\ Records(batch) \cap recordTopic = {}
         /\ Truths(batch) = {p.truth : p \in Range(batch)}
         /\ Records(batch) = {p.record : p \in Range(batch)} \ {None}
         /\ Range(batch) \subseteq PairsOf(file) /\ Range(batch) \cap Out = {}
<1> USE DEF SInv
<1>1. /\ file \in File /\ Ready(file) /\ Range(batch) \subseteq PairsOf(file) /\ Holds(Out)
  BY AtWork DEF Progress, Producing
<1>2. Truths(batch) = {p.truth : p \in Range(batch)}
  BY DEF Truths, Range
<1>3. Records(batch) = {p.record : p \in Range(batch)} \ {None}
  BY DEF Records, Range
<1>4. Range(batch) \cap Out = {} /\ Out \subseteq PairsOf(file)
  BY DEF Out
<1>5. ASSUME NEW r \in Records(batch), r \in recordTopic PROVE FALSE
  <2>1. PICK p \in Range(batch) : r = p.record /\ p.record # None
    BY <1>3
  <2>2. PICK q \in Out : r = q.record
    BY <1>1, <1>5 DEF Holds
  <2>3. p \in PairsOf(file) /\ q \in PairsOf(file)
    BY <1>1, <1>4
  <2>4. \A x \in PairsOf(file) : x.record # None => x.record.event = x.truth.event
    BY <1>1, PairsWhole
  <2>5. p.truth.event = q.truth.event
    BY <2>1, <2>2, <2>3, <2>4
  <2>6. p = q
    BY <1>1, <2>3, <2>5, PairsApart
  <2> QED
    BY <1>4, <2>6
<1> QED
  BY <1>1, <1>2, <1>3, <1>4, <1>5

LEMMA FlushProgress ==
  ASSUME SInv, Flush
  PROVE  Progress'
<1> USE DEF SInv
<1>1. /\ pc = "flush" /\ pc' = (IF tick = Ticks(Config[file]) THEN "complete" ELSE "events")
      /\ batch' = <<>> /\ UNCHANGED <<file, tick, todo>>
      /\ truthTopic' = truthTopic \cup Truths(batch)
      /\ recordTopic' = recordTopic \cup Records(batch)
      /\ stats'.records = stats.records + Cardinality(Records(batch))
  BY DEF Flush
<1>2. Place /\ TodoOnce /\ Holds(Out) /\ stats.records = Cardinality(recordTopic)
  BY <1>1 DEF Progress, Producing
<1>3. /\ tick \in Nat /\ Ticks(Config[file]) \in Nat
      /\ batch \in Seq(PairsOf(file)) /\ Range(batch) \subseteq PairsOf(file)
  BY <1>1, AtWork DEF Producing
<1>4. Later' = Later
  BY <1>1 DEF Later
<1>5. ToCome' = ToCome /\ Range(batch') = {}
  <2>1. ToCome' = ToCome
    BY <1>1, <1>4 DEF ToCome, LaterPairs
  <2>2. Range(batch') = {}
    BY <1>1 DEF Range
  <2> QED
    BY <2>1, <2>2
<1>6. Out' = Out \cup Range(batch)
  BY <1>1, <1>2, <1>3, <1>5 DEF Out, TodoOnce
<1>7. Holds(Out)'
  <2>1. truthTopic' = {p.truth : p \in Out'}
    BY <1>1, <1>2, <1>6, BatchIsNew DEF Holds
  <2>2. recordTopic' = {p.record : p \in Out'} \ {None}
    BY <1>1, <1>2, <1>6, BatchIsNew DEF Holds
  <2> QED
    BY <2>1, <2>2 DEF Holds
<1>8. Place'
  BY <1>1, <1>2, <1>3 DEF Place
<1>9. TodoOnce'
  BY <1>1, <1>2, <1>5 DEF TodoOnce
<1>10. stats'.records = Cardinality(recordTopic')
  <2>1. IsFiniteSet(recordTopic) /\ IsFiniteSet(Records(batch)) /\ Records(batch) \cap recordTopic = {}
    BY <1>1, <1>3, RecordsFinite, BatchIsNew DEF TopicsOfRun
  <2>2. Cardinality(recordTopic') = Cardinality(recordTopic) + Cardinality(Records(batch)) - Cardinality({})
    <3>1. recordTopic \cap Records(batch) = {}
      BY <2>1
    <3> QED
      BY <1>1, <2>1, <3>1, FS_Union
  <2>3. Cardinality({}) = 0 /\ Cardinality(recordTopic) \in Nat /\ Cardinality(Records(batch)) \in Nat
    BY <2>1, FS_EmptySet, FS_CardinalityType
  <2> QED
    BY <1>1, <1>2, <2>2, <2>3
<1> QED
  BY <1>7, <1>8, <1>9, <1>10 DEF Progress

\* All other steps end the process, come before its run is announced, or leave
\* what it has produced alone.
LEMMA ProgressKept ==
  ASSUME SInv, [Next]_vars
  PROVE  Progress'
<1> USE DEF SInv
<1>1. CASE ReadConfig \/ Connect \/ BuildInventory \/ InsertRunWithCells \/ InsertFails
           \/ BulkLoadCells \/ BulkLoadSites
  BY <1>1 DEF ReadConfig, Connect, BuildInventory, InsertRunWithCells, InsertFails,
     BulkLoadCells, BulkLoadSites, Goto, Stop, Progress, Producing
<1>2. CASE FlushFails \/ CompleteRun \/ CompleteFails \/ Crash \/ (\E f \in File : Start(f)) \/ Drain
  BY <1>2 DEF FlushFails, CompleteRun, CompleteFails, Crash, Start, Drain, process, Stop, Progress, Producing
<1>3. CASE LoadSomeCells \/ Interrupt \/ CacheRestarts \/ LoadInventory \/ UNCHANGED vars
  <2>1. UNCHANGED <<pc, file, tick, batch, todo, stats, truthTopic, recordTopic>>
    BY <1>3 DEF LoadSomeCells, Interrupt, CacheRestarts, LoadInventory, vars, process, topics
  <2>2. Later' = Later
    BY <2>1 DEF Later
  <2>3. ToCome' = ToCome /\ Out' = Out
    BY <2>1, <2>2 DEF ToCome, LaterPairs, Out
  <2> QED
    BY <2>1, <2>3 DEF Progress, Place, TodoOnce, Holds
<1> QED
  BY <1>1, <1>2, <1>3, SetupProgress, BeginTickProgress, EmitProgress, EndTickProgress, FlushProgress
     DEF Next, Step

\* A step that publishes nothing leaves the topics to their run.
LEMMA QuietSteps ==
  ASSUME Control, [Next]_vars, ~Flush, ~FlushFails
  PROVE  /\ UNCHANGED <<truthTopic, recordTopic>>
         /\ dbFile' = dbFile \/ (truthTopic = {} /\ recordTopic = {} /\ finished = None)
<1>1. CASE InsertRunWithCells \/ InsertFails
  BY <1>1 DEF InsertRunWithCells, InsertFails, topics, Control, OneRun
<1>2. CASE ReadConfig \/ Connect \/ BuildInventory \/ BulkLoadCells \/ BulkLoadSites \/ Setup
           \/ LoadSomeCells \/ (\E f \in File : Start(f))
  BY <1>2 DEF ReadConfig, Connect, BuildInventory, BulkLoadCells, BulkLoadSites, Setup,
     LoadSomeCells, Start, storage, topics
<1>3. CASE BeginTick \/ Emit \/ EndTick \/ EndRun \/ CompleteRun \/ CompleteFails
  BY <1>3 DEF BeginTick, Emit, EndTick, EndRun, CompleteRun, CompleteFails, storage, topics
<1>4. CASE Interrupt \/ Crash \/ CacheRestarts \/ LoadInventory \/ Drain \/ UNCHANGED vars
  BY <1>4 DEF Interrupt, Crash, CacheRestarts, LoadInventory, Drain, vars, storage, topics
<1> QED
  BY <1>1, <1>2, <1>3, <1>4 DEF Next, Step

LEMMA TopicsKept ==
  ASSUME SInv, [Next]_vars
  PROVE  TopicsOfRun'
<1> USE DEF SInv
<1>1. CASE Flush \/ FlushFails
  <2>1. /\ pc = "flush" /\ dbFile' = dbFile /\ dbFile = file
        /\ truthTopic' \subseteq truthTopic \cup Truths(batch)
        /\ recordTopic' \subseteq recordTopic \cup Records(batch)
        /\ batch \in Seq(PairsOf(file))
    BY <1>1, AtWork DEF Flush, FlushFails, storage, Producing
  <2>2. IsFiniteSet(recordTopic \cup Records(batch))
    BY <2>1, RecordsFinite, FS_Union DEF TopicsOfRun
  <2>3. IsFiniteSet(recordTopic')
    BY <2>1, <2>2, FS_Subset
  <2> QED
    BY <2>1, <2>3, BatchIsNew DEF TopicsOfRun
<1>2. CASE ~Flush /\ ~FlushFails
  BY <1>2, QuietSteps DEF TopicsOfRun
<1> QED
  BY <1>1, <1>2

\* Nothing is out that is not of the pairs, and at the end nothing is to come.
LEMMA AllIsOut ==
  ASSUME SInv, pc = "complete"
  PROVE  Holds(AllPairs(Pairs[dbFile])) /\ stats.records = Cardinality(recordTopic)
<1> USE DEF SInv
<1>1. /\ Place /\ Holds(Out) /\ stats.records = Cardinality(recordTopic)
      /\ DOMAIN Pairs[file] = 0..Ticks(Config[file]) - 1 /\ dbFile = file
      /\ Ticks(Config[file]) \in Nat
  BY AtWork DEF Progress, Producing
<1>2. tick = Ticks(Config[file]) /\ todo = <<>> /\ batch = <<>>
  BY <1>1 DEF Place
<1>3. Later = {}
  BY <1>1, <1>2 DEF Later
<1>4. Out = PairsOf(file)
  BY <1>2, <1>3 DEF Out, ToCome, LaterPairs, Range
<1> QED
  BY <1>1, <1>4 DEF PairsOf

LEMMA FinishedKept ==
  ASSUME SInv, [Next]_vars
  PROVE  FinishedRunIsWhole'
<1> USE DEF SInv
<1>1. CASE CompleteRun \/ CompleteFails
  <2>1. /\ pc = "complete" /\ finished = None /\ finished' \in {None, stats.records}
        /\ UNCHANGED <<dbFile, truthTopic, recordTopic>>
    BY <1>1 DEF CompleteRun, CompleteFails, topics, Control, OneProducer, Producing
  <2> QED
    BY <2>1, AllIsOut DEF FinishedRunIsWhole, Holds
<1>2. CASE Flush \/ FlushFails
  BY <1>2 DEF Flush, FlushFails, storage, FinishedRunIsWhole, Control, OneProducer, Producing
<1>3. CASE ~(Flush \/ FlushFails \/ CompleteRun \/ CompleteFails)
  <2>1. finished' = finished
    <3>1. CASE ReadConfig \/ Connect \/ BuildInventory \/ InsertRunWithCells \/ InsertFails
               \/ BulkLoadCells \/ BulkLoadSites \/ Setup \/ LoadSomeCells \/ (\E f \in File : Start(f))
      BY <3>1 DEF ReadConfig, Connect, BuildInventory, InsertRunWithCells, InsertFails, BulkLoadCells,
         BulkLoadSites, Setup, LoadSomeCells, Start, storage
    <3>2. CASE BeginTick \/ Emit \/ EndTick \/ EndRun \/ Interrupt \/ Crash \/ CacheRestarts
               \/ LoadInventory \/ Drain \/ UNCHANGED vars
      BY <3>2 DEF BeginTick, Emit, EndTick, EndRun, Interrupt, Crash, CacheRestarts, LoadInventory,
         Drain, vars, storage
    <3> QED
      BY <1>3, <3>1, <3>2 DEF Next, Step
  <2> QED
    BY <1>3, <2>1, QuietSteps DEF FinishedRunIsWhole, Holds
<1> QED
  BY <1>1, <1>2, <1>3

LEMMA TablesKept ==
  ASSUME SInv, [Next]_vars
  PROVE  TablesOfRun'
<1> USE DEF SInv
<1>1. CASE Drain
  BY <1>1 DEF Drain, process, storage, topics, TablesOfRun
<1>2. CASE stored # None /\ ~Drain
  <2>1. pc = "off"
    BY <1>2 DEF TablesOfRun
  <2>2. CacheRestarts \/ LoadInventory \/ UNCHANGED vars
    BY <1>2, <2>1 DEF Next, Step, ReadConfig, Connect, BuildInventory, InsertRunWithCells, InsertFails,
       BulkLoadCells, BulkLoadSites, Setup, BeginTick, Emit, EndTick, EndRun, Flush, FlushFails,
       CompleteRun, CompleteFails, Start, LoadSomeCells, Interrupt, Crash
  <2> QED
    BY <2>2 DEF CacheRestarts, LoadInventory, vars, process, storage, topics, readers, TablesOfRun
<1>3. CASE stored = None /\ ~Drain
  <2>1. stored' = stored
    <3>1. CASE ReadConfig \/ Connect \/ BuildInventory \/ InsertRunWithCells \/ InsertFails
               \/ BulkLoadCells \/ BulkLoadSites \/ Setup \/ LoadSomeCells \/ (\E f \in File : Start(f))
      BY <3>1 DEF ReadConfig, Connect, BuildInventory, InsertRunWithCells, InsertFails, BulkLoadCells,
         BulkLoadSites, Setup, LoadSomeCells, Start, readers
    <3>2. CASE BeginTick \/ Emit \/ EndTick \/ EndRun \/ Flush \/ FlushFails \/ CompleteRun \/ CompleteFails
      BY <3>2 DEF BeginTick, Emit, EndTick, EndRun, Flush, FlushFails, CompleteRun, CompleteFails, readers
    <3>3. CASE Interrupt \/ Crash \/ CacheRestarts \/ LoadInventory \/ UNCHANGED vars
      BY <3>3 DEF Interrupt, Crash, CacheRestarts, LoadInventory, vars, readers
    <3> QED
      BY <1>3, <3>1, <3>2, <3>3 DEF Next, Step
  <2> QED
    BY <1>3, <2>1 DEF TablesOfRun
<1> QED
  BY <1>1, <1>2, <1>3

LEMMA SimulatorInit == Init => SInv
<1> SUFFICES ASSUME Init PROVE SInv
  OBVIOUS
<1>1. Progress /\ TablesOfRun /\ FinishedRunIsWhole
  BY DEF Init, Progress, Producing, TablesOfRun, FinishedRunIsWhole
<1>2. TopicsOfRun
  BY FS_EmptySet DEF Init, TopicsOfRun
<1> QED
  BY <1>1, <1>2, InitControl DEF SInv

\* The invariant of a run.
THEOREM SimulatorInvariant == Spec => []SInv
<1>1. SInv /\ [Next]_vars => SInv'
  BY ControlKept, ProgressKept, TopicsKept, TablesKept, FinishedKept DEF SInv
<1> QED
  BY <1>1, SimulatorInit, PTL DEF Spec

\* A run marked as finished is whole and counts its records exactly, for every
\* scenario, batch size and number of processes, and wherever one of them was
\* interrupted, killed or failed by a service (Runner.Run, CompleteRun).
THEOREM FinishedIsWhole == Spec => []FinishedRunIsWhole
<1>1. SInv => FinishedRunIsWhole
  BY DEF SInv
<1> QED
  BY <1>1, SimulatorInvariant, PTL

-----------------------------------------------------------------------------
(* One network, one process.                                               *)

LEMMA NetworkAgrees == SInv => InventoryAgrees
<1> SUFFICES ASSUME SInv PROVE InventoryAgrees
  OBVIOUS
<1> USE DEF SInv, Control
<1>1. ASSUME truthTopic \cup recordTopic # {}
      PROVE  dbFile # None /\ dbFile \in File /\ Ready(dbFile) /\ Cardinality(producers) = 1
  <2>1. dbFile # None /\ dbFile \in File /\ Ready(dbFile) /\ producers # {}
    BY <1>1 DEF OneRun, OneProducer, TypeOK
  <2>2. PICK k \in 1..Starts + 1 : producers \subseteq {k}
    BY DEF OneProducer
  <2>3. producers = {k}
    BY <2>1, <2>2
  <2> QED
    BY <2>1, <2>3, FS_Singleton
<1>2. ASSUME NEW r \in recordTopic
      PROVE  \/ r.cell \in CellIds(Inventory[dbFile])
             \/ \A g \in truthTopic : g.event = r.event => g.injectedRule = FakeCell
  <2>1. dbFile \in File /\ Ready(dbFile)
    BY <1>1, <1>2
  <2>2. PICK p \in PairsOf(dbFile) : r = p.record /\ p.record # None
    BY <1>2 DEF TopicsOfRun
  <2>3. /\ p.record.event = p.truth.event
        /\ p.record.cell \in CellIds(Inventory[dbFile]) \/ p.truth.injectedRule = FakeCell
    BY <2>1, <2>2, PairsWhole
  <2>4. ASSUME NEW g \in truthTopic, g.event = r.event PROVE g = p.truth
    <3>1. PICK q \in PairsOf(dbFile) : g = q.truth
      BY <2>4 DEF TopicsOfRun
    <3>2. q = p
      BY <2>1, <2>2, <2>3, <2>4, <3>1, PairsApart
    <3> QED
      BY <3>1, <3>2
  <2> QED
    BY <2>2, <2>3, <2>4
<1>3. held # None => held = CellIds(Inventory[dbFile])
  BY DEF CacheWhole
<1> QED
  BY <1>1, <1>2, <1>3 DEF InventoryAgrees

\* Records and their network stay together: one process publishes, under the
\* inventory the database holds, and a detector has all of its cells, for every
\* scenario and however many processes are started, killed and failed, and
\* caches restarted, under one run id (Store.Persist, LoadInventory).
THEOREM NetworkAndRecordsAgree == Spec => []InventoryAgrees
BY NetworkAgrees, SimulatorInvariant, PTL

-----------------------------------------------------------------------------
(* What the checks of a finished run say.                                  *)

LEMMA ChecksAreExact == SInv => VerifiedIffWhole
<1> SUFFICES ASSUME SInv, stored # None
             PROVE  Verified <=> /\ stored.records = recordTopic
                                 /\ Events(recordTopic) \subseteq Events(stored.truths)
                                 /\ \A g \in stored.truths : g.covered
  BY DEF VerifiedIffWhole
<1> USE DEF SInv, Control
<1>1. /\ stored.records \subseteq recordTopic /\ stored.truths \subseteq truthTopic
      /\ Holds(PairsOf(dbFile)) /\ finished = Cardinality(recordTopic) /\ IsFiniteSet(recordTopic)
      /\ dbFile \in File /\ Ready(dbFile)
  BY DEF TablesOfRun, FinishedRunIsWhole, TopicsOfRun, OneRun, TypeOK, PairsOf
\* Check three: as many as published are all of them.
<1>2. PublishedVsStored <=> stored.records = recordTopic
  <2>1. Cardinality(recordTopic) = Cardinality(stored.records) => stored.records = recordTopic
    BY <1>1, FS_Subset
  <2> QED
    BY <1>1, <2>1 DEF PublishedVsStored
\* Check one.
<1>3. RecordsWithoutTruth = {} <=> Events(stored.records) \subseteq Events(stored.truths)
  BY DEF RecordsWithoutTruth
\* Check two: with all records there, the truths without one are the uncovered.
<1>4. ASSUME NEW g \in stored.truths
      PROVE  g.injectedRule # Gap => (g.event \in Events(recordTopic) <=> g.covered)
  <2>1. PICK p \in PairsOf(dbFile) : g = p.truth
    BY <1>1, <1>4 DEF Holds
  <2>2. /\ p.record = None <=> ~p.truth.covered \/ p.truth.injectedRule = Gap
        /\ \A q \in PairsOf(dbFile) : q.record # None => q.record.event = q.truth.event
    BY <1>1, PairsWhole
  <2>3. p.record # None => g.event \in Events(recordTopic)
    BY <1>1, <2>1, <2>2 DEF Holds, Events
  <2>4. ASSUME g.event \in Events(recordTopic) PROVE p.record # None
    <3>1. PICK q \in PairsOf(dbFile) : q.record # None /\ g.event = q.record.event
      BY <1>1, <2>4 DEF Holds, Events
    <3>2. p = q
      BY <1>1, <2>1, <2>2, <3>1, PairsApart
    <3> QED
      BY <3>1, <3>2
  <2> QED
    BY <2>1, <2>2, <2>3, <2>4
<1>5. ASSUME NEW g \in stored.truths, g.injectedRule = Gap PROVE g.covered
  <2>1. PICK p \in PairsOf(dbFile) : g = p.truth
    BY <1>1, <1>5 DEF Holds
  <2> QED
    BY <1>1, <1>5, <2>1, PairsWhole
<1>6. ASSUME stored.records = recordTopic
      PROVE  TruthsWithoutRecord = {} <=> \A g \in stored.truths : g.covered
  <2>1. TruthsWithoutRecord = {} <=>
          \A g \in stored.truths : g.injectedRule # Gap => g.event \in Events(recordTopic)
    BY <1>6 DEF TruthsWithoutRecord
  <2> QED
    BY <1>4, <1>5, <2>1
<1> QED
  BY <1>2, <1>3, <1>6 DEF Verified

\* Checks one to three pass exactly for a finished run whose records are all
\* stored, each with its truth, and which has no stored event outside coverage,
\* whatever was lost on the way to the tables (verify_integrity).
THEOREM VerifiedExactly == Spec => []VerifiedIffWhole
BY ChecksAreExact, SimulatorInvariant, PTL

-----------------------------------------------------------------------------
(* The labels.                                                             *)

LEMMA LabelledShows ==
  ASSUME JumpsShow, dbFile \in File, Ready(dbFile), NEW p \in PairsOf(dbFile), p.record # None
  PROVE  /\ p.truth.covered /\ p.record.msisdn = p.truth.agent
         /\ Shows(p.truth.injectedRule, p.record, p.truth, Inventory[dbFile])
<1> DEFINE r == p.record
           g == p.truth
           rule == g.injectedRule
           inv == Inventory[dbFile]
           ta == Config[dbFile].timingAdvance
           InRing == RingContains(Ring(r.ta, ta.technology), Distance(g.location, CellOf(inv, r.cell).enu))
<1>1. PairWhole(p) /\ PairLabelled(inv, Config[dbFile], p)
  BY EventsOfRun
<1>2. g.covered /\ r.msisdn = g.agent
  BY <1>1 DEF PairWhole
<1>3. /\ rule \in {Absent, FakeCell, Jump, TimeShift, DeviceSwap}
      /\ rule = FakeCell <=> r.cell \notin CellIds(inv)
      /\ rule = TimeShift <=> r.time # g.time
      /\ rule = DeviceSwap <=> r.imei # g.agent
  BY <1>1 DEF PairLabelled
<1>4. rule = Absent /\ ta.enabled => InRing
  BY <1>1 DEF PairLabelled
<1>5. rule = Jump /\ ta.enabled => ~InRing
  BY DEF JumpsShow, PairsOf
<1>6. Shows(rule, r, g, inv)
  <2>1. ta.enabled => (rule = Absent => InRing) /\ (rule = Jump => ~InRing)
    BY <1>4, <1>5
  <2> HIDE DEF r, g, rule, inv
  <2> QED
    BY <1>3, <2>1 DEF Shows
<1> QED
  BY <1>2, <1>6 DEF r, g, rule, inv

LEMMA LabelsTold == JumpsShow /\ SInv => LabelsTellTheTruth
<1> SUFFICES ASSUME JumpsShow, SInv PROVE LabelsTellTheTruth
  OBVIOUS
<1> USE DEF SInv, Control
<1>1. ASSUME NEW g \in truthTopic
      PROVE  dbFile \in File /\ Ready(dbFile)
  BY <1>1 DEF OneRun, OneProducer, TypeOK
<1>2. ASSUME NEW g \in truthTopic, NEW r \in recordTopic, g.event = r.event
      PROVE  g.covered /\ r.msisdn = g.agent /\ Shows(g.injectedRule, r, g, Inventory[dbFile])
  <2>1. PICK p \in PairsOf(dbFile) : g = p.truth
    BY <1>2 DEF TopicsOfRun
  <2>2. PICK q \in PairsOf(dbFile) : r = q.record /\ q.record # None
    BY <1>2 DEF TopicsOfRun
  <2>3. q.record.event = q.truth.event
    BY <1>1, <2>2, PairsWhole
  <2>4. p = q
    BY <1>1, <1>2, <2>1, <2>2, <2>3, PairsApart
  <2> QED
    BY <1>1, <2>1, <2>2, <2>4, LabelledShows
<1>3. ASSUME finished # None, NEW g \in truthTopic
      PROVE  g.event \in Events(recordTopic) <=> g.covered /\ g.injectedRule # Gap
  <2>1. Holds(PairsOf(dbFile))
    BY <1>3 DEF FinishedRunIsWhole, PairsOf
  <2>2. PICK p \in PairsOf(dbFile) : g = p.truth
    BY <1>3, <2>1 DEF Holds
  <2>3. PairWhole(p) /\ \A q \in PairsOf(dbFile) : q.record # None => q.record.event = q.truth.event
    BY <1>1, <1>3, EventsOfRun, PairsWhole
  <2>4. p.record # None => g.event \in Events(recordTopic)
    BY <2>1, <2>2, <2>3 DEF Holds, Events
  <2>5. ASSUME g.event \in Events(recordTopic) PROVE p.record # None
    <3>1. PICK q \in PairsOf(dbFile) : q.record # None /\ g.event = q.record.event
      BY <2>1, <2>5 DEF Holds, Events
    <3>2. p = q
      BY <1>1, <1>3, <2>2, <2>3, <3>1, PairsApart
    <3> QED
      BY <3>1, <3>2
  <2> QED
    BY <2>2, <2>3, <2>4, <2>5 DEF PairWhole
<1> QED
  BY <1>2, <1>3 DEF LabelsTellTheTruth

\* The label of the ground truth tells what was done to the record, in every
\* run whose jumps can be seen at all: a record of an unlabelled event is as
\* it was measured, a labelled one shows its manipulation and no other, and
\* in a finished run an event is without a record exactly when it is outside
\* coverage or deleted (Generator.Generate, Injector.Inject).
THEOREM LabelsAreTrue == ASSUME JumpsShow PROVE Spec => []LabelsTellTheTruth
<1>1. SInv => LabelsTellTheTruth
  BY LabelsTold
<1> QED
  BY <1>1, SimulatorInvariant, PTL
===============================================================================
