----------------------------- MODULE SimulatorRun -----------------------------
(***************************************************************************)
(* A run of the simulator (cmd/simulator, simulator/run, inventory.Store)  *)
(* under one run id: the process loads a scenario, writes the run and its  *)
(* inventory to the database, fills the cache, announces the run, produces *)
(* its events in batches to two topics and marks the run as finished.      *)
(* Processes are killed and interrupted and every service may fail; a      *)
(* process can be started again with the run id of an earlier one.  Around *)
(* it: a detector that loads the inventory of an announced run, and the    *)
(* persisters that drain the topics, with the checks of verify_integrity.  *)
(***************************************************************************)
EXTENDS EventPair

CONSTANTS
    File,          \* scenario files
    FileOf,        \* their contents
    BatchPairs,    \* pairs per batch (publishBatch)
    Starts,        \* bound: processes started
    Faults,        \* bound: crashes and failures of a service
    Signals,       \* bound: interrupts
    Losses         \* bound: messages the persisters cannot store

ASSUME SimulatorAssumption ==
    /\ File = DOMAIN FileOf /\ None \notin File
    /\ BatchPairs \in Nat \ {0} /\ Starts \in Nat /\ Faults \in Nat /\ Signals \in Nat /\ Losses \in Nat

\* What a file leads to: scenario, inventory, population and
\* the pairs of every tick.
Config == [f \in File |-> Load(FileOf[f])]

Inventory == [f \in File |-> IF Config[f] = None THEN None ELSE Build(Config[f])]

Population ==
    [f \in File |-> IF Inventory[f] = None THEN None ELSE PlaceAgents(Inventory[f], Config[f])]

\* run.New: the network is built and the agents are placed on it, then the
\* clock must divide the day.
Ready(f) ==
    /\ Inventory[f] # None /\ NetworkValid(Inventory[f].sites, Inventory[f].cells)
    /\ Population[f] # None
    /\ ClockValid(Config[f].simulation.tickMinutes) /\ ProfileNormalised

Pairs ==
    LET Of(f) == [t \in 0 .. Ticks(Config[f]) - 1 |->
                     PairsOfTick(Inventory[f], Config[f], Population[f], t)]
    IN  [f \in {g \in File : Ready(g)} |-> Of(f)]

AllPairs(ticks) == UNION {Range(ticks[t]) : t \in DOMAIN ticks}

\* The missing value is no record; powers are whole where an agent measures
\* them, and the draws of a slot are in thousandths.
ASSUME ValuesAssumption ==
    /\ None \notin Message
    /\ \A f \in File : Config[f] # None => Typed(Config[f])
    /\ \A f \in File : Ready(f) =>
         \A i \in 0 .. Config[f].simulation.agents - 1, t \in 0 .. Ticks(Config[f]) - 1 :
           /\ \A k \in DOMAIN Inventory[f].cells :
                RxDBm(Inventory[f].cells[k],
                      PositionAt(Population[f][i], Config[f].simulation.tickMinutes, t)) \in Int
           /\ \A purpose \in {"split", "type", "inject", "rule", "swap"}, seq \in 0 .. MaxEventsPerTick - 1 :
                Draw(purpose, i, Slot(t, seq)) \in 0 .. Mille - 1

VARIABLES
    pc,            \* where the process is
    reason,        \* why the last process ended
    file,          \* the file of the process
    starts,        \* processes started
    faults,        \* failures so far
    signals,       \* interrupts so far
    cancelled,     \* the context of the process
    tick,          \* the tick the process is in
    batch,         \* pairs not yet published
    todo,          \* pairs of this tick not yet in the batch
    stats,         \* what Run counts
    announced,     \* HTS_RUN_ID is printed
    dbFile,        \* the file whose inventory the database holds, or None
    finished,      \* published_events of the finished run, or None
    cacheCells,    \* cells in the cache, a prefix of the inventory
    cacheSites,    \* the site index is in the cache
    recordTopic,   \* hts.records
    truthTopic,    \* hts.groundtruth
    producers,     \* the processes that published anything
    held,          \* cells the detector loaded, or None
    stored         \* the tables, once the topics are drained, or None

process == <<pc, reason, file, tick, batch, todo, stats>>
environment == <<starts, faults, signals, cancelled>>
storage == <<dbFile, finished, cacheCells, cacheSites>>
topics == <<recordTopic, truthTopic, producers>>
readers == <<held, stored>>
vars == <<process, environment, storage, topics, readers, announced>>

CellsOf(f) == Inventory[f].cells

NoStats == [records |-> 0, truths |-> 0]

Init ==
    /\ pc = "off" /\ reason = None /\ file = None
    /\ starts = 0 /\ faults = 0 /\ signals = 0 /\ cancelled = FALSE
    /\ tick = 0 /\ batch = <<>> /\ todo = <<>> /\ stats = NoStats
    /\ announced = FALSE /\ dbFile = None /\ finished = None
    /\ cacheCells = 0 /\ cacheSites = FALSE
    /\ recordTopic = {} /\ truthTopic = {} /\ producers = {}
    /\ held = None /\ stored = None

(* --- helpers ------------------------------------------------------------- *)

Goto(label) == pc' = label /\ UNCHANGED <<reason, file, tick, batch, todo, stats>>

\* execute returns, with an error or without.
Stop(why) == pc' = "off" /\ reason' = why /\ UNCHANGED <<file, tick, batch, todo, stats>>

\* A call fails: the service is at fault, or the context is cancelled.
Fails ==
    /\ \/ cancelled /\ UNCHANGED faults
       \/ faults < Faults /\ faults' = faults + 1
    /\ UNCHANGED <<starts, signals, cancelled>>

Works == ~cancelled /\ UNCHANGED environment

(* --- the process starts -------------------------------------------------- *)

\* A process is started, while the tables are still being filled.
Start(f) ==
    /\ pc = "off" /\ starts < Starts /\ stored = None
    /\ pc' = "config" /\ reason' = None /\ file' = f
    /\ tick' = 0 /\ batch' = <<>> /\ todo' = <<>> /\ stats' = NoStats
    /\ starts' = starts + 1 /\ cancelled' = FALSE
    /\ UNCHANGED <<faults, signals, storage, topics, readers, announced>>

ReadConfig ==
    /\ pc = "config"
    /\ IF Config[file] = None THEN Stop("config") ELSE Goto("connect")
    /\ UNCHANGED <<environment, storage, topics, readers, announced>>

\* The salt, the database and the cache.
Connect ==
    /\ pc = "connect"
    /\ \/ Works /\ Goto("build")
       \/ Fails /\ Stop("connect")
    /\ UNCHANGED <<storage, topics, readers, announced>>

BuildInventory ==
    /\ pc = "build"
    /\ IF Inventory[file] = None THEN Stop("inventory") ELSE Goto("database")
    /\ UNCHANGED <<environment, storage, topics, readers, announced>>

(* --- Store.Persist ------------------------------------------------------- *)

\* One transaction for the run and its cells.  The row of the run may be there
\* already; the cells of an earlier process with this run id may not.
InsertRunWithCells ==
    /\ pc = "database" /\ Works
    /\ IF dbFile = None THEN dbFile' = file /\ Goto("cells") ELSE UNCHANGED dbFile /\ Stop("exists")
    /\ UNCHANGED <<finished, cacheCells, cacheSites, topics, readers, announced>>

\* The transaction is rolled back, or committed without the process knowing.
InsertFails ==
    /\ pc = "database" /\ Fails /\ Stop("database")
    /\ dbFile' \in {dbFile, IF dbFile = None THEN file ELSE dbFile}
    /\ UNCHANGED <<finished, cacheCells, cacheSites, topics, readers, announced>>

\* The pipeline is no transaction: its first commands can be seen, and stay
\* when it breaks.
LoadSomeCells ==
    /\ pc = "cells" /\ cacheCells = 0
    /\ cacheCells' \in {1, Len(CellsOf(file)) - 1}
    /\ UNCHANGED <<process, environment, dbFile, finished, cacheSites, topics, readers, announced>>

\* Mutant: a cache that cannot be filled is no reason to stop.
BulkLoadCellsOrGoOn ==
    /\ pc = "cells"
    /\ \/ Works /\ cacheCells' = Len(CellsOf(file)) /\ Goto("sites")
       \/ Fails /\ UNCHANGED cacheCells /\ Goto("setup")
    /\ UNCHANGED <<dbFile, finished, cacheSites, topics, readers, announced>>

BulkLoadCells ==
    /\ pc = "cells"
    /\ \/ Works /\ cacheCells' = Len(CellsOf(file)) /\ Goto("sites")
       \/ Fails /\ UNCHANGED cacheCells /\ Stop("cache")
    /\ UNCHANGED <<dbFile, finished, cacheSites, topics, readers, announced>>

BulkLoadSites ==
    /\ pc = "sites"
    /\ \/ Works /\ cacheSites' = TRUE /\ Goto("setup")
       \/ Fails /\ cacheSites' \in {cacheSites, TRUE} /\ Stop("cache")
    /\ UNCHANGED <<dbFile, finished, cacheCells, topics, readers, announced>>

(* --- run.New and Run ------------------------------------------------------ *)

Setup ==
    /\ pc = "setup"
    /\ IF Ready(file) THEN announced' = TRUE /\ Goto("tick") ELSE UNCHANGED announced /\ Stop("setup")
    /\ UNCHANGED <<environment, storage, topics, readers>>

\* Mutant: an interrupt ends the loop like the last tick does.
BeginTickOrComplete ==
    /\ pc = "tick" /\ tick < Ticks(Config[file])
    /\ IF cancelled THEN Goto("complete")
       ELSE /\ pc' = "events" /\ todo' = Pairs[file][tick]
            /\ UNCHANGED <<reason, file, tick, batch, stats>>
    /\ UNCHANGED <<environment, storage, topics, readers, announced>>

\* The head of the loop: the context is looked at, the world moves on.
BeginTick ==
    /\ pc = "tick" /\ tick < Ticks(Config[file])
    /\ IF cancelled THEN Stop("interrupted")
       ELSE /\ pc' = "events" /\ todo' = Pairs[file][tick]
            /\ UNCHANGED <<reason, file, tick, batch, stats>>
    /\ UNCHANGED <<environment, storage, topics, readers, announced>>

\* Mutant: the batch is full one pair too late.
EmitOneMore ==
    /\ pc = "events" /\ todo # <<>>
    /\ batch' = Append(batch, Head(todo)) /\ todo' = Tail(todo)
    /\ pc' = IF Len(batch) >= BatchPairs THEN "flush" ELSE "events"
    /\ UNCHANGED <<reason, file, tick, stats, environment, storage, topics, readers, announced>>

\* The next pair of the tick goes to the batch, a full batch to the topics.
Emit ==
    /\ pc = "events" /\ todo # <<>>
    /\ batch' = Append(batch, Head(todo)) /\ todo' = Tail(todo)
    /\ pc' = IF Len(batch) + 1 >= BatchPairs THEN "flush" ELSE "events"
    /\ UNCHANGED <<reason, file, tick, stats, environment, storage, topics, readers, announced>>

EndTick ==
    /\ pc = "events" /\ todo = <<>>
    /\ tick' = tick + 1 /\ pc' = "tick"
    /\ UNCHANGED <<reason, file, batch, todo, stats, environment, storage, topics, readers, announced>>

\* After the last tick what is left of the batch goes out, if anything is.
EndRun ==
    /\ pc = "tick" /\ tick = Ticks(Config[file])
    /\ Goto(IF batch = <<>> THEN "complete" ELSE "flush")
    /\ UNCHANGED <<environment, storage, topics, readers, announced>>

(* --- Publisher.Publish ---------------------------------------------------- *)

Truths(pairs) == {pairs[i].truth : i \in DOMAIN pairs}

Records(pairs) == {pairs[i].record : i \in {k \in DOMAIN pairs : pairs[k].record # None}}

\* Every truth and every record there is, and only then the counters.
Flush ==
    /\ pc = "flush" /\ Works
    /\ truthTopic' = truthTopic \cup Truths(batch)
    /\ recordTopic' = recordTopic \cup Records(batch)
    /\ producers' = producers \cup {starts}
    /\ stats' = [records |-> stats.records + Cardinality(Records(batch)),
                 truths |-> stats.truths + Len(batch)]
    /\ batch' = <<>>
    /\ pc' = IF tick = Ticks(Config[file]) THEN "complete" ELSE "events"
    /\ UNCHANGED <<reason, file, tick, todo, storage, readers, announced>>

\* A batch that fails may be out in any part: the broker answers message by
\* message.  The process ends and nothing is counted.
FlushFails ==
    /\ pc = "flush" /\ Fails /\ Stop("publish")
    /\ \E part \in SUBSET Truths(batch), rest \in SUBSET Records(batch) :
         /\ truthTopic' = truthTopic \cup part
         /\ recordTopic' = recordTopic \cup rest
         /\ producers' = IF part \cup rest = {} THEN producers ELSE producers \cup {starts}
    /\ UNCHANGED <<storage, readers, announced>>

(* --- CompleteRun ------------------------------------------------------------ *)

\* Under a context of its own: an interrupt after the last batch changes nothing.
CompleteRun ==
    /\ pc = "complete"
    /\ finished' = stats.records
    /\ Stop("done")
    /\ UNCHANGED <<environment, dbFile, cacheCells, cacheSites, topics, readers, announced>>

CompleteFails ==
    /\ pc = "complete" /\ faults < Faults /\ faults' = faults + 1
    /\ finished' \in {finished, stats.records}
    /\ Stop("complete")
    /\ UNCHANGED <<starts, signals, cancelled, dbFile, cacheCells, cacheSites, topics, readers, announced>>

(* --- the environment --------------------------------------------------------- *)

Interrupt ==
    /\ pc # "off" /\ ~cancelled /\ signals < Signals
    /\ cancelled' = TRUE /\ signals' = signals + 1
    /\ UNCHANGED <<process, starts, faults, storage, topics, readers, announced>>

Crash ==
    /\ pc # "off" /\ faults < Faults
    /\ faults' = faults + 1 /\ Stop("crash")
    /\ UNCHANGED <<starts, signals, cancelled, storage, topics, readers, announced>>

\* The cache keeps nothing over a restart.
CacheRestarts ==
    /\ faults < Faults /\ cacheCells > 0
    /\ faults' = faults + 1
    /\ cacheCells' = 0 /\ cacheSites' = FALSE
    /\ UNCHANGED <<process, starts, signals, cancelled, dbFile, finished, topics, readers, announced>>

(* --- the readers ------------------------------------------------------------- *)

\* A detector is started with the announced run id.  What the cache holds is
\* taken for the inventory; the database is asked only when it holds nothing.
LoadInventory ==
    /\ announced /\ held = None
    /\ LET run == CellsOf(dbFile)
       IN  held' = {run[i].id : i \in IF cacheCells > 0 THEN 1 .. cacheCells ELSE DOMAIN run}
    /\ UNCHANGED <<process, environment, storage, topics, stored, announced>>

\* The persisters have read everything once the last process is off, after
\* which none is started; a row that the database refuses is lost.
Drain ==
    /\ pc = "off" /\ finished # None /\ stored = None
    /\ \E lostRecords \in SUBSET recordTopic, lostTruths \in SUBSET truthTopic :
         /\ Cardinality(lostRecords) + Cardinality(lostTruths) <= Losses
         /\ stored' = [records |-> recordTopic \ lostRecords, truths |-> truthTopic \ lostTruths]
    /\ UNCHANGED <<process, environment, storage, topics, held, announced>>

Step ==
    \/ ReadConfig \/ Connect \/ BuildInventory \/ InsertRunWithCells \/ InsertFails
    \/ BulkLoadCells \/ BulkLoadSites \/ Setup \/ BeginTick \/ Emit \/ EndTick \/ EndRun
    \/ Flush \/ FlushFails \/ CompleteRun \/ CompleteFails

Next ==
    \/ Step
    \/ \E f \in File : Start(f)
    \/ LoadSomeCells \/ Interrupt \/ Crash \/ CacheRestarts \/ LoadInventory \/ Drain

\* A running process takes its next step; nothing starts one.
Spec == Init /\ [][Next]_vars /\ WF_vars(Step)

(* --- verify_integrity ---------------------------------------------------------- *)

Events(rows) == {r.event : r \in rows}

\* Check 1: records without ground truth.
RecordsWithoutTruth == Events(stored.records) \ Events(stored.truths)

\* Check 2: ground truth without a record, the deleted ones (rule 4) aside.
TruthsWithoutRecord ==
    {g.event : g \in {t \in stored.truths : t.injectedRule # Gap}} \ Events(stored.records)

\* Mutant: fewer records than published are still on their way.
PublishedAtLeastStored == finished >= Cardinality(stored.records)

\* Check 3: published and stored records.
PublishedVsStored == finished = Cardinality(stored.records)

Verified == RecordsWithoutTruth = {} /\ TruthsWithoutRecord = {} /\ PublishedVsStored

(* --- properties ------------------------------------------------------------------ *)

\* Every part of the state keeps its type and stays within its bounds.
TypeOK ==
    /\ pc \in {"off", "config", "connect", "build", "database", "cells", "sites", "setup", "tick",
               "events", "flush", "complete"}
    /\ file \in File \cup {None} /\ dbFile \in File \cup {None}
    /\ starts \in 0 .. Starts /\ faults \in 0 .. Faults /\ signals \in 0 .. Signals
    /\ cancelled \in BOOLEAN /\ announced \in BOOLEAN /\ cacheSites \in BOOLEAN
    /\ Len(batch) <= BatchPairs /\ tick \in Nat /\ cacheCells \in Nat
    /\ stats \in [records : Nat, truths : Nat] /\ finished \in Nat \cup {None}
    /\ producers \subseteq 1 .. Starts

\* A record is never ahead of its network: whatever process died, whatever was
\* started again, once anything is published the database holds the inventory
\* it was made with, every cell a record names is in it, but for the ones
\* made up (rule 1), and all messages of the run come from one process.  A
\* detector of an announced run holds every cell of the run, also when the
\* cache was only filled in part by a process that died, or was restarted.
InventoryAgrees ==
    /\ truthTopic \cup recordTopic # {} => dbFile # None /\ Cardinality(producers) = 1
    /\ \A r \in recordTopic :
         \/ r.cell \in CellIds(Inventory[dbFile])
         \/ \A g \in truthTopic : g.event = r.event => g.injectedRule = FakeCell
    /\ held # None => held = CellIds(Inventory[dbFile])


Holds(pairs) == /\ truthTopic = {p.truth : p \in pairs}
                /\ recordTopic = {p.record : p \in pairs} \ {None}

\* A run that is marked as finished is whole: every event of every tick is
\* out, with its truth, and published_events is the number of its records.
FinishedRunIsWhole ==
    finished # None =>
        /\ Holds(AllPairs(Pairs[dbFile]))
        /\ finished = Cardinality(recordTopic)

\* A jump can be seen from the Timing Advance: the position lies outside the
\* ring that the record has around the cell it was moved to.  Nothing in the
\* code sees to it (on a network of one site a jump moves nothing).
JumpsShow ==
    \A f \in File : Ready(f) =>
      \A p \in AllPairs(Pairs[f]) :
        p.truth.injectedRule = Jump /\ p.record # None /\ Config[f].timingAdvance.enabled =>
          ~RingContains(Ring(p.record.ta, Config[f].timingAdvance.technology),
                        Distance(p.truth.location, CellOf(Inventory[f], p.record.cell).enu))

\* The manipulation that a label names, and no other, seen from the two
\* messages alone.
Shows(rule, r, g, inv) ==
    LET ta == Config[dbFile].timingAdvance
        InRing == RingContains(Ring(r.ta, ta.technology), Distance(g.location, CellOf(inv, r.cell).enu))
    IN  /\ rule \in {Absent, FakeCell, Jump, TimeShift, DeviceSwap}
        /\ rule = FakeCell <=> r.cell \notin CellIds(inv)
        /\ rule = TimeShift <=> r.time # g.time
        /\ rule = DeviceSwap <=> r.imei # g.agent
        /\ ta.enabled => (rule = Absent => InRing) /\ (rule = Jump => ~InRing)

\* The label of the ground truth tells what was done to the record: a record
\* of an unlabelled event is at a cell of the run, at its time, with its
\* device, and the ring of its Timing Advance holds the true position; a
\* labelled one shows its manipulation and no other; and an event has no
\* record exactly when it is outside coverage or labelled as deleted.
LabelsTellTheTruth ==
    /\ \A g \in truthTopic, r \in recordTopic :
         g.event = r.event => g.covered /\ r.msisdn = g.agent /\ Shows(g.injectedRule, r, g, Inventory[dbFile])
    /\ finished # None =>
         \A g \in truthTopic :
           g.event \in Events(recordTopic) <=> g.covered /\ g.injectedRule # Gap

\* What the checks of a finished run say: they pass exactly when every record
\* was stored, each with its ground truth, and no stored event lies outside
\* coverage.  A lost record always shows, whatever else was lost with it; but
\* an event outside coverage fails check 2, as if its record had been lost.
VerifiedIffWhole ==
    stored # None =>
        (Verified <=> /\ stored.records = recordTopic
                      /\ Events(recordTopic) \subseteq Events(stored.truths)
                      /\ \A g \in stored.truths : g.covered)

\* The numbers of sites that a disk can hold, whatever the distance.
SiteCounts == {Cardinality({n \in (-6 .. 6) \X (-6 .. 6) : Square(n[1]) + n[1] * n[2] + Square(n[2]) <= m}) : m \in 0 .. 27}

\* What a scenario needs besides the checks of its file: a number of sites
\* within its interval, ticks that divide the day, work within the area.
Feasible(f) ==
    /\ Config[f] # None
    /\ \E n \in SiteCounts : n \in Config[f].network.sitesMin .. Config[f].network.sitesMax
    /\ MinutesPerDay % Config[f].simulation.tickMinutes = 0
    /\ Config[f].profile.homeWorkMinKM <= 2 * Config[f].profile.areaRadiusKM

\* The first process of a feasible scenario, left alone, finishes its run.
FeasibleRunFinishes ==
    pc = "config" /\ starts = 1 /\ Feasible(file) ~> finished # None \/ faults > 0 \/ signals > 0
=============================================================================
