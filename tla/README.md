# hts-kga: specification and proofs

TLA+ models of the hts-kga services, TLC configurations that check them on small
instances, and TLAPS proofs about the models of the three Kafka consumers, the two
integrity phases together, the simulator's process and worker pool, the network and the
events it makes, the measurement of a run, the calibration's search and the gateway.
`PROJECT.json` maps every definition to the lines it translates.

## 1. The system

A simulator produces call records (HTS records) and their ground truth; four
services store, analyse, audit and measure them. They meet only in Kafka topics
and database tables, and every row and message carries the identity of its run.

| part | state | operations | talks to |
|---|---|---|---|
| simulator S1 (`cmd/simulator`, `internal/simulator`) | agents in two buffers, batch of pairs, counters | `Persist` inventory, `Tick`, `Build`, injector `Apply`, `Publish`, `CompleteRun` | writes `cells`, `run_config`, Redis; produces `hts.records`, `hts.groundtruth` |
| persisters S1b, S3a (`cmd/persister`, `internal/persist`) | batch, idle clock, group offset | poll, decode, chunked `Write`, `writeIndividually`, commit | the two topics to `hts_records`, `ground_truth` |
| analysis engine S2 (`cmd/analysis-engine`, `internal/analysis`) | row buffer, counters, group offset; sampling policy | poll, `Includes`, `Process`, `Handle`, `Flush`, commit, `SetAnalyzedEvents` | `hts.records`, Redis, `estimates`, `run_config` |
| integrity service S4 (`cmd/integrity`, `internal/integrity`) | claim ledger, watermarks, finding buffer, counters, group offset | stream: `Observe`, `Flush`, commit, `SetInspectedRecords`; batch: `LoadClaims`, `CheckPrecondition`, `Evaluate`, `Flush` | `hts.records`, `hts_records`, `integrity_findings`, `run_config` |
| validation S3b (`cmd/validation`, `internal/validation`) | bisection interval, report | preconditions, `bisect`, `SetLambda`, metric rows, precision and recall | all tables |
| gateway (`cmd/gateway`, `internal/gateway`) | counters | read-only REST and gRPC queries, an audit row per request | all tables |
| run lifecycle (`storage/postgres/runs.go`, `migrations`) | `finished_at`, `published_events`, `analyzed_events`, `inspected_records`, `lambda` | one writer per column; `verify_integrity` with five checks | everyone |

`scripts/run-integrity.sh` fixes the order: simulation; persisters and stream phase
side by side; batch phase; measurement; `verify_integrity`. `run-scenario.sh` puts the
analysis and the calibration before the measurement.

What is hard here:

- **At-least-once delivery.** Offsets are committed by hand after the writes. A crash,
  a failed commit or a lost group session delivers a batch again: to a new process
  with empty memory, or to the same process with the memory of the first time. Two of
  the tables take a row twice without complaint (`ON CONFLICT DO NOTHING`); `estimates`
  does not.
- **State beside the offsets.** Watermarks, the claim ledger and the counters live in
  process memory; the offsets they belong to live in the broker.
- **Buffers.** They are written when full, in the middle of a poll, and once more before
  the commit; a write may fail after the database has done it.
- **Handover through counters.** One service decides from another's counter that the
  other is through. The counter is written whatever happened to the data.
- **Giving up.** The persister gives up rows, the analysis consumer gives up buffers;
  checks over counters are meant to make this visible.
- **Threads.** Only the agent world is parallel: a pool of workers over two buffers, without
  a lock, from which the same run must come out every time.
- **One run, many writers.** The inventory goes to the database and to the cache, a batch
  to two topics, a run is marked as finished when it is out; any of these may happen in
  part, and a process may be started again with the run id of a dead one.
- **Measuring what moves.** Validation and gateway read tables statement by statement
  while others write them, and rewrite their own results without a key or a transaction.
- **Search.** The calibration bisects a curve that it takes to be rising; the inventory
  bisects a step function.
- **Idle exit and signals.** The batch scripts rely on consumers that stop by
  themselves; SIGTERM cancels calls in flight.

What makes each component correct is in section 4, what is left out in section 8.
Every hazard is listed in `PROJECT.json` at its line.

## 2. Modules

| module | models |
|---|---|
| `TopicConsumer` | abstract: what every consumer promises of its topic. Records become settled and stay so; the committed offset moves forward only, over settled records |
| `RecordPersister` | `persist/consumer.go` in both roles; implements `TopicConsumer` |
| `AnalysisConsumer` | `analysis/driver/consumer.go`, `persist.go`, the tail of `cmd/analysis-engine`, check four; implements `TopicConsumer` |
| `IntegrityRule` | rules, classes and their strength (`pkg/integrityrule`) |
| `FindingEngine` | pure part of the finding engine: which rule wins, which rows an event gets, what the table takes or refuses |
| `IntegrityStream` | `source/stream.go`, `detector` and `runStream`; extends `FindingEngine`, implements `TopicConsumer` |
| `IntegrityBatch` | `source/batch.go` and `runBatch`, over the same tables |
| `IntegrityPhases` | both phases with `CompleteRun` and the records persister's progress; implements `ClaimLedger` |
| `ClaimLedger` | abstract: an event has at most one owner, stream rules first, by strength, and an owner is never replaced |
| `SerialWorld` | abstract: one tick after the other, every agent moved once, by one goroutine (`TickSerial`) |
| `AgentWorld` | `agent/doublebuf.go`, `agent/world.go` and the tick loop of `run/run.go`; implements `SerialWorld` |
| `Scenario` | `config/scenario.go`, `profile.go`: profiles, overrides, defaults, what a scenario file is refused for |
| `HexGrid` | points and the hexagonal lattice (`pkg/geo`) |
| `Radio` | link budget, range of a sector, network, best server (`internal/rf`, `simulator/radio`) |
| `CellInventory` | sites, sectors, bands and ranges (`simulator/inventory`) |
| `AgentRoutine` | homes, work, departure, position at a tick (`simulator/agent`) |
| `EventPair` | how many events, their record and ground truth, the injected manipulation (`simulator/event`) |
| `SimulatorRun` | `cmd/simulator`, `run/run.go`, `inventory/store.go`, the producer, the detector's inventory, checks one to three; over the six modules above |
| `Sampling` | split, thinning and exact sample (`pkg/split`, `analysis/sampling`) |
| `Measures` | the measuring queries F.1 to F.5 on finite tables |
| `Bisection` | the calibration's search and `SetLambda` |
| `Validation` | `cmd/validation`, `validation/pipeline`, one statement at a time, and the writers as seen from their tables |
| `Gateway` | `internal/gateway`, `cmd/gateway`: filters, queries, audit, status, shutdown |
| `Measurement` | writers, jobs, search and gateway together |
| `RecordPersisterProofs`, `AnalysisConsumerProofs`, `IntegrityStreamProofs`, `IntegrityPhasesProofs`, `AgentWorldProofs`, `MeasurementProofs`, `EventPairProofs`, `SimulatorRunProofs` | theorems and proofs |
| `MC...` | instances for TLC |

**The consumers.** All three have the variables `hw` (records in the topic), `committed`,
`upto` (end of the poll in hand), `owned` (the session that served the poll is alive) and
`pc`. A process is `"down"` or somewhere in its loop; what a death or a return leaves is
one operator (`Leave`, `Forget`). `Poll` takes any non-empty part of what is waiting, so
every way of cutting the topic into batches is covered. Faults are actions or
alternatives that use up a budget (`faults`, `Limit`): the kinds are `crash` (SIGKILL,
panic, power), `session` (the group takes the partitions away), `sink` (a statement
reports an error, having been executed or not), `broker` (a commit or fetch reports an
error, the commit having happened or not) and `signal` (SIGTERM, or in the stream phase
an interruption of the loop). Errors that the code's own state causes, such as a
refused row or a cancelled context, cost nothing and always happen.

*RecordPersister.* `Poll` includes the decoding, because nothing happens between the two;
`batch` is what is not yet written, `rows` the chunk that is retried row by row.
`WriteChunk`, `RefuseChunk`, `WriteRow`, `RefuseRow` are the branches of `flush` and
`writeIndividually`, `WriteCancelled` their return under a cancelled context.
`late` abstracts the idle clock: the writes of the last batch took longer than the idle
timeout.

*AnalysisConsumer.* Records are taken one by one, `done` counting them, because a full
buffer is written inside the loop. `Unwritable` events have a row that is malformed: the
decoder checks three identifiers only, so a record without a time or with an unknown scenario
is buffered, and its statement is refused at every delivery. `HandleFails` is a write that fails
there (logged and passed over), `FlushFails` one that fails before the commit (the process ends).
`dropped` is a history variable: positions whose rows were in a buffer lost by
`HandleFails`. `Declare` is `SetAnalyzedEvents` after `Run` has returned.

*IntegrityStream.* `claims`, `watermark`, `buffer` and `seen` are the engine's memory;
`findings` and `inspected` are in the database. `Observe` is one record through rules 1
and 3, the ledger, the buffer and, if it fills, the write. Records of other runs and
undecodable ones pass by (`Skip`). What a rule finds in a record is an input
(`Unknown`, `TimeOf`); how the findings then compete is the code's.

*IntegrityBatch* reads and checks in the order of `runBatch`: ledger, status, count,
scan. `Scan` is the order in which subscribers are evaluated.

*AgentWorld.* `buf` and `cur` are the two arrays and which of them is `b.cur`; `jobs` is
the channel, a set because any worker may receive next and a range's place in the queue
makes no difference; `wg` is the WaitGroup. A worker computes (`Compute`: reads the agent
and the tick) and stores (`Store`: writes the observation and the other buffer) in two
steps, so that another worker or the tick loop can come in between. `Mobility.Advance` and
`Selector.Select` read nothing but their arguments and seeds, and are parameters. A variable
of the inner loop goes back to its initial value with the range.

*SimulatorRun* has two halves. What a scenario leads to is computed, not stepped through:
`Config`, `Inventory`, `Population` and `Pairs` are functions of the file, because in the
code they are deterministic functions of file and seed. They are translated down to the
arithmetic: metres, dB and thousandths where the code has floating point. The random
streams (`Draw`, `DiskPoint`, `Toward`), path loss, antenna pattern, shadowing and the
exponential are constants. The other half is the process: `pc` names the step of `execute`
or `Runner.Run` it is at, each step that calls a service has its failure, and a failure may
leave the service's work done, undone or, where it is not atomic, in part. `storage` is what
the database and the cache hold, `topics` what is out. A process is killed, interrupted and
started again with the same run id. `LoadInventory` is the detector's start, `Drain` what
the persisters make of the topics.

*Validation* sees the services of the other models from their tables: `records`, `truths`,
`estimate` (each event's lambda, 0 for no rows), `findings` and the counters in `run`. What
a writer may do there is a summary of its own model: `EngineLoses` and `EngineMisjudges` are the two
outcomes of `HandleFails` in `AnalysisConsumer`, a full buffer not written or written although an
error was reported; `EngineBreaks` is its `FlushFails`, with both outcomes. `Massless` events have a
record no mass can be made for: the engine passes over them, and neither estimates nor counts them.
A job is a record with a program
counter; each of its statements is an action, since it is one in PostgreSQL. Every calibrating
job starts a search of its own over the run's curve, one at a time. *Bisection*
counts lambda on a grid that holds all midpoints, so that division by two is exact.

*Gateway* takes one request at a time; writers interleave with it, and requests do not share
state. A request says of each filter whether it is good, missing, malformed or refused, and
the handlers are sequences of refusals of which the first is answered.

## 3. Runs

| run | configuration | asks |
|---|---|---|
| `faults` | `MCIntegrityStream_faults` | is the stream phase sound when a new process takes over after any fault? |
| `redelivery` | `MCIntegrityStream_redelivery` | ... and when the same process gets the records again? Is the topic consumed in the end? |
| `script` | `MCIntegrityPhases_script` | do both phases, in the script's order, implement the claim ledger? |
| `persister` | `MCRecordPersister_faults` | does the persister lose a record in silence, or more than a failure explains? Is the topic stored in the end? |
| `analysis` | `MCAnalysisConsumer_faults` | same for the analysis; when does a loss show in the counters? |
| `pool` | `MCAgentWorld_pool` | does the pool compute what one goroutine would, without data races, without hanging, and end with the run? |
| `simulation` | `MCSimulatorRun_simulation` | does what a run publishes, marks and labels agree with its inventory and its truth, whatever fails? Does a feasible scenario get through? |
| `measurement` | `MCMeasurement_measurement` | is what passes the gate measured exactly? Are the rows those of one job, the search sound, the gateway's answers accounted for and right? |
| `gatesink`, `rerun`, `idle`, `silent` | violations | statements of the code's comments the models refute, section 6 |

Bounds. *faults*, *redelivery*: two partitions, one subscriber each, three records per
partition: shifted, unknown-cell, both, foreign and invalid ones; buffer of two rows;
one fault of each kind (in *redelivery*, one crash and one session loss, with a
clean record that masks two shifted ones). Two subscribers suffice because
watermarks and ledger entries are per subscriber and per event; three records are the
least that put a record behind a shifted one. *script*: four events that between them are
hit by each pair of phases and each pair of batch rules; a buffer of three, which one
subscriber fills and the other does not; one crash and one failed write
in each phase, one rerun. *persister*: six records, chunks of two, two failed
statements, so that a chunk and a row of its retry can both fail. *analysis*: three events, a record that is passed over
and a malformed one, and a buffer of two events, so that a poll ends with a full, a partly filled
or an empty buffer, a replay can overlap a stored buffer by one event, and the malformed record
meets a full buffer or the end of a poll; as it comes last, every run without it is covered, too. *pool*: five agents on four
workers, which gives ranges of two, two, one and no agents, and three ticks, so that each
buffer is read again after it was written; an agent's state is the history of its
updates. *simulation*: six scenario files, one of which runs to its end (`day`) and five
that fail at a different place each (a number of sites no lattice has, ticks that do not divide
a day, work too far away, an unknown field, wrong weights); seven sites with three sectors,
two agents, three ticks, draws that give one event without manipulation, one of every rule and
one outside coverage; batches of three pairs, so that a batch spans ticks and the last one
is short; two processes, two failures, one interrupt, three lost messages. Three losses are
what it takes to hide a lost record from two of the three checks. *measurement*: seven events
(three in V, one of them thinned out; one in C; one recorded under a cell that does not exist, so
without a mass; a deleted one; one never covered) and eleven casts of writers, jobs, searches and
requests, each with its own budget of faults: one has two failing engine statements, so that a
misjudged buffer can hide a lost one, another has two jobs that calibrate one after the other; two
iterations of the search over every rising curve on a grid of nine with four levels, and two
that do not rise; engine buffers of two events, a limit of three geometries and two
subscribers to a cell, so that every limit is met from both sides. The casts keep apart what
does not interact; where two parts share a table some cast has both. The
offset and fault budgets are the only caps; the code's counters are bounded by them.

Deadlock is not checked in *redelivery* (without an idle timeout the drained system rests
with every process waiting), nor in *simulation* and *measurement* (all processes end).

## 4. Properties

`TypeOK` and `PhasesTypeOK` are the type invariants; those of the
consumers hold the order `committed <= done <= upto <= hw` as well, that of the pool says
that the WaitGroup is never negative, which panics.

- `KeepsOffsetDiscipline` (all consumers): the component implements `TopicConsumer`. This
  is the one promise ADR-01 makes for all three, with three meanings of "settled": stored
  or reported (persister); estimated, outside the sample or dropped (analysis); owned by
  its canonical finding if rule 1 applies (integrity).
- `CommittedStoredOrReported`, `CommittedEstimatedOrDropped`, `CommittedInventoryHitsStored`:
  the state versions of the same, which the proofs rest on.
- `EachFailureCostsAtMostOneRow`: of the good rows the persister reports as refused there
  are at most as many as statements the database failed. A failed chunk alone costs none.
- `EventuallyPersisted`, `EventuallyCommitted`: with finitely many faults the topic is
  consumed. Poisoned rows, redelivered rows and refused writes do not block it.
- `EventuallyAnalyzed`: the topic is consumed, or again and again the buffer at the end of a
  poll is one the table refuses, because its rows are stored already or one of them is malformed.
  The second case is real for both reasons, see section 6.
- `UndisturbedRunComplete`: without faults and malformed rows no statement is refused and
  nothing is lost, over any number of processes and any cut into polls.
- `OneFailureShows`: in the first process, lost estimates make `analyzed_events` and `estimates`
  disagree, whether any number of statements was refused for malformed rows or a single one failed.
- `OneCanonicalPerEvent`, `SuppressionExplained`: the findings table never holds two owners
  of an event, and a suppressed row's suppressor is there.
- `NoFalseShift`: rule 3 accuses only records that another one overtook in the topic.
- `ShiftsStoredByOneProcess`: while one process runs, every overtaken record has its
  finding when its offset is committed, whatever sessions were lost.
- `GateWithoutFailedWrites`: unless a write failed, a counter that opens the batch phase
  means the stream findings are stored.
- `VerdictComplete`: a batch phase that reports success has stored every hit of both phases.
- `ImplementsLedger`: the two phases together implement `ClaimLedger`.
- `NoDataRace`: no agent is touched by two workers at once, and none by a worker while the
  tick loop is outside `Step`.
- `IsSerial`: agents, coverage counters and the observations that become events are those
  of `SerialWorld`. This is the determinism K10 asks for, on which the replay of a run rests.
- `TickReturns`, `PoolEnds`: a tick begun gets to its events; no worker outlives the run.

- `InventoryAgrees`: what is published names cells of the inventory in the database, from one
  process only; a detector holds the whole inventory or none, although it takes any cell in
  the cache for all of it.
- `FinishedRunIsWhole`: a run marked as finished has every event of every tick in its topic,
  with its truth, and counts its records exactly.
- `LabelsTellTheTruth`: the label of a truth can be seen in the record, and no other
  manipulation can; an event has no record exactly when uncovered or deleted.
- `VerifiedIffWhole`: checks one to three pass exactly for a run stored whole. One event
  outside coverage makes check two fail, though: the query leaves out deleted events only.
- `FeasibleRunFinishes`: a feasible scenario, left alone, finishes. The lattice search is what
  could keep it from that.
- `GateIsExact`: the gate refuses no complete run of an engine none of whose writes reported an
  error; of one engine that was not stopped, what passes gives the rows of all events of the sample
  that have a mass, whatever buffers it lost, unless B - 1 writes (B events to a buffer) were
  executed and reported as failed; an integrity row written behind F.5's own gate counts every
  stream finding. Section 6 says what the two exceptions come to.
- `OneRowPerKey`: with jobs that delete first and do not overlap, no row is there twice, at
  whatever statement a job died, and the last job's rows are all there.
- `BisectionSound`: the ends of the interval miss the target on their own side, "converged" is
  never said in vain, no failed search stores a lambda, and a rising curve keeps all its
  answers inside.
- `AnswersAccounted`: one trace per request, before its answer, or a count of one lost that the
  database refused; books balance but for the handlers a shutdown cut off.
- `AnswersAreRight`: a 500 only after a failed statement, a 400 or InvalidArgument only for the
  client's mistake, a map within the limit that agrees with its header unless a writer moved
  the table between its two statements.

`faults` checks `NoFalseShift` without session losses: with them
it is false, which section 6 reports.

## 5. Fairness

The simulator produces (`Publish`), a supervisor restarts a process that is down
(`Start`), and each loop goes on: weak fairness of polling, of the disjunction of a
write's outcomes, and of the commit. That is what the code justifies: no branch of the
loops waits for anything but the broker and the database, and both have time limits.
Success is not assumed where failure is possible: fairness is on `WriteX \/ RefuseX`, and
only the fault budgets make faults finite. In `IntegrityStream` the commit itself is
fair, since its failures are all charged to the budget. Weak fairness of `Idle` says that an
idle persister does stop, and is needed since the loop head cannot poll once the clock
has run out.

In `AgentWorld` the tick loop and each worker are weakly fair: the Go scheduler runs every
goroutine that is not blocked. Nothing says that the run lasts: it may end at any tick.

In `SimulatorRun` the next step of a running process is weakly fair, and nothing else is: no
process needs to be started. `Measurement` has safety properties only.

## 6. Where the code differs from its comments

Found by a run (`PROJECT.json`, findings):

- **gatesink.** `runStream` writes `inspected_records` whatever `Run` returned. After a
  failed last write all records have been counted: the counter equals
  `published_events`, the gate of the batch phase opens, check five is OK, and the
  stream findings of the batch are missing.
- **rerun.** The batch phase loads its own canonical rows as claims, suppresses its own
  rules by themselves and is refused by row validation: it cannot be run twice.
- **idle.** The persister's idle clock includes the time its writes take. The analysis
  consumer had this defect and repaired it.
- **silent.** After a crash between the write and the commit of a batch, the replay is
  refused where it overlaps the stored rows. Each refused full buffer loses its new events
  and adds one less to `analyzed_events` than it holds; the events of the dead process
  are not counted at all. Both errors can cancel out and check four then says OK. With B
  events to a buffer, m buffers refused in the replay and p stored events in the last of
  these, the table has (m - 1)B + p events and the counter m(B - 1): they agree when
  p = B - m, and m events are lost in silence. In the model B = 2, m = 1; in the code
  B = 40 (200 rows), so that a batch of 39 events, stored and not committed, and replayed
  with a 40th is the smallest case. In every other case check four reports the loss.

Seen in the models and recorded as hazards with a note:

- A lost session redelivers records to a process that keeps its watermarks: a clean
  record is accused by rule 3, against the watermark its own successor has set.
- The same redelivery makes an event meet its own claim; the row names its own rule as
  suppressor and is refused, which ends the process. The next one gets past it.
- Watermarks are not restored by a restart: a shifted record whose overtaker was
  committed by the dead process gets no finding.
- Each stream process writes `inspected_records` with its own count. After a restart in
  mid-topic the count is short for good and the batch phase stays shut.
- With both phases at the same time, the batch phase can load its ledger before and read
  its preconditions after the stream phase's last write: an event gets two canonical
  findings. The script's order excludes this (`Overlap = FALSE`).
- After a crash between the write and the commit, the last buffer of the replayed batch
  may be refused in every new process: the analysis does not get past it by itself.
- One bad message must not stop the flow, says `consumer.go:173-175` of a record that does not
  decode, and so it is. One that decodes and has no time, or a scenario other than A to D,
  is buffered, and `newEstimateArrays` refuses its statement. At the end of a poll that ends `Run`
  before the commit, in every process that follows, without any fault; in a full buffer it is
  passed over and takes the rows of the other events with it.
- A full buffer whose write is executed and reports an error leaves the counter one event short
  of the table. The measurement's gate then refuses a run that lacks nothing, for good. A buffer
  that is lost puts the counter ahead by B - 1 events: as many misjudged writes hide it, and the
  gate and check four let the run pass with B events missing.

Read in the code while modelling the measurement and the simulator, and kept in the models:

- `query/errors.go:3-5` and `:46-49` say that both surfaces classify errors in one place.
  `IsBadRequest` does not know the filters' errors: REST finds them by the first word of the
  message (`rest.go:481`), gRPC answers Internal. REST also turns a method to upper case and
  asks for canonical findings by default, gRPC does neither; a `rule_id` that is no number is
  no filter on the REST surface. `ErrNotFound` is never produced.
- A map is counted and read by two statements. A writer between them can make it larger than
  the limit, and its header wrong.
- gRPC handlers have no limit of their own and `GracefulStop` waits for them without one; REST
  allows 15 s of queries and 3 s of audit, its shutdown 10 s.
- A full job measures F.5 without asking F.5's own gate (`pipeline.go:78-84`, `:214-218`). That
  gate knows nothing of the batch phase, and passes while `published_events` is NULL.
- A sampled record without a mass, such as one moved to a cell that does not exist, is passed over
  with an error in the log. No counter holds it, so that the gate passes and every metric leaves the
  event out.
- The truth gate compares counts: truths of deleted or uncovered events stand in for missing
  ones (`precondition.go:138`).
- The analysis gate compares the engine's own two numbers: an engine stopped by SIGTERM
  passes, so can a second one after losses or with another lambda. A second sample mode under
  the same consumer group sees nothing of what the first went past.
- Calibration writes `run_config.lambda`; the engine takes its lambda from the environment.
- The metrics table has no unique key: jobs without `HTS_RECOMPUTE`, or two at once, leave
  rows twice.
- `coverage.go:123-124` says that skipped events are counted and reported; they are not.
- `publisher.go:53-57` says that the check of a run knows why there are truths without a record,
  outside coverage and for rule 4; check two (`006_integrity_detection.sql:219-231`) knows rule 4
  only and fails for every event outside coverage.
- On a network of one site rule 2 labels a jump that changes nothing.
- A scenario whose ticks do not divide a day, or whose agents find no place, fails after its
  inventory was stored: the run is there, and its id is used up.
- `privacy.hmac_salt_env` is checked and never used; `FilterPartition` is never called.

## 7. Proofs

All theorems hold for every value of the constants allowed by the modules' assumptions:
every topic, kind of record, buffer or chunk size and fault budget, every population and pool,
every curve and iteration limit, every cast and request. They are safety theorems of `Spec`,
without fairness. The assumptions are types (`PersisterAssumption`, `AnalysisAssumption`,
`StreamAssumption`, `NoneAssumption`, `PhasesAssumption`, `WorldAssumption`, `GridAssumption`,
`BisectionAssumption`, `SamplingAssumption`, `OrderAssumption`, `MeasuresAssumption`,
`ValidationAssumption`, `GatewayAssumption`, `MeasurementAssumption`, `SimulatorAssumption`; sets
that are counted are finite) and these facts about the data, each with its source in the comment
beside it: the records of a subscriber share a partition (`KeyAssumption`), every event is
published once (`OnceAssumption`), the batch phase scans records of the same topic
(`ScanAssumption`), and the fields of a scenario that loads have their types, powers are whole
numbers and draws are thousandths (`ValuesAssumption` of `SimulatorRun`). TLC evaluates all of them for the instances of the runs. Where a
theorem needs more, its statement says so.

*IntegrityStreamProofs.* `InductiveInvariant` is about `IInv`, which has seven parts. The
types; table and buffer are sound and agree (`TableSound`, `BufferSound`); a claim in
memory is backed by a canonical row in the table or the buffer (`ClaimsBacked`); what is
observed is settled by the table or by the buffer (`ObservedSafe`), what is committed by
the table alone (`CommittedSafe`); and between batches the buffer is empty, in a process
that is down the ledger too (`NothingInHand`). The key is
that the owner of an event is fixed by the record alone: rule 1 judges a record by
itself and is the stronger of the two stream rules, so whatever a restarted process has
forgotten, it arrives at the same owner. Without that part a redelivered event could get
the other rule as owner, and the invariant would not be inductive. From it follow
`StreamTypeOK`, `OffsetDiscipline`, `OneCanonical`, `SuppressionHolds` and, with a lemma that
the table only grows, the refinement `StreamImplementsConsumer`. Rule 3 depends on what a process
has seen, so its three theorems need invariants of their own. `ShiftsAreReal` (`InOrder`): as long
as no partition was taken from a live process, a watermark is the time of a record further up in
the same partition, so every shift accused is real. `ShiftsAreStored` (`NoneMissed`): while the
first process runs, the watermark covers every record observed, and what it overtakes is in the
buffer or the table. `GateIsSafe` (`CountIsTrue`): without a lost session the counter is at most the
number of positions observed, so it reaches the published number only when all are observed; with
no failed write they are stored. The hypothesis on sessions is in the statements of the first
and the third: section 6 shows the first false without it.

*IntegrityPhasesProofs.* The stream phase alone reads only its own rows; so each step of the two
phases is, on these rows, a step of `IntegrityStream` or a stutter, and what was proved there holds
here through an instance of its proofs (`Base`, from which `PhasesTypes`). `Handover` says what the
batch phase may trust: the stream phase that declared the published number has drained the topic
with its buffer flushed, and one started again finds nothing to write (`StreamLeft`); a scan is
open only after that (`LetIn`). `Verdicts` adds the rows: a batch row is the owner's or names the
owner, an owner in memory is backed by the table or the pending rows, the ledger agrees with both.
From it follow `VerdictIsComplete` and the refinement `PhasesImplementLedger`. Both assume
`Limit["session"] = 0` and `~Overlap`, as the script runs the phases. Neither can go: with both
phases at once an event gets two owners, and a process that loses a session twice observes records
twice and counts them twice, so that the counter opens the gate before the topic is drained.

*RecordPersisterProofs.* `PersisterInvariant` is about `PInv`: the types, and
`NothingForgotten`: every position up to `upto` is stored, reported or still in `batch`,
and outside `write` the batch is empty and `upto = committed`. So the offset moves over
accounted records only. `FailureCost` counts: the set of lost rows grows by at most one, and only
in a step that spends a statement fault. This uses cardinality facts of the library.
`PersisterImplementsConsumer` maps each step to a step or a stutter of `TopicConsumer`.

*AnalysisConsumerProofs.* `AnalysisInvariant` is about `AInv`: the types, and every
analysable position up to `done` is estimated, dropped or in `buffer`, which is empty
outside `batch`, where also `done = upto = committed`. `UndisturbedRun` strengthens it
under the hypothesis that no fault has happened and no malformed record is out: then `dropped` is empty, the session is alive, and an event in the
table has a position up to `done` that is not in the buffer; so every buffer is
acceptable. That part needs the topic to hold each event once (`Distinct`); it is not
inductive without `AInv`, nor across a fault. `AnalysisImplementsConsumer` is the refinement.
`OneFailureIsSeen` follows the first process (`LossShows`): until a statement fails, the counter is
the number of events in the table and the buffer; a full buffer that fails is lost to the table with
all its events, and to the counter with only the one that filled it, so the counter stays ahead for
good (`Traced`), however many more buffers are refused for malformed rows; a failure of the last
write of a batch ends the process. That needs a buffer of more than one event, a hypothesis the code meets with
200 rows at 5 per event; with one event per buffer the counter and the table lose the same event,
and nothing shows.

*AgentWorldProofs.* First the arithmetic: the slices cut the population without gap
(`SlicesCover`) or overlap (`SlicesApart`), for every number of agents and workers. Then
`WInv`: every slice is in one place (not sent, in the channel, with one worker, done); the
WaitGroup is the number of those that are not done; what has been worked on is settled,
that is, holds the agent moved once from the read buffer. `NoDataRace` alone is not
inductive: it needs to know that two workers never hold one slice. When the counter is
zero the whole population is settled and no worker is at work (`BarrierOpens`), so the
exchange is one step of the serial world (`WorldIsSerial`).

*MeasurementProofs.* First the search alone, with two invariants beside the types. `Bracket`: the length of the interval is the
grid's, halved once per iteration that missed, and each moved end misses the target on its own
side; so an answer of a rising curve can never be outside. `Reported`: what is converged was
evaluated and is within the tolerance, and only a finished search has written. The halving
needs `GridAssumption` for the midpoints to be exact (`MidBetween`).

`SearchIsBisection` is a composition: each step of `Measurement` is a step of
`Bisection` or leaves it alone, so `SearchIsSound` carries over (`SearchIsSoundHere`).
`EveryRequestAccounted` is about `BooksInv`: a request in flight is the one arrived and not
answered, and has its trace exactly when it is at its answer (`Booked`); that makes
`AnswersAccounted` inductive. `MeasurementTyped` is about the tables, jobs, budget and history, and
`MeasurementTypeOK` is `TypeOK` itself. `AnswersRight` needs to know what a request in flight owes to
its checks (`Served`): a refused one is malformed, one with an internal error met a failed statement,
and what it counted is what the table holds unless a writer moved it meanwhile.

`RowsAreUnique` is about `RowInv`. A job deletes the rows of its run first and then writes key by
key, the sample before the complement; between two steps the rows in the table and those to write
make up the keys, each once, and a partition not reached is empty of this job's rows (`Progress`).
This holds of the job in progress and of the last one that finished, because jobs that do not
overlap cannot start in between (`RunningJobMoves`). `OneRowPerKey` alone is not inductive: it says
nothing of rows still to come.

`GateExact` is about `GateInv`. The engine's process declares what it counted. Each full buffer that
was written and reported as failed leaves the count one short, each lost one puts it ahead by B - 1.
So count and misjudged writes together make up the table when nothing was lost, and exceed it by
B - 1 at least when something was (`EngineExact`, `CountOK`). A gate that opens therefore has every
event of the sample with a mass in the table, unless B - 1 writes were misjudged (`Sound`). What a job saw before the gate is still true
when it measures, because while no second process starts nothing of a run is taken back
(`Forward`: truths and findings stay, a drained topic stays drained, estimates stay once the engine
is off). Hence the rows a job has in hand, those it has written and the integrity rows are those of
all events of the sample with a mass (`MeasuredExact`, `CountedExact`, `MetricsExact`, `MeasuresExact`).

*SimulatorRunProofs.* `SimulatorInvariant` is about `SInv`. Its control part says who may be where:
the transaction for the run lets a process past it only while nothing is announced, so there is
one process that produces, and a second one with the same run id stops at the transaction, whatever
became of the first (`OneRun`, `OneProducer`); and from the announcement on the cache has all cells
or none (`CacheWhole`), because only a process before the announcement fills it. Its second part
says what is out: the topics hold exactly the pairs that are neither in the batch nor to come
(`Progress`, `Out`), a pair comes once (`TodoOnce`), and the counter is the size of the topic.
`FinishedRunIsWhole` alone is not inductive, since nothing before the mark is said of the topics.
From it follow `FinishedIsWhole`, `NetworkAndRecordsAgree` and `VerifiedExactly`. What a file's
inventory and pairs are is proved, not assumed: a scenario that is ready has cells, and its events
are whole, labelled and numbered apart (`EventsOfRun`), by the theorems of `EventPairProofs`.
`LabelsAreTrue` adds that nothing on the way changes a record or a truth. It has one hypothesis,
`JumpsShow`: a jump moves the record to the farthest cell and keeps the Timing Advance, and nothing
in the code makes sure that the true distance to that cell lies outside the ring of the Timing
Advance; in a network of one site the farthest cell may be at the same mast. Such a jump is a
record that shows no manipulation. TLC evaluates `JumpsShow` for the files of the run `simulation` (`JumpsSeen`).

*EventPairProofs.* What the code computes by loops is here folds and recursive functions, and the
prover cannot apply an induction principle. Every induction is therefore by counterexample: a set
of bad indices has a least one (`NatLeast`, from the well-foundedness of finite sets under
inclusion), and the equation at that index names a smaller one. That a recursive equation has a
solution at all is `Recursion`, for equations that refer to smaller values of a measure only; its
cases are halving an interval (`HalvingSolved`, `HalvingFinds`), trying candidates one by one
(`TriesSolved`, `TriesFind`) and joining sequences (`FlattenExists`, `Flatten`, `ListsJoined`).
The results, for every scenario, field and draw:

- `RootIsExact`: distances are exact integer parts, for all squares within `RootLimit`.
- `CoverIsDisk`: the sites stand on the lattice nodes within the radius, on each once; the box
  that `Cover` looks through is large enough (`DiskReach`).
- `InventoryFitsScenario`: a network that is built keeps the interval of its site number, though the
  count jumps over some intervals (then none is built: `FeasibleRunFinishes`); its cells are three
  on every node, no two of one identity.
- `RangeIsEdge`: the bisection for the range ends where the sector is heard and one metre further
  is not, whatever the path loss and the antenna do between; which of several such edges it finds
  stays open.
- `AgentsPlaced`: homes and workplaces are covered, workplaces are within the area, and the day of
  an agent is in order: at work before it leaves, home before midnight.
- `BuiltPair`, `InjectedPair`, `AgentPairs`: the record of an event is honest before the injection,
  and differs from what was measured by what its label says after it.

Model-checked only: everything temporal under fairness (`Eventually...`, `FeasibleRunFinishes`,
`TickReturns`, `PoolEnds`), which is beyond the prover. Every invariant and action property of the
passing runs is a theorem, or the conclusion of one under hypotheses that its statement names.

## 8. Not modelled

- Mass model, densities, contours and baselines (`internal/analysis/core`, `density`, `geometry`,
  `baseline`): pure functions on real numbers. What validation needs of them are constants of
  `Measures`: from which lambda on a row covers the true position, and how large its area is.
- Propagation formulas, antenna patterns and the shadowing field: constants of `Radio`.
- The arithmetic of the integrity rules (speed, trajectory, activity profile): their verdicts are
  inputs of the integrity models.
- F.3's distances, the Wilson interval, the comparison of event sets, the confusion matrix and
  the printed report of the validation.
- Wire formats, JSON and GeoJSON texts, logging, metrics and tracing.
- Consumers with several members in one group: the scripts start one process per group; a lost
  session stands for what a rebalance does to a member.
- Requests in flight at the same time: they share nothing but the tables and two counters.
- A cache that evicts single keys, and a database that loses what it has committed.
