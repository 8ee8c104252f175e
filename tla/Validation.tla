----------------------------- MODULE Validation -----------------------------
(***************************************************************************)
(* The validation job (cmd/validation, internal/validation/pipeline): the  *)
(* gate that decides whether a run may be measured, the measuring queries  *)
(* one statement at a time and the rows they end in, while the services    *)
(* that fill the tables are still at work.  Those are seen from their      *)
(* tables only; RecordPersister, AnalysisConsumer and IntegrityPhases      *)
(* model them in full.                                                     *)
(***************************************************************************)
EXTENDS Measures, Bisection

CONSTANTS
    Job,            \* starts of hts-validation
    Option,         \* [Job -> its environment], see OptionOK
    MinFindings,    \* integrity.detection.min_findings_for_threshold
    EngineLambda,   \* the values HTS_LAMBDA may have
    BufferEvents,   \* the engine's write buffer, in events
    Massless,       \* recorded events no mass can be made for: rule 1 has put
                    \* them in a cell that does not exist, for one
    Launches        \* bound: starts of the analysis engine

OptionOK(o) == /\ o.calibrate \in BOOLEAN       \* HTS_CALIBRATE
               /\ o.recompute \in BOOLEAN       \* HTS_RECOMPUTE
               /\ o.both \in BOOLEAN            \* HTS_CALIB_METRICS
               /\ o.integrity \in {"no", "too", "only"}

Null == -1

ASSUME ValidationAssumption ==
    /\ \A j \in Job : OptionOK(Option[j])
    /\ MinFindings \in Nat \ {0} /\ BufferEvents \in Nat \ {0, 1}
    /\ Massless \subseteq Recorded
    /\ EngineLambda \subseteq Nat \ {0} /\ 1 \in EngineLambda    \* 1 is the default
    /\ Launches \in Nat
    /\ \A f \in Finding : f.event \in Recorded /\ f.rule \in Rule \ {4}

VARIABLES
    run,        \* run_config: published, analyzed, inspected, Null for NULL
    records, truths,    \* event identifiers in hts_records, ground_truth
    estimate,   \* estimates: [Event -> lambda, 0 for no rows]
    findings,   \* integrity_findings
    metrics,    \* the metrics table: no key, a row also names its job
    measures,   \* integrity_metrics: [rules measured -> row]
    engine,     \* the analysis engine process
    handled,    \* records its consumer group has gone past
    job,        \* the validation jobs
    budget,     \* what this behaviour may still do: see Budget
    history     \* for the properties: events lost, full buffers stored by a write
                \* that reported an error, launches of the engine and how the
                \* last one ended, jobs overlapping, the last job

tables == <<run, records, truths, estimate, findings>>
results == <<metrics, measures>>
engineVars == <<engine, handled>>
validationVars == <<tables, results, engineVars, job, budget, history>>

EngineOff == [on |-> FALSE, mode |-> "full", lambda |-> 1, count |-> 0]
NothingSeen == [status |-> [published |-> Null, analyzed |-> Null, inspected |-> Null],
                records |-> 0, truths |-> 0]
Waiting == [pc |-> "waiting", seen |-> NothingSeen, partition |-> "V",
            f1 |-> <<>>, f2 |-> <<>>, todo |-> {}, complete |-> FALSE,
            whole |-> FALSE]

Steps == {"waiting", "load", "search", "status", "records", "truths", "gate",
          "delete", "coverage", "areas", "reduction", "write", "k7 truths",
          "k7 status", "precision", "recall", "upsert", "ok", "refused", "failed"}

Writers == {"run", "records", "truths", "engine", "findings"}

\* A writer that takes no part has done its work.
Loaded(w, all, nothing) == IF w \in budget.writers THEN nothing ELSE all

\* The records the engine makes estimates for: it passes over those the sample
\* leaves out and those without a mass, and counts neither.
Estimable(mode, total) == {e \in Recorded \ Massless : Includes(mode, total, e)}

ValidationInit ==
    LET total == Cardinality(Recorded)
        mode == CHOOSE m \in budget.modes : TRUE
        sample == Estimable(mode, total)
    IN
    /\ run = [published |-> Loaded("run", total, Null),
              analyzed |-> Loaded("engine", Cardinality(sample), Null),
              inspected |-> Loaded("findings", total, Null)]
    /\ records = Loaded("records", Recorded, {})
    /\ truths = Loaded("truths", Event, {})
    /\ estimate = [e \in Event |-> Loaded("engine", IF e \in sample THEN 1 ELSE 0, 0)]
    /\ findings = Loaded("findings", Finding, {})
    /\ metrics = {}
    /\ measures = [r \in {} |-> Null]
    /\ engine = EngineOff
    /\ handled = Loaded("engine", Recorded, {})
    /\ job = [j \in Job |-> Waiting]
    /\ history = [lost |-> {}, misjudged |-> 0, launches |-> Loaded("engine", 1, 0),
                  stopped |-> FALSE, overlap |-> FALSE, mode |-> mode, lambda |-> 1, last |-> Null]

Finished == run.published # Null

-----------------------------------------------------------------------------
(* What fills the tables.                                                  *)

\* The simulator has published every record and closes the run.
CompleteRun ==
    /\ ~Finished
    /\ run' = [run EXCEPT !.published = Cardinality(Recorded)]
    /\ UNCHANGED <<records, truths, estimate, findings, results, engineVars,
                   job, budget, history>>

\* The persisters' batches.
PersistRecords(batch) ==
    /\ batch # {} /\ batch \subseteq Recorded \ records
    /\ records' = records \cup batch
    /\ UNCHANGED <<run, truths, estimate, findings, results, engineVars, job,
                   budget, history>>

PersistTruths(batch) ==
    /\ batch # {} /\ batch \subseteq Event \ truths
    /\ truths' = truths \cup batch
    /\ UNCHANGED <<run, records, estimate, findings, results, engineVars, job,
                   budget, history>>

Pending == Estimable(engine.mode, Cardinality(Recorded)) \ handled

\* Offsets move over the records that are passed over, too.
GonePast(batch) == handled \cup {e \in Recorded : \E l \in batch : Id[e] <= Id[l]}

EngineStart(mode, lambdaValue) ==
    /\ ~engine.on /\ "engine" \in budget.writers /\ history.launches < budget.launches
    /\ Buildable(mode, IF Finished THEN run.published ELSE NoTotal)
    /\ engine' = [on |-> TRUE, mode |-> mode, lambda |-> lambdaValue, count |-> 0]
    /\ history' = [history EXCEPT !.launches = @ + 1, !.mode = mode,
                                       !.lambda = lambdaValue]
    /\ UNCHANGED <<tables, results, handled, job, budget>>

Insert(batch) ==
    /\ batch \cap Estimated(estimate) = {}
    /\ estimate' = [e \in Event |-> IF e \in batch THEN engine.lambda ELSE estimate[e]]

\* A flushed batch; the table refuses a statement that repeats an event.
EngineFlush(batch) ==
    /\ engine.on /\ batch # {} /\ batch \subseteq Pending
    /\ Insert(batch)
    /\ engine' = [engine EXCEPT !.count = @ + Cardinality(batch)]
    /\ handled' = GonePast(batch)
    /\ UNCHANGED <<run, records, truths, findings, results, job, budget, history>>

\* A statement that repeats an event fails by itself; one with a malformed row,
\* or on a database in trouble, fails out of the budget.
StatementFails(batch) ==
    /\ budget.losses > 0 \/ batch \cap Estimated(estimate) # {}
    /\ budget' = [budget EXCEPT !.losses =
                     IF batch \cap Estimated(estimate) = {} THEN @ - 1 ELSE @]

\* The write of a full buffer is refused or fails: its rows are gone, the event
\* that filled it is not counted and the consumer goes on.
EngineLosesAll(batch) ==
    /\ engine.on /\ Cardinality(batch) = BufferEvents /\ batch \subseteq Pending
    /\ StatementFails(batch)
    /\ engine' = [engine EXCEPT !.count = @ - Cardinality(batch)]
    /\ handled' = GonePast(batch)
    /\ history' = [history EXCEPT !.lost = @ \cup (batch \ Estimated(estimate))]
    /\ UNCHANGED <<tables, results, job>>
EngineLoses(batch) ==
    /\ engine.on /\ Cardinality(batch) = BufferEvents /\ batch \subseteq Pending
    /\ StatementFails(batch)
    /\ engine' = [engine EXCEPT !.count = @ + Cardinality(batch) - 1]
    /\ handled' = GonePast(batch)
    /\ history' = [history EXCEPT !.lost = @ \cup (batch \ Estimated(estimate))]
    /\ UNCHANGED <<tables, results, job>>

\* The write of a full buffer is executed and reports an error all the same: its
\* rows are there, and still the event that filled it is not counted.
EngineMisjudges(batch) ==
    /\ engine.on /\ Cardinality(batch) = BufferEvents /\ batch \subseteq Pending
    /\ StatementFails(batch) /\ Insert(batch)
    /\ engine' = [engine EXCEPT !.count = @ + Cardinality(batch) - 1]
    /\ handled' = GonePast(batch)
    /\ history' = [history EXCEPT !.misjudged = @ + 1]
    /\ UNCHANGED <<run, records, truths, findings, results, job>>

\* The write at the end of a fetched batch, never of a full buffer, reports an
\* error, executed or not: Run returns, nothing is committed, and the count that
\* is declared holds the batch.
EngineBreaks(batch) ==
    /\ engine.on /\ batch # {} /\ batch \subseteq Pending
    /\ Cardinality(batch) < BufferEvents
    /\ StatementFails(batch)
    /\ UNCHANGED estimate \/ Insert(batch)
    /\ run' = [run EXCEPT !.analyzed = engine.count + Cardinality(batch)]
    /\ engine' = EngineOff
    /\ history' = [history EXCEPT !.stopped = TRUE]
    /\ UNCHANGED <<records, truths, findings, results, handled, job>>

\* Run returns: idle with nothing left, or stopped by a signal with records
\* still to come.  Either way the count of this process is declared.
EngineEnds ==
    /\ engine.on
    /\ run' = [run EXCEPT !.analyzed = engine.count]
    /\ engine' = EngineOff
    /\ handled' = IF Pending = {} THEN Recorded ELSE handled
    /\ history' = [history EXCEPT !.stopped = Pending # {}]
    /\ Pending # {} => budget.faults > 0
    /\ budget' = [budget EXCEPT !.faults = IF Pending = {} THEN @ ELSE @ - 1]
    /\ UNCHANGED <<records, truths, estimate, findings, results, job>>

\* The process dies after a write its offsets do not cover yet, or before one.
EngineCrash(batch) ==
    /\ engine.on /\ budget.faults > 0
    /\ batch \subseteq Pending /\ Insert(batch)
    /\ engine' = EngineOff
    /\ history' = [history EXCEPT !.stopped = TRUE]
    /\ budget' = [budget EXCEPT !.faults = @ - 1]
    /\ UNCHANGED <<run, records, truths, findings, results, handled, job>>

\* The stream phase stores its findings, then declares what it inspected.
StreamFindings == {f \in Finding : f.phase = "stream"}

StreamFlush(f) ==
    /\ run.inspected = Null
    /\ f \in StreamFindings \ findings
    /\ findings' = findings \cup {f}
    /\ UNCHANGED <<run, records, truths, estimate, results, engineVars, job,
                   budget, history>>

StreamDeclare(count) ==
    /\ run.inspected = Null
    /\ \/ count = Cardinality(Recorded) /\ StreamFindings \subseteq findings
       \/ count < Cardinality(Recorded) /\ budget.faults > 0
    /\ run' = [run EXCEPT !.inspected = count]
    /\ budget' = [budget EXCEPT !.faults =
                     IF count < Cardinality(Recorded) THEN @ - 1 ELSE @]
    /\ UNCHANGED <<records, truths, estimate, findings, results, engineVars,
                   job, history>>

\* The batch phase runs behind the stream phase and reads hts_records.
BatchFlush ==
    /\ run.inspected # Null /\ records = Recorded
    /\ findings # findings \cup {f \in Finding : f.phase = "batch"}
    /\ findings' = findings \cup {f \in Finding : f.phase = "batch"}
    /\ UNCHANGED <<run, records, truths, estimate, results, engineVars, job,
                   budget, history>>

\* The loading services are done, and of the single engine no write failed.
Complete == /\ records = Recorded /\ truths = Event /\ Finished
            /\ history.launches = 1 /\ ~engine.on
            /\ history.lost = {} /\ history.misjudged = 0 /\ ~history.stopped

-----------------------------------------------------------------------------
(* One validation job: execute and Pipeline.Run.                           *)

Active(j) == job[j].pc \notin {"waiting", "ok", "refused", "failed"}

\* Job j goes from one step to the next; only its own record changes.
Goes(j, from, to) ==
    /\ job[j].pc = from
    /\ job' = [job EXCEPT ![j] = to]

At(j, step) == [job[j] EXCEPT !.pc = step]

FirstStep(j) == IF Option[j].integrity = "only" THEN "k7 truths" ELSE "status"

Start(j) ==
    /\ j \in budget.jobs
    /\ Goes(j, "waiting", At(j, IF Option[j].calibrate THEN "load" ELSE FirstStep(j)))
    /\ history' = [history EXCEPT !.overlap = @ \/ \E i \in Job : Active(i),
                                  !.last = j]
    /\ UNCHANGED <<tables, results, engineVars, budget, bisectionVars>>

Still == UNCHANGED <<tables, results, engineVars, budget, history>>

\* calibration.New: the calibration set, and from it the sample.
CalibrationSet ==
    selectSample({e \in records \cap truths \cap Covered : Of(e) = "C"},
                 CalibrationEvents)

\* A new search, when no other job is at its own: two at a time would be two
\* processes that share nothing but the row they write last.
Load(j) ==
    /\ Still
    /\ \A i \in Job : job[i].pc # "search"
    /\ IF CalibrationSet = {}
       THEN Goes(j, "load", At(j, "failed")) /\ UNCHANGED bisectionVars
       ELSE Goes(j, "load", At(j, "search")) /\ StartSearch

Calibrated(j) ==
    /\ Still /\ UNCHANGED bisectionVars
    /\ \/ written # 0 /\ Goes(j, "search", At(j, FirstStep(j)))
       \/ search = "failed" /\ Goes(j, "search", At(j, "failed"))

\* CheckPreconditions reads everything before it judges anything.
ReadStatus(j) ==
    /\ Goes(j, "status", [At(j, "records") EXCEPT !.seen.status = run,
                                                  !.complete = Complete])
    /\ Still /\ UNCHANGED bisectionVars

CountRecords(j) ==
    /\ Goes(j, "records", [At(j, "truths") EXCEPT !.seen.records = Cardinality(records)])
    /\ Still /\ UNCHANGED bisectionVars

CountTruths(j) ==
    /\ Goes(j, "truths", [At(j, "gate") EXCEPT !.seen.truths = Cardinality(truths),
                                               !.whole = truths = Event])
    /\ Still /\ UNCHANGED bisectionVars

simulationFinished(s) == s.published # Null
recordsPersisted(s, stored) == s.published # Null /\ stored = s.published
truthPersisted(stored, known) == known >= stored
analysisDeclared(s, stored) == s.analyzed # Null
analysisComplete(s, stored) == s.analyzed # Null /\ stored = s.analyzed * RowsPerEvent

Passes(seen, stored) ==
    /\ simulationFinished(seen.status)
    /\ recordsPersisted(seen.status, seen.records)
    /\ truthPersisted(seen.records, seen.truths)
    /\ analysisComplete(seen.status, stored)

CheckPreconditions(j) ==
    /\ Goes(j, "gate",
            IF ~Passes(job[j].seen, CountEstimates(estimate)) THEN At(j, "refused")
            ELSE IF Option[j].recompute THEN At(j, "delete") ELSE At(j, "coverage"))
    /\ Still /\ UNCHANGED bisectionVars

KeepOldRows(j) ==
    /\ Goes(j, "delete", At(j, "coverage"))
    /\ Still /\ UNCHANGED bisectionVars
DeleteRun(j) ==
    /\ Goes(j, "delete", At(j, "coverage"))
    /\ metrics' = {}
    /\ UNCHANGED <<tables, measures, engineVars, budget, history, bisectionVars>>

\* F.1; an empty answer ends the job.
ComputeCoverage(j) ==
    /\ LET f1 == Coverage(estimate, truths, job[j].partition)
       IN  Goes(j, "coverage", IF f1 = <<>> THEN At(j, "failed")
                               ELSE [At(j, "areas") EXCEPT !.f1 = f1])
    /\ Still /\ UNCHANGED bisectionVars

\* F.2 and F.3 and the rows they complete; only the partition V is compared.
ComputeAreas(j) ==
    /\ LET f2 == AreaStats(estimate, truths, job[j].partition)
       IN  Goes(j, "areas",
                IF ~Computable(job[j].f1, f2) THEN At(j, "failed")
                ELSE [At(j, IF job[j].partition = "V" THEN "reduction" ELSE "write")
                        EXCEPT !.f1 = <<>>,
                               !.todo = {MetricRow(k, job[j].partition, job[j].f1,
                                                   f2, NoReduction) : k \in DOMAIN job[j].f1}])
    /\ Still /\ UNCHANGED bisectionVars

\* F.4, put on the model's row.
Compare(j) ==
    /\ LET f4 == Reductions(estimate, truths)
       IN  Goes(j, "reduction",
                IF ~Reducible(f4) THEN At(j, "failed")
                ELSE [At(j, "write") EXCEPT
                        !.todo = {[r EXCEPT !.reduction =
                                      IF r.key = "M90" THEN ReductionOf(f4) ELSE @] :
                                  r \in job[j].todo}])
    /\ Still /\ UNCHANGED bisectionVars

\* One INSERT per row, each a transaction of its own.
AfterRows(j) ==
    IF job[j].partition = "V" /\ Option[j].both
    THEN [At(j, "coverage") EXCEPT !.partition = "C"]
    ELSE IF Option[j].integrity = "no" THEN At(j, "ok") ELSE At(j, "precision")

WriteRow(j) ==
    /\ job[j].pc = "write"
    /\ LET row == CHOOSE r \in job[j].todo : TRUE
           rest == job[j].todo \ {row}
       IN  /\ metrics' = metrics \cup {[job |-> j, whole |-> job[j].whole, row |-> row]}
           /\ Goes(j, "write", IF rest = {} THEN [AfterRows(j) EXCEPT !.todo = {}]
                               ELSE [job[j] EXCEPT !.todo = rest])
    /\ UNCHANGED <<tables, measures, engineVars, budget, history, bisectionVars>>

(***************************************************************************)
(* F.5's own gate, asked only by a job that measures nothing else: truth   *)
(* rows exist, the stream phase declared, and declared all there was, when *)
(* that is known.                                                          *)
(***************************************************************************)
PassesK7(s) == /\ s.inspected # Null
               /\ s.published # Null => s.inspected = s.published

CountK7Truths(j) ==
    /\ Goes(j, "k7 truths", IF truths = {} THEN At(j, "refused")
                            ELSE [At(j, "k7 status") EXCEPT !.whole = truths = Event])
    /\ Still /\ UNCHANGED bisectionVars

checkIntegrityPrecondition(j) ==
    /\ Goes(j, "k7 status",
            IF PassesK7(run) THEN [At(j, "precision") EXCEPT !.whole = @ /\ Finished]
                             ELSE At(j, "refused"))
    /\ Still /\ UNCHANGED bisectionVars

PrecisionByRule(j) ==
    /\ Goes(j, "precision", [At(j, "recall") EXCEPT !.f1 = Precision(findings, truths)])
    /\ Still /\ UNCHANGED bisectionVars

RecallByRule(j) ==
    /\ Goes(j, "recall", [At(j, "upsert") EXCEPT !.f2 = Recall(findings, truths),
                                                 !.todo = Rule])
    /\ Still /\ UNCHANGED bisectionVars

\* One upsert per rule, in the order of the identifiers.
UpsertRule(j) ==
    /\ job[j].pc = "upsert"
    /\ LET r == CHOOSE r \in job[j].todo : \A s \in job[j].todo : r <= s
           rest == job[j].todo \ {r}
       IN  /\ measures' = [s \in DOMAIN measures \cup {r} |->
                 IF s # r THEN measures[s] ELSE
                 [gated |-> Option[j].integrity = "only" /\ job[j].whole,
                  row |-> IntegrityRow(r, job[j].f1, job[j].f2, MinFindings)]]
           /\ Goes(j, "upsert", IF rest = {} THEN [At(j, "ok") EXCEPT !.f1 = <<>>, !.f2 = <<>>,
                                                                    !.todo = {}]
                                ELSE [job[j] EXCEPT !.todo = rest])
    /\ UNCHANGED <<tables, metrics, engineVars, budget, history, bisectionVars>>

\* A statement fails, the context ends or the process dies.
JobFails(j) ==
    /\ Active(j) /\ budget.faults > 0
    /\ job[j].pc # "search"
    /\ job' = [job EXCEPT ![j].pc = "failed"]
    /\ budget' = [budget EXCEPT !.faults = @ - 1]
    /\ UNCHANGED <<tables, results, engineVars, history, bisectionVars>>

-----------------------------------------------------------------------------
ValidationTypeOK ==
    /\ run \in [published : Nat \cup {Null}, analyzed : Nat \cup {Null},
                inspected : Nat \cup {Null}]
    /\ records \subseteq Recorded /\ truths \subseteq Event
    /\ estimate \in [Event -> EngineLambda \cup {0}]
    /\ findings \subseteq Finding
    /\ \A r \in metrics : r.job \in Job /\ r.row.n > 0 /\ r.row.hits \in 0..r.row.n
    /\ DOMAIN measures \subseteq Rule
    /\ engine \in [on : BOOLEAN, mode : Modes, lambda : EngineLambda, count : Nat]
    /\ handled \subseteq Recorded
    /\ \A j \in Job : job[j].pc \in Steps

\* What the tables hold once a run is loaded and analysed to the end.
FinalEstimate ==
    [e \in Event |-> IF e \in Estimable(history.mode, Cardinality(Recorded))
                     THEN history.lambda ELSE 0]

FinalRow(row) ==
    MetricRow(row.key, row.partition,
              Coverage(FinalEstimate, Event, row.partition),
              AreaStats(FinalEstimate, Event, row.partition),
              IF row.partition = "V" THEN ReductionOf(Reductions(FinalEstimate, Event))
                                     ELSE NoReduction)

StreamRules == {r \in Rule : \A f \in Finding : f.rule = r => f.phase = "stream"}

FinalMeasure(r) == IntegrityRow(r, Precision(Finding, Event), Recall(Finding, Event),
                                MinFindings)

(***************************************************************************)
(* The gate refuses no run that was complete when first read and left so,  *)
(* complete meaning that no write of its one engine process reported an    *)
(* error: one that stored a full buffer and did so leaves the counter one  *)
(* short, and a run that lacks nothing is refused for good.                *)
(* What passes is measured as a whole: when every truth row was there and  *)
(* one engine process ran to the end of the topic, each metric row is the  *)
(* one that all events with a mass give, whatever was lost on the way.     *)
(* The one exception: a lost buffer puts the counter ahead by all of its   *)
(* events but one, so that as many misjudged writes hide it.               *)
(* An integrity row written behind F.5's own gate counts every finding of  *)
(* a stream rule (CheckPreconditions, checkIntegrityPrecondition, Compute; *)
(* driver/consumer.go:216-256).                                            *)
(***************************************************************************)
GateIsExact ==
    /\ \A j \in Job : job[j].pc = "refused" /\ Option[j].integrity # "only"
                        => ~job[j].complete \/ history.launches > 1
    /\ history.launches = 1 /\ ~history.stopped
         /\ (history.lost = {} \/ history.misjudged < BufferEvents - 1) =>
         \A m \in metrics : m.whole => m.row = FinalRow(m.row)
    /\ \A r \in StreamRules \cap DOMAIN measures : measures[r].gated =>
         measures[r].row = FinalMeasure(r)

(***************************************************************************)
(* The metrics table has no key of its own.  As long as every job deletes  *)
(* first (HTS_RECOMPUTE) and no two overlap, there is never a second row   *)
(* for a method, confidence and partition, whatever step a job ended at,   *)
(* and after the latest job finished the partition V is there key by key,  *)
(* all of it of that job (DeleteRun, Write, Pipeline.Run).                 *)
(***************************************************************************)
OneRowPerKey ==
    (\A j \in budget.jobs : Option[j].recompute) /\ ~history.overlap =>
        /\ \A m, n \in metrics : m.row.key = n.row.key /\ m.row.partition = n.row.partition
                                 => m = n
        /\ \A j \in Job :
             job[j].pc = "ok" /\ history.last = j /\ Option[j].integrity # "only" =>
               {m.row.key : m \in {x \in metrics : x.job = j /\ x.row.partition = "V"}} = Key
=============================================================================
