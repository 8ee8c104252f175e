--------------------------- MODULE IntegrityStream ---------------------------
(***************************************************************************)
(* The stream phase of the integrity service: one consumer of the topic    *)
(* hts.records (internal/integrity/source/stream.go) that feeds rules 1    *)
(* and 3 to the rule engine, writes the findings, and only then commits    *)
(* the offsets; and the process around it (cmd/integrity/main.go runStream)*)
(* that starts with an empty claim ledger and empty watermarks and writes  *)
(* run_config.inspected_records on its way out, error or not.              *)
(*                                                                         *)
(* Memory (claims, watermark, buffer, seen) dies with the process. The     *)
(* topic, the group's committed offsets, the findings table and            *)
(* inspected_records survive it.                                           *)
(***************************************************************************)
EXTENDS FindingEngine

CONSTANTS
  Partition,     \* partitions of hts.records
  Subscriber,    \* pseudo_msisdn, the topic's message key
  Produce,       \* Produce[p]: the events of partition p in production order
  SubscriberOf,  \* event -> subscriber
  TimeOf,        \* event -> time stamp the record carries
  Unknown,       \* events whose record names a cell outside the inventory
  Kind,          \* "own", "hollow", "foreign" or "garbled"
  Tolerance,     \* integrity.detection.time_backstep_tolerance_s
  BufferSize,    \* findings buffered before Observe writes them itself
  IdleExit,      \* HTS_IDLE_TIMEOUT is set
  Limit          \* how often each fault may happen (a bound of the model)

\* "own": this run's record. "hollow": this run's, but its hits fail normalise
\* (for instance no one-letter scenario). "foreign": another run's record in
\* the shared topic. "garbled": does not decode.
Kinds  == {"own", "hollow", "foreign", "garbled"}
Faults == {"crash", "session", "sink", "broker", "signal"}

\* Positions in the topic.
Offset == UNION {0..Len(Produce[p]) : p \in Partition}

ASSUME StreamAssumption ==
  /\ IsFiniteSet(Partition)
  /\ Produce \in [Partition -> Seq(Event)]
  /\ SubscriberOf \in [Event -> Subscriber]
  /\ TimeOf \in [Event -> Nat]
  /\ Unknown \subseteq Event
  /\ Kind \in [Event -> Kinds]
  /\ Tolerance \in Nat
  /\ BufferSize \in Nat \ {0}
  /\ IdleExit \in BOOLEAN
  /\ Limit \in [Faults -> Nat]

VARIABLES
  hw,          \* hw[p]: records published to partition p so far
  committed,   \* committed[p]: the group's committed offset
  done,        \* done[p]: records of the current poll already observed
  upto,        \* upto[p]: end of the current poll
  owned,       \* the group session that served the current poll is alive
  pc,          \* "down", "poll", "work" (a batch in hand), "commit"
  claims,      \* the engine's claim ledger
  watermark,   \* watermark[s]: highest event time seen of s, None before
  buffer,      \* findings not yet written
  seen,        \* Engine.inspected
  findings,    \* the integrity_findings table
  inspected,   \* run_config.inspected_records
  faults       \* faults spent so far

topicVars  == <<hw, committed>>
cursorVars == <<done, upto, owned>>
engineVars == <<claims, watermark, buffer, seen>>
tableVars  == <<findings, inspected>>
vars == <<topicVars, cursorVars, pc, engineVars, tableVars, faults>>

-----------------------------------------------------------------------------
(* The two stream rules on one record. *)

RulesOn(e) == Kind[e] \in {"own", "hollow"}

\* A record's key is its subscriber (publisher.go, Publish), and the producer
\* picks the partition by the key.
ASSUME KeyAssumption ==
  \A p, q \in Partition :
    \A i \in 1..Len(Produce[p]), j \in 1..Len(Produce[q]) :
      LET d == Produce[p][i]
          e == Produce[q][j] IN
      RulesOn(d) /\ RulesOn(e) /\ SubscriberOf[d] = SubscriberOf[e] => p = q

\* One process publishes the run, every event once (SimulatorRun), and the
\* producer's retries are idempotent (pkg/kafka/producer.go, NewProducer).
ASSUME OnceAssumption ==
  \A p, q \in Partition :
    \A i \in 1..Len(Produce[p]), j \in 1..Len(Produce[q]) :
      RulesOn(Produce[p][i]) /\ Produce[p][i] = Produce[q][j] => p = q /\ i = j

\* Rule 3. Equality is no violation: events of one tick share a time stamp.
RunsBack(e) ==
  LET w == watermark[SubscriberOf[e]] IN
  w # None /\ w - TimeOf[e] > Tolerance

\* Mutant: the shift moves the watermark back.
NewWatermarkAlways(e) == [watermark EXCEPT ![SubscriberOf[e]] = TimeOf[e]]

\* A violating record leaves the watermark alone, else the shift would hide
\* the next one.
NewWatermark(e) ==
  LET s == SubscriberOf[e] IN
  IF watermark[s] = None \/ TimeOf[e] > watermark[s]
  THEN [watermark EXCEPT ![s] = TimeOf[e]]
  ELSE watermark

\* The hits that survive normalise.
Hits(e) ==
  IF Kind[e] = "own"
  THEN {r \in {Inventory, TimeOrder} :
          IF r = Inventory THEN e \in Unknown ELSE RunsBack(e)}
  ELSE {}

\* Record d is stamped later than e by more than the tolerance.
Overtakes(d, e) ==
  /\ RulesOn(d)
  /\ SubscriberOf[d] = SubscriberOf[e]
  /\ TimeOf[d] - TimeOf[e] > Tolerance

NoWatermark == [s \in Subscriber |-> None]

-----------------------------------------------------------------------------
(* The ways the process ends. *)

Spend(f) == /\ faults[f] < Limit[f]
            /\ faults' = [faults EXCEPT ![f] = @ + 1]

\* Mutant: the watermarks survive the process, the offsets do not.
ForgetAllButWatermark(offsets) ==
  /\ pc' = "down"
  /\ done' = offsets
  /\ upto' = offsets
  /\ owned' = TRUE
  /\ claims' = NoClaims
  /\ buffer' = {}
  /\ seen' = 0
  /\ UNCHANGED watermark

\* Mutant: the count of inspected records survives the process.
ForgetAllButSeen(offsets) ==
  /\ pc' = "down"
  /\ done' = offsets
  /\ upto' = offsets
  /\ owned' = TRUE
  /\ claims' = NoClaims
  /\ watermark' = NoWatermark
  /\ buffer' = {}
  /\ UNCHANGED seen

\* Process memory is gone; the next process resumes at the committed offsets.
Forget(offsets) ==
  /\ pc' = "down"
  /\ done' = offsets
  /\ upto' = offsets
  /\ owned' = TRUE
  /\ claims' = NoClaims
  /\ watermark' = NoWatermark
  /\ buffer' = {}
  /\ seen' = 0

\* Run returned, with an error or without: inspected_records is overwritten
\* with what this process counted.
Leave(count, offsets) ==
  /\ Forget(offsets)
  /\ inspected' = count

\* The same when the database is the reason: the write of the counter may
\* share the fate of the write before it.
LeaveBroken(count, offsets) ==
  /\ Forget(offsets)
  /\ inspected' \in {inspected, count}

\* InsertFindings takes the rows.
Accepted(rows) ==
  /\ ~Rejected(rows)
  /\ findings' = Inserted(findings, rows)

\* Mutant: the rows are written one statement each.
RefusedPartially(rows, count) ==
  \/ /\ Rejected(rows)
     /\ Leave(count, committed)
     /\ UNCHANGED <<findings, faults>>
  \/ /\ rows # {}
     /\ ~Rejected(rows)
     /\ Spend("sink")
     /\ \E some \in SUBSET rows : findings' = Inserted(findings, some)
     /\ LeaveBroken(count, committed)

\* It does not: a row fails validation, or the database errs with the statement
\* done or undone. Either way Run returns and nothing is committed.
Refused(rows, count) ==
  \/ /\ Rejected(rows)
     /\ Leave(count, committed)
     /\ UNCHANGED <<findings, faults>>
  \/ /\ rows # {}
     /\ ~Rejected(rows)
     /\ Spend("sink")
     /\ findings' \in {findings, Inserted(findings, rows)}
     /\ LeaveBroken(count, committed)

-----------------------------------------------------------------------------
Init ==
  /\ hw = [p \in Partition |-> 0]
  /\ committed = [p \in Partition |-> 0]
  /\ done = committed
  /\ upto = committed
  /\ owned = TRUE
  /\ pc = "down"
  /\ claims = NoClaims
  /\ watermark = NoWatermark
  /\ buffer = {}
  /\ seen = 0
  /\ findings = {}
  /\ inspected = None
  /\ faults = [f \in Faults |-> 0]

\* The simulator's next record reaches partition p.
Publish(p) ==
  /\ hw[p] < Len(Produce[p])
  /\ hw' = [hw EXCEPT ![p] = @ + 1]
  /\ UNCHANGED <<committed, cursorVars, pc, engineVars, tableVars, faults>>

\* Mutant: the stream phase loads its ledger from the table, as the batch phase
\* does.
StartLoadingClaims ==
  /\ pc = "down"
  /\ pc' = "poll"
  /\ claims' = [e \in Event |->
                  IF CanonicalOf(findings, e) = {} THEN None
                  ELSE CHOOSE r \in CanonicalOf(findings, e) : TRUE]
  /\ UNCHANGED <<topicVars, cursorVars, watermark, buffer, seen, tableVars, faults>>

\* A new process: empty ledger, empty watermarks, position = committed.
Start ==
  /\ pc = "down"
  /\ pc' = "poll"
  /\ UNCHANGED <<topicVars, cursorVars, engineVars, tableVars, faults>>

\* PollFetches returns some records of some partitions; a poll that times out
\* changes nothing.
Poll ==
  /\ pc = "poll"
  /\ \E end \in [Partition -> Offset] :
        /\ \A p \in Partition : done[p] <= end[p] /\ end[p] <= hw[p]
        /\ end # done
        /\ upto' = end
  /\ pc' = "work"
  /\ UNCHANGED <<topicVars, done, owned, engineVars, tableVars, faults>>

Current(p) == Produce[p][done[p] + 1]

InHand(p) == pc = "work" /\ done[p] < upto[p]

\* A message that does not decode, or belongs to another run, is passed over.
Skip(p) ==
  /\ InHand(p)
  /\ ~RulesOn(Current(p))
  /\ done' = [done EXCEPT ![p] = @ + 1]
  /\ UNCHANGED <<topicVars, upto, owned, pc, engineVars, tableVars, faults>>

\* The buffer after the record's hits are resolved.
Resolved(p) ==
  buffer \cup Rows(claims, Current(p), Hits(Current(p)), "stream")

\* Engine.Observe: count, run the rules, resolve, write when the buffer is full.
Observe(p) ==
  LET e == Current(p) IN
  /\ InHand(p)
  /\ RulesOn(e)
  /\ seen' = seen + 1
  /\ watermark' = NewWatermark(e)
  /\ claims' = ClaimFor(claims, e, Hits(e))
  /\ done' = [done EXCEPT ![p] = @ + 1]
  /\ \/ /\ Cardinality(Resolved(p)) < BufferSize
        /\ buffer' = Resolved(p)
        /\ UNCHANGED findings
     \/ /\ Cardinality(Resolved(p)) >= BufferSize
        /\ Accepted(Resolved(p))
        /\ buffer' = {}
  /\ UNCHANGED <<topicVars, upto, owned, pc, inspected, faults>>

ObserveFails(p) ==
  /\ InHand(p)
  /\ RulesOn(Current(p))
  /\ Cardinality(Resolved(p)) >= BufferSize
  /\ Refused(Resolved(p), seen + 1)
  /\ UNCHANGED topicVars

BatchDone == pc = "work" /\ done = upto

\* Mutant: only a full buffer is written, whatever is about to be committed.
FlushBatchWhenFull ==
  /\ BatchDone
  /\ IF Cardinality(buffer) < BufferSize
     THEN UNCHANGED <<findings, buffer>>
     ELSE Accepted(buffer) /\ buffer' = {}
  /\ pc' = "commit"
  /\ UNCHANGED <<topicVars, cursorVars, claims, watermark, seen, inspected, faults>>

\* The batch is through: write what is buffered, before any commit.
FlushBatch ==
  /\ BatchDone
  /\ Accepted(buffer)
  /\ buffer' = {}
  /\ pc' = "commit"
  /\ UNCHANGED <<topicVars, cursorVars, claims, watermark, seen, inspected, faults>>

FlushFails ==
  /\ BatchDone
  /\ Refused(buffer, seen)
  /\ UNCHANGED topicVars

\* Mutant: commits the end of the partition, not the end of the poll.
CommitHighWater ==
  /\ pc = "commit"
  /\ pc' = "poll"
  /\ IF owned
     THEN committed' = hw /\ UNCHANGED <<done, upto>>
     ELSE done' = committed /\ upto' = committed /\ UNCHANGED committed
  /\ owned' = TRUE
  /\ UNCHANGED <<hw, engineVars, tableVars, faults>>

\* CommitUncommittedOffsets. When the session that served the poll is gone,
\* nothing is left to commit and the next poll starts at the committed offset
\* again, in the same process.
Commit ==
  /\ pc = "commit"
  /\ pc' = "poll"
  /\ IF owned
     THEN committed' = upto /\ UNCHANGED <<done, upto>>
     ELSE done' = committed /\ upto' = committed /\ UNCHANGED committed
  /\ owned' = TRUE
  /\ UNCHANGED <<hw, engineVars, tableVars, faults>>

\* The commit reports an error; the broker may have taken it all the same.
CommitFails ==
  /\ pc = "commit"
  /\ IF owned
     THEN Spend("broker") /\ committed' \in {committed, upto}
     ELSE UNCHANGED <<faults, committed>>
  /\ Leave(seen, committed')
  /\ UNCHANGED <<hw, findings>>

\* The group declares the member dead while it works on a batch; it rejoins.
SessionLost ==
  /\ pc \in {"work", "commit"}
  /\ owned
  /\ Spend("session")
  /\ owned' = FALSE
  /\ UNCHANGED <<topicVars, done, upto, pc, engineVars, tableVars>>

\* No fetch arrived for the idle time: Run flushes and returns nil. A slow group
\* join or broker looks the same, so records may be waiting.
Idle ==
  /\ pc = "poll"
  /\ IdleExit
  /\ Accepted(buffer)
  /\ \/ Leave(seen, committed) /\ UNCHANGED faults
     \/ Spend("sink") /\ Forget(committed) /\ UNCHANGED inspected
  /\ UNCHANGED topicVars

\* SIGTERM between two batches, or a fetch error. (A signal within a batch ends
\* like FlushFails or CommitFails: both calls carry the cancelled context.)
Interrupted ==
  /\ pc = "poll"
  /\ Spend("signal") \/ Spend("broker")
  /\ Accepted(buffer)
  /\ Leave(seen, committed)
  /\ UNCHANGED topicVars

Crash ==
  /\ pc # "down"
  /\ Spend("crash")
  /\ Forget(committed)
  /\ UNCHANGED <<topicVars, tableVars>>

Next ==
  \/ \E p \in Partition :
       Publish(p) \/ Skip(p) \/ Observe(p) \/ ObserveFails(p)
  \/ Start \/ Poll
  \/ FlushBatch \/ FlushFails
  \/ Commit \/ CommitFails
  \/ SessionLost \/ Idle \/ Interrupted \/ Crash

Spec == Init /\ [][Next]_vars

\* The simulator produces, a supervisor restarts the process, and the consumer
\* loop keeps running: it has no branch that waits for anything but the broker
\* and the database.
Fairness ==
  /\ \A p \in Partition :
       WF_vars(Publish(p)) /\ WF_vars(Skip(p)) /\ WF_vars(Observe(p) \/ ObserveFails(p))
  /\ WF_vars(Start) /\ WF_vars(Poll)
  /\ WF_vars(FlushBatch \/ FlushFails)
  /\ WF_vars(Commit)

FairSpec == Spec /\ Fairness

-----------------------------------------------------------------------------
TypeOK ==
  /\ hw \in [Partition -> Nat]
  /\ committed \in [Partition -> Nat]
  /\ done \in [Partition -> Nat]
  /\ upto \in [Partition -> Nat]
  /\ \A p \in Partition :
       /\ hw[p] <= Len(Produce[p])
       /\ committed[p] <= done[p] /\ done[p] <= upto[p] /\ upto[p] <= hw[p]
  /\ owned \in BOOLEAN
  /\ pc \in {"down", "poll", "work", "commit"}
  /\ claims \in Claims
  /\ watermark \in [Subscriber -> Nat \cup {None}]
  /\ buffer \subseteq Finding
  /\ seen \in Nat
  /\ findings \subseteq Finding
  /\ inspected \in Nat \cup {None}
  /\ faults \in [Faults -> Nat]

\* Offset discipline (stream.go, Run): an offset is committed only after the
\* findings of every record before it are in the database. Rule 1 judges a
\* record by itself, so every committed record with an unknown cell has its
\* finding stored, and stored as the canonical one, across crashes, failed
\* writes, failed commits and redelivery.
CommittedInventoryHitsStored ==
  \A p \in Partition : \A i \in 1..committed[p] :
    LET e == Produce[p][i] IN
    Kind[e] = "own" /\ e \in Unknown =>
      Inventory \in CanonicalOf(findings, e)

\* Records that need no finding of rule 1, or whose finding owns the event.
SettledPositions ==
  {at \in Partition \X Offset :
     /\ at[2] \in 1..Len(Produce[at[1]])
     /\ LET e == Produce[at[1]][at[2]] IN
        Kind[e] = "own" /\ e \in Unknown => Inventory \in CanonicalOf(findings, e)}

\* The offset discipline all consumers share: the offsets only move forward,
\* over records that are settled when they move, and the table never takes a
\* finding back. (stream.go Run, the order of Flush and commit.)
TC == INSTANCE TopicConsumer WITH settled <- SettledPositions
KeepsOffsetDiscipline == TC!Consumer

\* ADR-28/2 within the phase: whatever is redelivered to whichever process,
\* with or without the old ledger and watermarks, an event never gets a second
\* canonical finding.
OneCanonicalPerEvent == AtMostOneCanonical(findings)

\* ADR-28/4 within the phase: a suppressed row never stands alone.
SuppressionExplained == SuppressorStored(findings)

\* Rule 3 accuses only a record that an earlier record of its subscriber
\* overtakes in the topic (timeorder.go: the precision of the rule is
\* structural, no clean record can raise the signal).
NoFalseShift ==
  \A f \in findings : f.rule = TimeOrder =>
    \E p \in Partition : \E i, j \in 1..hw[p] :
      /\ i < j /\ Produce[p][j] = f.event
      /\ Overtakes(Produce[p][i], f.event)

\* Every record that an earlier one overtakes has its rule 3 finding once its
\* offset is committed (stream.go:119-121: an early commit would lose findings
\* for good).
EveryShiftStored ==
  \A p \in Partition : \A j \in 1..committed[p] :
    LET e == Produce[p][j] IN
    Kind[e] = "own" /\ (\E i \in 1..(j - 1) : Overtakes(Produce[p][i], e)) =>
      \E f \in findings : f.event = e /\ f.rule = TimeOrder

\* The same while the process that read the first record still runs, sessions
\* lost or not: a violation does not hide the violations behind it.
ShiftsStoredByOneProcess ==
  ~IdleExit /\ (\A f \in Faults \ {"session"} : faults[f] = 0) /\ inspected = None =>
    EveryShiftStored

\* Number of this run's records in the topic: run_config.published_events.
Published ==
  Cardinality({at \in Partition \X Offset :
                 /\ at[2] \in 1..Len(Produce[at[1]])
                 /\ RulesOn(Produce[at[1]][at[2]])})

\* ADR-31/7, batch.go precondition (b): inspected_records = published_events
\* means the stream phase is over and its claims are written.
GateMeansFindingsStored ==
  inspected = Published =>
    \A p \in Partition : \A i \in 1..Len(Produce[p]) :
      LET e == Produce[p][i] IN
      Kind[e] = "own" /\ e \in Unknown =>
        Inventory \in CanonicalOf(findings, e)

\* The same as long as no write failed: a crash, a failed commit, a signal or
\* an early idle exit leaves a count that does not open the batch phase.
GateWithoutFailedWrites == faults["sink"] = 0 => GateMeansFindingsStored

\* With finitely many faults the whole topic is committed in the end: no record
\* is poison to the restarted process.
EventuallyCommitted ==
  <>[](\A p \in Partition : committed[p] = Len(Produce[p]))
=============================================================================
