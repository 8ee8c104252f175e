--------------------------- MODULE AnalysisConsumer ---------------------------
(***************************************************************************)
(* The analysis engine as a consumer of hts.records: the loop of           *)
(* internal/analysis/driver/consumer.go, the row buffer of driver/persist, *)
(* the plain INSERT of storage/postgres/estimates.go and the tail of       *)
(* cmd/analysis-engine, which declares run_config.analyzed_events.         *)
(*                                                                         *)
(* The five rows of an event are written together or not at all: the       *)
(* buffer is flushed at 200 rows and one statement takes 200, so a flush   *)
(* is one statement and holds whole events. A statement is refused as a    *)
(* whole when it repeats an event that has its rows (estimates_unique):    *)
(* unlike the other two writers of the project this one has no ON CONFLICT *)
(* clause. It is refused as well, at every delivery, when it holds an      *)
(* event whose rows fail newEstimateArrays or a CHECK of the table: the    *)
(* decoder asks a record for its three identifiers only, so a record       *)
(* without a time or with an unknown scenario gets as far as the buffer.   *)
(***************************************************************************)
EXTENDS Integers, Sequences, FiniteSets

CONSTANTS
  None,
  Event,
  Topic,         \* hts.records in production order
  Analyzable,    \* events of this run that are in the sample and for which a
                 \* mass and its shapes can be made
  Unwritable,    \* those of them whose rows are never accepted
  BufferEvents,  \* events that fill the buffer
  IdleExit,      \* HTS_IDLE_TIMEOUT is set
  Limit          \* how often each fault may happen (a bound of the model)

Faults == {"crash", "session", "sink", "broker", "signal"}

ASSUME AnalysisAssumption ==
  /\ Topic \in Seq(Event)
  /\ Analyzable \subseteq Event
  /\ Unwritable \subseteq Analyzable
  /\ BufferEvents \in Nat \ {0}
  /\ IdleExit \in BOOLEAN
  /\ Limit \in [Faults -> Nat]
  /\ None \notin Nat

VARIABLES
  hw,         \* records published so far
  committed,  \* the group's committed offset
  done,       \* records of the current poll gone through
  upto,       \* end of the current poll
  owned,      \* the group session that served the current poll is alive
  pc,         \* "down", "poll", "batch", "exit" (Run has returned)
  buffer,     \* positions whose rows are not written yet
  analyzed,   \* Consumer.analyzed
  cancelled,  \* SIGTERM: the context of every call is cancelled
  estimates,  \* events that have their rows
  declared,   \* run_config.analyzed_events
  dropped,    \* (history) positions whose rows went with a failed write of
              \* which the loop only counted the error
  faults      \* faults spent so far

topicVars == <<hw, committed>>
pollVars  == <<done, upto, owned, pc, buffer, analyzed, cancelled>>
tableVars == <<estimates, declared, dropped>>
vars      == <<topicVars, pollVars, tableVars, faults>>

-----------------------------------------------------------------------------
EventsAt(S) == {Topic[i] : i \in S}

\* No row is malformed, and the unique index finds no second set of rows, in the
\* table or in the statement itself.
Acceptable(B) ==
  /\ EventsAt(B) \cap Unwritable = {}
  /\ EventsAt(B) \cap estimates = {}
  /\ \A i, j \in B : Topic[i] = Topic[j] => i = j

Spend(f) == /\ faults[f] < Limit[f]
            /\ faults' = [faults EXCEPT ![f] = @ + 1]

Insert(B) == estimates' = estimates \cup EventsAt(B)

\* The statement reports an error: it was refused, its context is cancelled, or
\* the database failed, after having done the work perhaps.
InsertFails(B) ==
  /\ \/ ~Acceptable(B) /\ UNCHANGED faults
     \/ cancelled /\ UNCHANGED faults
     \/ Spend("sink")
  /\ UNCHANGED estimates \/ (Acceptable(B) /\ Insert(B))

\* Process memory is gone; the next process resumes at the committed offset.
Forget(offset) ==
  /\ done' = offset
  /\ upto' = offset
  /\ owned' = TRUE
  /\ buffer' = {}
  /\ cancelled' = FALSE

\* Run returns. Its buffer is empty whenever it does (a flush empties it even
\* if the write fails), so the flush at the end of main never finds anything.
Return(offset) == Forget(offset) /\ pc' = "exit" /\ UNCHANGED analyzed

-----------------------------------------------------------------------------
Init ==
  /\ hw = 0
  /\ committed = 0
  /\ done = 0
  /\ upto = 0
  /\ owned = TRUE
  /\ pc = "down"
  /\ buffer = {}
  /\ analyzed = 0
  /\ cancelled = FALSE
  /\ estimates = {}
  /\ declared = None
  /\ dropped = {}
  /\ faults = [f \in Faults |-> 0]

Publish ==
  /\ hw < Len(Topic)
  /\ hw' = hw + 1
  /\ UNCHANGED <<committed, pollVars, tableVars, faults>>

\* With a bounded sample (buildSampler) this waits for the end of the
\* simulation: a special case of what happens here.
Start ==
  /\ pc = "down"
  /\ pc' = "poll"
  /\ analyzed' = 0
  /\ UNCHANGED <<topicVars, done, upto, owned, buffer, cancelled, tableVars, faults>>

Poll ==
  /\ pc = "poll"
  /\ upto' \in (committed + 1)..hw
  /\ pc' = "batch"
  /\ UNCHANGED <<topicVars, done, owned, buffer, analyzed, cancelled, tableVars, faults>>

Next1  == done + 1
InHand == pc = "batch" /\ done < upto

\* Mutant: a record that cannot be used ends the process.
PassOverAndReturn ==
  /\ InHand
  /\ Topic[Next1] \notin Analyzable
  /\ Return(committed)
  /\ UNCHANGED <<topicVars, tableVars, faults>>

\* Does not decode, belongs to another run, is outside the sample, or no mass
\* can be made for its cell.
PassOver ==
  /\ InHand
  /\ Topic[Next1] \notin Analyzable
  /\ done' = Next1
  /\ UNCHANGED <<topicVars, upto, owned, pc, buffer, analyzed, cancelled, tableVars, faults>>

Filled == buffer \cup {Next1}

\* Mutant: the buffer is written and not emptied.
HandleKeepingBuffer ==
  /\ InHand
  /\ Topic[Next1] \in Analyzable
  /\ buffer' = Filled
  /\ IF Cardinality(Filled) < BufferEvents
     THEN UNCHANGED estimates
     ELSE ~cancelled /\ Acceptable(Filled) /\ Insert(Filled)
  /\ analyzed' = analyzed + 1
  /\ done' = Next1
  /\ UNCHANGED <<topicVars, upto, owned, pc, cancelled, declared, dropped, faults>>

\* Process and Handle; the event that fills the buffer writes it.
Handle ==
  /\ InHand
  /\ Topic[Next1] \in Analyzable
  /\ IF Cardinality(Filled) < BufferEvents
     THEN buffer' = Filled /\ UNCHANGED estimates
     ELSE /\ ~cancelled
          /\ Acceptable(Filled)
          /\ Insert(Filled)
          /\ buffer' = {}
  /\ analyzed' = analyzed + 1
  /\ done' = Next1
  /\ UNCHANGED <<topicVars, upto, owned, pc, cancelled, declared, dropped, faults>>

\* Mutant: the events of the lost buffer are taken out of the counter.
HandleFailsUncounted ==
  /\ InHand
  /\ Topic[Next1] \in Analyzable
  /\ Cardinality(Filled) >= BufferEvents
  /\ InsertFails(Filled)
  /\ buffer' = {}
  /\ dropped' = dropped \cup Filled
  /\ done' = Next1
  /\ analyzed' = analyzed - Cardinality(buffer)
  /\ UNCHANGED <<topicVars, upto, owned, pc, cancelled, declared>>

\* The write in Handle fails: the buffer has been taken, the loop counts the
\* error, leaves this one event uncounted and goes on.
HandleFails ==
  /\ InHand
  /\ Topic[Next1] \in Analyzable
  /\ Cardinality(Filled) >= BufferEvents
  /\ InsertFails(Filled)
  /\ buffer' = {}
  /\ dropped' = dropped \cup Filled
  /\ done' = Next1
  /\ UNCHANGED <<topicVars, upto, owned, pc, analyzed, cancelled, declared>>

BatchDone == pc = "batch" /\ done = upto

FlushBatch ==
  /\ BatchDone
  /\ buffer # {}
  /\ ~cancelled
  /\ Acceptable(buffer)
  /\ Insert(buffer)
  /\ buffer' = {}
  /\ UNCHANGED <<topicVars, done, upto, owned, pc, analyzed, cancelled, declared, dropped, faults>>

\* Mutant: the failed write at the end of the batch is only logged.
FlushFailsLogged ==
  /\ BatchDone
  /\ buffer # {}
  /\ InsertFails(buffer)
  /\ buffer' = {}
  /\ UNCHANGED <<topicVars, done, upto, owned, pc, analyzed, cancelled, declared, dropped>>

\* The write at the end of the batch fails: Run returns, nothing is committed.
FlushFails ==
  /\ BatchDone
  /\ buffer # {}
  /\ InsertFails(buffer)
  /\ Return(committed)
  /\ UNCHANGED <<topicVars, declared, dropped>>

Flushed == BatchDone /\ buffer = {}

\* Mutant: commits up to the end of the topic.
CommitHighWater ==
  /\ Flushed
  /\ ~cancelled
  /\ pc' = "poll"
  /\ committed' = hw
  /\ owned' = TRUE
  /\ UNCHANGED <<hw, done, upto, buffer, analyzed, cancelled, tableVars, faults>>

\* CommitUncommittedOffsets; nothing is left to commit when the session is gone.
Commit ==
  /\ Flushed
  /\ ~cancelled
  /\ pc' = "poll"
  /\ IF owned
     THEN committed' = upto /\ UNCHANGED <<done, upto>>
     ELSE done' = committed /\ upto' = committed /\ UNCHANGED committed
  /\ owned' = TRUE
  /\ UNCHANGED <<hw, buffer, analyzed, cancelled, tableVars, faults>>

\* The commit reports an error; the broker may have taken it all the same.
CommitFails ==
  /\ Flushed
  /\ IF cancelled \/ ~owned THEN UNCHANGED faults ELSE Spend("broker")
  /\ committed' \in {committed} \cup (IF owned THEN {upto} ELSE {})
  /\ Return(committed')
  /\ UNCHANGED <<hw, tableVars>>

SessionLost ==
  /\ pc = "batch"
  /\ owned
  /\ Spend("session")
  /\ owned' = FALSE
  /\ UNCHANGED <<topicVars, done, upto, pc, buffer, analyzed, cancelled, tableVars>>

Signal ==
  /\ pc \in {"poll", "batch"}
  /\ ~cancelled
  /\ Spend("signal")
  /\ cancelled' = TRUE
  /\ UNCHANGED <<topicVars, done, upto, owned, pc, buffer, analyzed, tableVars>>

\* The top of the loop under a cancelled context, a fetch error, or the idle
\* clock: it is set after a batch, so it runs out only when nothing came.
Leave ==
  /\ pc = "poll"
  /\ \/ cancelled /\ UNCHANGED faults
     \/ Spend("broker")
     \/ IdleExit /\ hw = committed /\ UNCHANGED faults
  /\ Return(committed)
  /\ UNCHANGED <<topicVars, tableVars>>

\* SetAnalyzedEvents, whatever Run returned.
Declare ==
  /\ pc = "exit"
  /\ declared' = analyzed
  /\ analyzed' = 0
  /\ pc' = "down"
  /\ UNCHANGED <<topicVars, done, upto, owned, buffer, cancelled, estimates, dropped, faults>>

DeclareFails ==
  /\ pc = "exit"
  /\ Spend("sink")
  /\ declared' \in {declared, analyzed}
  /\ analyzed' = 0
  /\ pc' = "down"
  /\ UNCHANGED <<topicVars, done, upto, owned, buffer, cancelled, estimates, dropped>>

Crash ==
  /\ pc # "down"
  /\ Spend("crash")
  /\ Forget(committed)
  /\ analyzed' = 0
  /\ pc' = "down"
  /\ UNCHANGED <<topicVars, tableVars>>

Next ==
  \/ Publish \/ Start \/ Poll
  \/ PassOver \/ Handle \/ HandleFails \/ FlushBatch \/ FlushFails
  \/ Commit \/ CommitFails
  \/ SessionLost \/ Signal \/ Leave \/ Declare \/ DeclareFails \/ Crash

Spec == Init /\ [][Next]_vars

\* The simulator produces, a supervisor restarts the process, and the loop has
\* no branch that waits for anything but the broker and the database.
Fairness ==
  /\ WF_vars(Publish) /\ WF_vars(Start) /\ WF_vars(Poll)
  /\ WF_vars(PassOver \/ Handle \/ HandleFails)
  /\ WF_vars(FlushBatch \/ FlushFails)
  /\ WF_vars(Commit \/ CommitFails)
  /\ WF_vars(Declare \/ DeclareFails)

FairSpec == Spec /\ Fairness

-----------------------------------------------------------------------------
Is(S) == {i \in S : Topic[i] \in Analyzable}
Estimated(S) == EventsAt(Is(S)) \subseteq estimates
NoFault(F) == \A f \in F : faults[f] = 0
Interruptions == Faults \ {"sink"}
Writable(S) == EventsAt(Is(S)) \cap Unwritable = {}

TypeOK ==
  /\ hw \in 0..Len(Topic)
  /\ committed \in Nat /\ done \in Nat /\ upto \in Nat
  /\ committed <= done /\ done <= upto /\ upto <= hw
  /\ owned \in BOOLEAN
  /\ pc \in {"down", "poll", "batch", "exit"}
  /\ buffer \subseteq Is((committed + 1)..done)
  /\ Cardinality(buffer) < BufferEvents
  /\ analyzed \in Nat
  /\ cancelled \in BOOLEAN
  /\ estimates \subseteq Analyzable
  /\ declared \in Nat \cup {None}
  /\ dropped \subseteq Is(1..hw)
  /\ faults \in [Faults -> Nat]

\* persist.go:14-20, driver/consumer.go:136-137: an offset is committed only
\* when its rows are written; the one exception is a write that failed inside
\* Handle.
CommittedEstimatedOrDropped ==
  \A i \in Is(1..committed) : Topic[i] \in estimates \/ i \in dropped

\* Without a fault and without a malformed row, in any number of processes one
\* after the other and for every cut of the topic into polls, no statement is
\* ever refused and no estimate is lost. (The topic holds each event once.)
UndisturbedRunComplete ==
  NoFault(Faults) /\ Writable(1..hw) =>
    /\ Estimated(1..committed)
    /\ dropped = {}
    /\ Acceptable(buffer)

\* 006_integrity_detection.sql:249-264, check four: in the first process, with
\* nothing delivered twice, lost estimates show, be it that any number of
\* statements is refused for malformed rows or that a single one fails: the
\* counter does not match the rows. (Refused and failed statements together
\* can cancel each other out: one that failed after it was executed leaves the
\* counter behind the table.)
OneFailureShows ==
  /\ declared = None
  /\ NoFault(Interruptions)
  /\ faults["sink"] = 0 \/ (faults["sink"] = 1 /\ Writable(1..hw))
  /\ pc = "poll"
  /\ analyzed = Cardinality(estimates)
  => Estimated(1..committed)

\* estimates.go:100-102: what is lost is not lost in silence. When everything is
\* consumed, declared and accepted by check four, every event of the sample has
\* its estimates.
NoSilentLoss ==
  /\ pc = "down"
  /\ committed = Len(Topic)
  /\ declared = Cardinality(estimates)
  => Estimated(1..committed)

\* The offset discipline all consumers share.
TC == INSTANCE TopicConsumer
        WITH Partition <- {1},
             committed <- [p \in {1} |-> committed],
             settled   <- {1} \X {i \in 1..Len(Topic) :
                                    Topic[i] \in Analyzable =>
                                      Topic[i] \in estimates \/ i \in dropped}
KeepsOffsetDiscipline == TC!Consumer

\* driver/consumer.go:173-175, 260-264: the topic is consumed in the end. One
\* thing alone can hold it up for ever: the buffer left at the end of a poll is
\* refused, for rows that are stored without their offset or for a malformed
\* row, and Run returns, again in every process.
EventuallyAnalyzed ==
  \/ <>[](committed = Len(Topic))
  \/ []<>(BatchDone /\ ~Acceptable(buffer))
=============================================================================
