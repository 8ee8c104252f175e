--------------------------- MODULE RecordPersister ---------------------------
(***************************************************************************)
(* The generic persister (internal/persist/consumer.go) in its two roles,  *)
(* hts.records -> hts_records and hts.groundtruth -> ground_truth          *)
(* (cmd/persister): poll, decode, write in chunks of BatchRows, and a      *)
(* chunk the database refuses again row by row, giving up on single rows;  *)
(* then commit the offsets.                                                *)
(*                                                                         *)
(* The topic is one sequence: partitions only change the order in which    *)
(* records arrive, and every property here is about one record. Nothing    *)
(* here asks that the records of the topic be different: an event that     *)
(* stands in it twice would be stored once.                                *)
(***************************************************************************)
EXTENDS Integers, Sequences, FiniteSets

CONSTANTS
  Event,
  Topic,      \* the records in production order
  Kind,       \* "good", "garbled" (does not decode), "poison" (a row the
              \* database or the row check always refuses)
  BatchRows,  \* rows of one INSERT
  IdleExit,   \* HTS_IDLE_TIMEOUT is set
  Limit       \* how often each fault may happen (a bound of the model)

Faults == {"crash", "session", "sink", "broker", "signal"}

ASSUME PersisterAssumption ==
  /\ Topic \in Seq(Event)
  /\ Kind \in [Event -> {"good", "garbled", "poison"}]
  /\ BatchRows \in Nat \ {0}
  /\ IdleExit \in BOOLEAN
  /\ Limit \in [Faults -> Nat]

VARIABLES
  hw,         \* records published so far
  committed,  \* the group's committed offset
  upto,       \* end of the current poll
  owned,      \* the group session that served the current poll is alive
  pc,         \* "down", "poll", "write" (a decoded poll in hand)
  batch,      \* positions decoded and not yet written
  rows,       \* of these, the refused chunk that is written row by row
  late,       \* the last batch took longer than the idle timeout (if there is one)
  cancelled,  \* SIGTERM: the context of every call is cancelled
  stored,     \* events in the table
  refused,    \* events the log names as not written
  faults      \* faults spent so far

topicVars == <<hw, committed>>
pollVars  == <<upto, owned, pc, batch, rows, late, cancelled>>
tableVars == <<stored, refused>>
vars      == <<topicVars, pollVars, tableVars, faults>>

-----------------------------------------------------------------------------
EventsAt(S) == {Topic[i] : i \in S}
KindAt(i)   == Kind[Topic[i]]

\* The rows the next INSERT takes: the first BatchRows of the batch.
IsChunk(C) ==
  /\ C # {}
  /\ C \subseteq batch
  /\ \A i \in C : \A j \in batch \ C : i < j
  /\ Cardinality(C) <= BatchRows
  /\ C = batch \/ Cardinality(C) = BatchRows

Acceptable(C) == \A i \in C : KindAt(i) = "good"

Spend(f) == /\ faults[f] < Limit[f]
            /\ faults' = [faults EXCEPT ![f] = @ + 1]

\* Process memory is gone; the next process resumes at the committed offset.
Leave(offset) ==
  /\ pc' = "down"
  /\ upto' = offset
  /\ owned' = TRUE
  /\ batch' = {}
  /\ rows' = {}
  /\ late' = FALSE
  /\ cancelled' = FALSE

\* INSERT ... ON CONFLICT DO NOTHING is one statement: all rows or none.
Insert(C) == stored' = stored \cup EventsAt(C)

\* It reports an error. If the rows are to blame nothing was written; else the
\* database may have written them all the same.
InsertFails(C) == UNCHANGED stored \/ (Acceptable(C) /\ Insert(C))

-----------------------------------------------------------------------------
Init ==
  /\ hw = 0
  /\ committed = 0
  /\ upto = 0
  /\ owned = TRUE
  /\ pc = "down"
  /\ batch = {}
  /\ rows = {}
  /\ late = FALSE
  /\ cancelled = FALSE
  /\ stored = {}
  /\ refused = {}
  /\ faults = [f \in Faults |-> 0]

Publish ==
  /\ hw < Len(Topic)
  /\ hw' = hw + 1
  /\ UNCHANGED <<committed, pollVars, tableVars, faults>>

Start ==
  /\ pc = "down"
  /\ pc' = "poll"
  /\ UNCHANGED <<topicVars, upto, owned, batch, rows, late, cancelled, tableVars, faults>>

\* PollFetches and the decoding of everything it returned; a message that does
\* not decode is logged and passed over. (A cancelled poll still hands out what
\* the client has buffered, if it has any.)
Poll ==
  /\ pc = "poll"
  /\ ~late
  /\ \E end \in (committed + 1)..hw :
       LET fetched == (committed + 1)..end
           garbled == {i \in fetched : KindAt(i) = "garbled"}
       IN /\ upto' = end
          /\ batch' = fetched \ garbled
          /\ refused' = refused \cup EventsAt(garbled)
  /\ pc' = "write"
  /\ UNCHANGED <<topicVars, owned, rows, late, cancelled, stored, faults>>

Writing == pc = "write" /\ rows = {}

WriteChunk ==
  /\ Writing
  /\ ~cancelled
  /\ \E C \in SUBSET batch :
       /\ IsChunk(C)
       /\ Acceptable(C)
       /\ Insert(C)
       /\ batch' = batch \ C
  /\ UNCHANGED <<topicVars, upto, owned, pc, rows, late, cancelled, refused, faults>>

\* Mutant: the refused chunk is passed over.
SkipRefusedChunk ==
  /\ Writing
  /\ ~cancelled
  /\ \E C \in SUBSET batch :
       /\ IsChunk(C)
       /\ \/ ~Acceptable(C) /\ UNCHANGED faults
          \/ Spend("sink")
       /\ InsertFails(C)
       /\ batch' = batch \ C
  /\ UNCHANGED <<topicVars, upto, owned, pc, rows, late, cancelled, refused>>

\* One refused row refuses the chunk; its rows are then tried one by one.
RefuseChunk ==
  /\ Writing
  /\ ~cancelled
  /\ \E C \in SUBSET batch :
       /\ IsChunk(C)
       /\ \/ ~Acceptable(C) /\ UNCHANGED faults
          \/ Spend("sink")
       /\ InsertFails(C)
       /\ rows' = C
  /\ UNCHANGED <<topicVars, upto, owned, pc, batch, late, cancelled, refused>>

NextRow(i) == i \in rows /\ \A j \in rows : i <= j

Drop(i) == rows' = rows \ {i} /\ batch' = batch \ {i}

WriteRow ==
  /\ ~cancelled
  /\ \E i \in rows :
       /\ NextRow(i)
       /\ Acceptable({i})
       /\ Insert({i})
       /\ Drop(i)
  /\ UNCHANGED <<topicVars, upto, owned, pc, late, cancelled, refused, faults>>

\* Mutant: a row that is refused ends the process.
RefuseRowAndLeave ==
  /\ ~cancelled
  /\ \E i \in rows :
       /\ NextRow(i)
       /\ \/ ~Acceptable({i}) /\ UNCHANGED faults
          \/ Spend("sink")
       /\ InsertFails({i})
  /\ Leave(committed)
  /\ UNCHANGED <<topicVars, refused>>

\* Mutant: the first refused row ends the row by row retry.
RefuseRowAndRest ==
  /\ ~cancelled
  /\ \E i \in rows :
       /\ NextRow(i)
       /\ \/ ~Acceptable({i}) /\ UNCHANGED faults
          \/ Spend("sink")
       /\ InsertFails({i})
       /\ refused' = refused \cup EventsAt(rows)
  /\ batch' = batch \ rows
  /\ rows' = {}
  /\ UNCHANGED <<topicVars, upto, owned, pc, late, cancelled>>

\* The row is refused on its own, or the database fails again: it is logged,
\* counted and passed over.
RefuseRow ==
  /\ ~cancelled
  /\ \E i \in rows :
       /\ NextRow(i)
       /\ \/ ~Acceptable({i}) /\ UNCHANGED faults
          \/ Spend("sink")
       /\ InsertFails({i})
       /\ refused' = refused \cup EventsAt({i})
       /\ Drop(i)
  /\ UNCHANGED <<topicVars, upto, owned, pc, late, cancelled>>

\* A write under a cancelled context fails and ends the process.
WriteCancelled ==
  /\ pc = "write"
  /\ cancelled
  /\ \/ \E C \in SUBSET batch : rows = {} /\ IsChunk(C) /\ InsertFails(C)
     \/ \E i \in rows : NextRow(i) /\ InsertFails({i})
  /\ Leave(committed)
  /\ UNCHANGED <<topicVars, refused, faults>>

Flushed == pc = "write" /\ batch = {}

\* Mutant: commits without waiting for the retried rows.
CommitUnflushed ==
  /\ pc = "write"
  /\ ~cancelled
  /\ pc' = "poll"
  /\ IF owned
     THEN committed' = upto /\ UNCHANGED upto
     ELSE upto' = committed /\ UNCHANGED committed
  /\ owned' = TRUE
  /\ batch' = {}
  /\ rows' = {}
  /\ late' \in {FALSE, IdleExit}
  /\ UNCHANGED <<hw, cancelled, tableVars, faults>>

\* Mutant: commits up to the end of the topic.
CommitHighWater ==
  /\ Flushed
  /\ ~cancelled
  /\ pc' = "poll"
  /\ committed' = hw
  /\ owned' = TRUE
  /\ late' = FALSE
  /\ UNCHANGED <<hw, upto, batch, rows, cancelled, tableVars, faults>>

\* CommitUncommittedOffsets; nothing is left to commit when the session is
\* gone. The idle clock was set before the batch was written, so a batch that
\* took long has used it up (late).
Commit ==
  /\ Flushed
  /\ ~cancelled
  /\ pc' = "poll"
  /\ IF owned
     THEN committed' = upto /\ UNCHANGED upto
     ELSE upto' = committed /\ UNCHANGED committed
  /\ owned' = TRUE
  /\ late' \in {FALSE, IdleExit}
  /\ UNCHANGED <<hw, batch, rows, cancelled, tableVars, faults>>

\* The commit reports an error; the broker may have taken it all the same.
CommitFails ==
  /\ Flushed
  /\ IF cancelled \/ ~owned THEN UNCHANGED faults ELSE Spend("broker")
  /\ committed' \in {committed} \cup (IF owned THEN {upto} ELSE {})
  /\ Leave(committed')
  /\ UNCHANGED <<hw, tableVars>>

SessionLost ==
  /\ pc = "write"
  /\ owned
  /\ Spend("session")
  /\ owned' = FALSE
  /\ UNCHANGED <<topicVars, upto, pc, batch, rows, late, cancelled, tableVars>>

Signal ==
  /\ pc # "down"
  /\ ~cancelled
  /\ Spend("signal")
  /\ cancelled' = TRUE
  /\ UNCHANGED <<topicVars, upto, owned, pc, batch, rows, late, tableVars>>

\* The top of the loop under a cancelled context, or a fetch error. The buffer
\* is empty there, so there is nothing to flush.
Interrupted ==
  /\ pc = "poll"
  /\ \/ cancelled /\ UNCHANGED faults
     \/ Spend("broker")
  /\ Leave(committed)
  /\ UNCHANGED <<topicVars, tableVars>>

\* The idle clock has run out: polls found nothing for the whole time because
\* there was nothing, or because the broker did not answer; or the last batch
\* took that long.
Idle ==
  /\ pc = "poll"
  /\ IdleExit
  /\ \/ (hw = committed \/ late) /\ UNCHANGED faults
     \/ Spend("broker")
  /\ Leave(committed)
  /\ UNCHANGED <<topicVars, tableVars>>

Crash ==
  /\ pc # "down"
  /\ Spend("crash")
  /\ Leave(committed)
  /\ UNCHANGED <<topicVars, tableVars>>

Next ==
  \/ Publish \/ Start \/ Poll
  \/ WriteChunk \/ RefuseChunk \/ WriteRow \/ RefuseRow \/ WriteCancelled
  \/ Commit \/ CommitFails
  \/ SessionLost \/ Signal \/ Interrupted \/ Idle \/ Crash

Spec == Init /\ [][Next]_vars

\* The simulator produces, a supervisor restarts the process, and the loop has
\* no branch that waits for anything but the broker and the database.
Fairness ==
  /\ WF_vars(Publish) /\ WF_vars(Start) /\ WF_vars(Poll)
  /\ WF_vars(WriteChunk \/ RefuseChunk)
  /\ WF_vars(WriteRow \/ RefuseRow)
  /\ WF_vars(WriteCancelled)
  /\ WF_vars(Commit \/ CommitFails)
  /\ WF_vars(Idle)

FairSpec == Spec /\ Fairness

-----------------------------------------------------------------------------
TypeOK ==
  /\ hw \in 0..Len(Topic)
  /\ committed \in Nat /\ upto \in Nat
  /\ committed <= upto /\ upto <= hw
  /\ owned \in BOOLEAN
  /\ pc \in {"down", "poll", "write"}
  /\ batch \subseteq (committed + 1)..upto
  /\ rows \subseteq batch
  /\ late \in BOOLEAN
  /\ cancelled \in BOOLEAN
  /\ stored \subseteq Event
  /\ refused \subseteq Event
  /\ faults \in [Faults -> Nat]

\* consumer.go:18-21 and :222-225: a record whose offset is committed is in the
\* table or named in the log, whatever crashed, was refused, cancelled or
\* redelivered; nothing is lost in silence.
CommittedStoredOrReported ==
  \A i \in 1..committed : Topic[i] \in stored \cup refused

\* consumer.go:217-225: a refused chunk is retried row by row so that one bad
\* row costs itself and not its neighbours. The table never lacks more good
\* rows of the committed part than statements have failed for reasons of the
\* database: a poisoned neighbour alone costs none, a failed chunk alone none.
LostRows == {Topic[i] : i \in {j \in 1..committed : KindAt(j) = "good"}} \ stored
EachFailureCostsAtMostOneRow == Cardinality(LostRows) <= faults["sink"]

\* consumer.go:68-69: the time after which the consumer stops by itself is the
\* time without any message. It stops on a drained topic, or because the broker
\* did not answer.
IdleOnlyWhenDrained ==
  [][Idle => committed = hw \/ faults["broker"] < faults'["broker"]]_vars

\* The offset discipline all consumers share.
TC == INSTANCE TopicConsumer
        WITH Partition <- {1},
             committed <- [p \in {1} |-> committed],
             settled   <- {1} \X {i \in 1..Len(Topic) : Topic[i] \in stored \cup refused}
KeepsOffsetDiscipline == TC!Consumer

\* consumer.go:217-221: one poisoned row must not keep the rest of the run out
\* of the table for ever, restart after restart.
EventuallyPersisted == <>[](committed = Len(Topic))
=============================================================================
