------------------------ MODULE RecordPersisterProofs ------------------------
(***************************************************************************)
(* Proofs about the persister for every topic, every kind of record, every *)
(* chunk size and any number of faults.                                    *)
(*                                                                         *)
(* The argument. Whatever part of a poll is no longer in the batch has     *)
(* been written or named in the log, and the batch is empty wherever an    *)
(* offset can move: so the offset moves over accounted records only.       *)
(***************************************************************************)
EXTENDS RecordPersister, FiniteSetTheorems, TLAPS

\* The record is in the table, or the log names it.
Accounted(i) == Topic[i] \in stored \cup refused

\* Polled records are accounted for or still in the batch, and only a process
\* that writes has a batch.
NothingForgotten ==
  /\ \A i \in 1..upto : i \in batch \/ Accounted(i)
  /\ pc # "write" => upto = committed /\ batch = {}

PInv == TypeOK /\ NothingForgotten

-----------------------------------------------------------------------------
LEMMA TopicTypes ==
  /\ Len(Topic) \in Nat
  /\ \A i \in 1..Len(Topic) : Topic[i] \in Event
BY PersisterAssumption

\* Spending a fault keeps the account of faults in its type.
LEMMA Spent ==
  ASSUME faults \in [Faults -> Nat], NEW f \in Faults, Spend(f)
  PROVE  faults' \in [Faults -> Nat]
BY DEF Spend

\* Positions of the current poll name events.
LEMMA BatchEvents ==
  ASSUME TypeOK, NEW C, C \subseteq batch
  PROVE  EventsAt(C) \subseteq Event
<1>1. \A i \in batch : i \in 1..Len(Topic)
  BY TopicTypes DEF TypeOK
<1> QED
  BY <1>1, TopicTypes DEF EventsAt

\* A statement, done or refused, takes nothing out of the table.
LEMMA TableGrows ==
  ASSUME TypeOK, NEW C, C \subseteq batch, Insert(C) \/ InsertFails(C)
  PROVE  stored \subseteq stored' /\ stored' \subseteq Event
BY BatchEvents DEF Insert, InsertFails, TypeOK

\* Whatever ends the process, it starts again at the committed offset with
\* everything before it accounted for.
LEMMA Restarted ==
  ASSUME PInv, NEW offset, offset \in Nat, Leave(offset),
         committed' = offset, hw' = hw, offset <= hw,
         stored \subseteq stored', stored' \subseteq Event,
         refused' = refused, faults' \in [Faults -> Nat],
         \A i \in 1..offset : Accounted(i)
  PROVE  PInv'
<1>1. TypeOK'
  <2>1. rows' \subseteq batch' /\ batch' \subseteq (committed' + 1)..upto'
    BY DEF Leave
  <2>2. hw' \in 0..Len(Topic) /\ committed' <= upto' /\ upto' <= hw'
    BY TopicTypes DEF PInv, TypeOK, Leave
  <2> QED
    BY <2>1, <2>2 DEF PInv, TypeOK, Leave
<1>2. NothingForgotten'
  BY DEF NothingForgotten, Accounted, Leave
<1> QED
  BY <1>1, <1>2 DEF PInv

\* What is committed is accounted for.
LEMMA CommittedAccounted ==
  ASSUME PInv
  PROVE  /\ committed \in Nat /\ upto \in Nat /\ hw \in Nat
         /\ committed <= upto /\ upto <= hw
         /\ \A i \in 1..committed : Accounted(i)
         /\ batch = {} => \A i \in 1..upto : Accounted(i)
<1>1. /\ committed \in Nat /\ upto \in Nat /\ hw \in Nat
      /\ committed <= upto /\ upto <= hw
  BY TopicTypes DEF PInv, TypeOK
<1>2. \A i \in 1..committed : i \in 1..upto /\ i \notin batch
  BY <1>1 DEF PInv, TypeOK
<1> QED
  BY <1>1, <1>2 DEF PInv, NothingForgotten

\* A process that leaves without having moved the offset.
LEMMA LeftBehind ==
  ASSUME PInv, Leave(committed), UNCHANGED topicVars, refused' = refused,
         stored \subseteq stored', stored' \subseteq Event,
         faults' \in [Faults -> Nat]
  PROVE  PInv'
BY CommittedAccounted, Restarted DEF topicVars

\* Positions that leave the batch are accounted for.
LEMMA BatchShrinks ==
  ASSUME PInv, NEW C, C \subseteq batch, pc = "write",
         batch' = batch \ C, rows' \subseteq batch',
         stored \subseteq stored', stored' \subseteq Event,
         refused \subseteq refused', refused' \subseteq Event,
         \A i \in C : Topic[i] \in stored' \cup refused',
         UNCHANGED <<topicVars, upto, owned, pc, late, cancelled>>,
         faults' \in [Faults -> Nat]
  PROVE  PInv'
<1> USE DEF topicVars
<1>1. TypeOK'
  BY DEF PInv, TypeOK
<1>2. NothingForgotten'
  BY DEF PInv, NothingForgotten, Accounted
<1> QED
  BY <1>1, <1>2 DEF PInv

-----------------------------------------------------------------------------
LEMMA PollKeeps ==
  ASSUME PInv, Poll
  PROVE  PInv'
<1> USE DEF Poll, topicVars
<1>1. PICK end \in (committed + 1)..hw :
        /\ upto' = end
        /\ batch' = ((committed + 1)..end) \
                      {i \in (committed + 1)..end : KindAt(i) = "garbled"}
        /\ refused' = refused \cup
              EventsAt({i \in (committed + 1)..end : KindAt(i) = "garbled"})
  BY DEF Poll
<1> DEFINE G == {i \in (committed + 1)..end : KindAt(i) = "garbled"}
<1>2. /\ committed \in Nat /\ hw \in Nat /\ end \in Nat /\ hw <= Len(Topic)
      /\ rows = {} /\ upto = committed /\ batch = {}
  BY CommittedAccounted, TopicTypes DEF PInv, TypeOK, NothingForgotten
<1>3. EventsAt(G) \subseteq Event
  BY <1>2, TopicTypes DEF EventsAt
<1>4. TypeOK'
  BY <1>1, <1>2, <1>3 DEF PInv, TypeOK
<1>5. NothingForgotten'
  <2> SUFFICES ASSUME NEW i \in 1..end, i \notin batch'
               PROVE  Topic[i] \in stored \cup refused'
    BY <1>1 DEF NothingForgotten, Accounted
  <2>1. CASE i \in 1..committed
    BY <1>1, <2>1, CommittedAccounted DEF Accounted
  <2>2. CASE i \in (committed + 1)..end
    <3>1. i \in G
      BY <1>1, <2>2
    <3>2. Topic[i] \in EventsAt(G)
      BY <3>1 DEF EventsAt
    <3> QED
      BY <1>1, <3>2
  <2> QED
    BY <1>2, <2>1, <2>2
<1> QED
  BY <1>4, <1>5 DEF PInv

LEMMA WriteChunkKeeps ==
  ASSUME PInv, WriteChunk
  PROVE  PInv'
<1>1. PICK C \in SUBSET batch : Insert(C) /\ batch' = batch \ C
  BY DEF WriteChunk
<1>2. stored \subseteq stored' /\ stored' \subseteq Event
  BY <1>1, TableGrows DEF PInv
<1>3. \A i \in C : Topic[i] \in stored'
  BY <1>1 DEF Insert, EventsAt
<1> QED
  BY <1>1, <1>2, <1>3, BatchShrinks DEF WriteChunk, Writing, PInv, TypeOK

\* Nothing leaves the batch: its rows are tried again.
LEMMA RefuseChunkKeeps ==
  ASSUME PInv, RefuseChunk
  PROVE  PInv'
<1>1. PICK C \in SUBSET batch : InsertFails(C) /\ rows' = C
  BY DEF RefuseChunk
<1>2. stored \subseteq stored' /\ stored' \subseteq Event
  BY <1>1, TableGrows DEF PInv
<1>3. faults' \in [Faults -> Nat]
  BY Spent DEF RefuseChunk, Faults, PInv, TypeOK
<1>4. batch' = batch \ {} /\ {} \subseteq batch
  BY DEF RefuseChunk
<1> QED
  BY <1>1, <1>2, <1>3, <1>4, BatchShrinks DEF RefuseChunk, Writing, PInv, TypeOK

LEMMA RowsInBatch ==
  ASSUME PInv, NEW i \in rows
  PROVE  i \in batch /\ {i} \subseteq batch /\ pc = "write"
BY DEF PInv, TypeOK, NothingForgotten

LEMMA WriteRowKeeps ==
  ASSUME PInv, WriteRow
  PROVE  PInv'
<1>1. PICK i \in rows : Insert({i}) /\ Drop(i)
  BY DEF WriteRow
<1>2. {i} \subseteq batch /\ pc = "write"
  BY <1>1, RowsInBatch
<1>3. stored \subseteq stored' /\ stored' \subseteq Event
  BY <1>1, <1>2, TableGrows DEF PInv
<1>4. \A j \in {i} : Topic[j] \in stored'
  BY <1>1 DEF Insert, EventsAt
<1>5. batch' = batch \ {i} /\ rows' \subseteq batch'
  BY <1>1 DEF Drop, PInv, TypeOK
<1> QED
  BY <1>2, <1>3, <1>4, <1>5, BatchShrinks DEF WriteRow, PInv, TypeOK

LEMMA RefuseRowKeeps ==
  ASSUME PInv, RefuseRow
  PROVE  PInv'
<1>1. PICK i \in rows : /\ InsertFails({i})
                        /\ refused' = refused \cup EventsAt({i})
                        /\ Drop(i)
  BY DEF RefuseRow
<1>2. {i} \subseteq batch /\ pc = "write"
  BY <1>1, RowsInBatch
<1>3. /\ stored \subseteq stored' /\ stored' \subseteq Event
      /\ EventsAt({i}) \subseteq Event
  BY <1>1, <1>2, TableGrows, BatchEvents DEF PInv
<1>4. faults' \in [Faults -> Nat]
  BY Spent DEF RefuseRow, Faults, PInv, TypeOK
<1>5. \A j \in {i} : Topic[j] \in refused'
  BY <1>1 DEF EventsAt
<1>6. batch' = batch \ {i} /\ rows' \subseteq batch'
  BY <1>1 DEF Drop, PInv, TypeOK
<1>7. refused \subseteq refused' /\ refused' \subseteq Event
  BY <1>1, <1>3 DEF PInv, TypeOK
<1> QED
  BY <1>2, <1>3, <1>4, <1>5, <1>6, <1>7, BatchShrinks DEF RefuseRow

LEMMA WriteCancelledKeeps ==
  ASSUME PInv, WriteCancelled
  PROVE  PInv'
<1>1. PICK C \in SUBSET batch : InsertFails(C)
  BY RowsInBatch DEF WriteCancelled
<1>2. stored \subseteq stored' /\ stored' \subseteq Event
  BY <1>1, TableGrows DEF PInv
<1> QED
  BY <1>2, LeftBehind DEF WriteCancelled, PInv, TypeOK

\* The commit moves to the end of the poll, all of which is accounted for.
LEMMA CommitKeeps ==
  ASSUME PInv, Commit
  PROVE  PInv'
<1> USE DEF Commit, Flushed, tableVars
<1>1. /\ committed \in Nat /\ upto \in Nat /\ committed <= upto /\ upto <= hw
      /\ \A i \in 1..upto : Accounted(i)
      /\ \A i \in 1..committed : Accounted(i)
  BY CommittedAccounted
<1>2. upto' = committed' /\ (committed' = upto \/ committed' = committed)
  OBVIOUS
<1>3. late' \in BOOLEAN
  BY PersisterAssumption
<1>4. TypeOK'
  BY <1>1, <1>2, <1>3, TopicTypes DEF PInv, TypeOK
<1>5. NothingForgotten'
  BY <1>1, <1>2 DEF NothingForgotten, Accounted
<1> QED
  BY <1>4, <1>5 DEF PInv

LEMMA CommitFailsKeeps ==
  ASSUME PInv, CommitFails
  PROVE  PInv'
<1>1. /\ committed' = committed \/ committed' = upto
      /\ committed' \in Nat /\ committed' <= hw
      /\ \A i \in 1..committed' : Accounted(i)
  BY CommittedAccounted DEF CommitFails, Flushed
<1>2. faults' \in [Faults -> Nat]
  BY Spent DEF CommitFails, Faults, PInv, TypeOK
<1> QED
  BY <1>1, <1>2, Restarted DEF CommitFails, tableVars, PInv, TypeOK

LEMMA RestKeeps ==
  ASSUME PInv, Publish \/ Start \/ SessionLost \/ Signal
  PROVE  PInv'
<1> USE DEF topicVars, pollVars, tableVars
<1>1. CASE Publish
  BY <1>1, TopicTypes DEF Publish, PInv, TypeOK, NothingForgotten, Accounted
<1>2. CASE Start
  BY <1>2 DEF Start, PInv, TypeOK, NothingForgotten, Accounted
<1>3. CASE SessionLost \/ Signal
  <2>1. faults' \in [Faults -> Nat]
    BY <1>3, Spent DEF SessionLost, Signal, Faults, PInv, TypeOK
  <2> QED
    BY <1>3, <2>1 DEF SessionLost, Signal, PInv, TypeOK, NothingForgotten, Accounted
<1> QED
  BY <1>1, <1>2, <1>3

LEMMA EndKeeps ==
  ASSUME PInv, Interrupted \/ Idle \/ Crash
  PROVE  PInv'
<1>1. faults' \in [Faults -> Nat]
  BY Spent DEF Interrupted, Idle, Crash, Faults, PInv, TypeOK
<1>2. Leave(committed) /\ UNCHANGED <<topicVars, tableVars>>
  BY DEF Interrupted, Idle, Crash
<1> QED
  BY <1>1, <1>2, LeftBehind DEF tableVars, PInv, TypeOK

LEMMA StepKeeps ==
  ASSUME PInv, [Next]_vars
  PROVE  PInv'
<1>1. CASE Next
  BY <1>1, RestKeeps, EndKeeps, PollKeeps, WriteChunkKeeps, RefuseChunkKeeps,
     WriteRowKeeps, RefuseRowKeeps, WriteCancelledKeeps, CommitKeeps, CommitFailsKeeps
     DEF Next
<1>2. CASE UNCHANGED vars
  BY <1>2 DEF vars, topicVars, pollVars, tableVars, PInv, TypeOK, NothingForgotten, Accounted
<1> QED
  BY <1>1, <1>2

LEMMA InitEstablishes == Init => PInv
<1> SUFFICES ASSUME Init
             PROVE  PInv
  OBVIOUS
<1>1. TypeOK
  <2>1. rows \subseteq batch /\ batch \subseteq (committed + 1)..upto
    BY DEF Init
  <2>2. hw \in 0..Len(Topic) /\ faults \in [Faults -> Nat]
    BY TopicTypes DEF Init
  <2>3. stored \subseteq Event /\ refused \subseteq Event
    BY DEF Init
  <2>4. committed \in Nat /\ upto \in Nat /\ committed <= upto /\ upto <= hw
    BY DEF Init
  <2> QED
    BY <2>1, <2>2, <2>3, <2>4 DEF Init, TypeOK
<1>2. NothingForgotten
  BY DEF Init, NothingForgotten
<1> QED
  BY <1>1, <1>2 DEF PInv

\* PInv holds in every reachable state of the persister.
THEOREM PersisterInvariant == Spec => []PInv
<1>1. Init => PInv
  BY InitEstablishes
<1>2. PInv /\ [Next]_vars => PInv'
  BY StepKeeps
<1> QED
  BY <1>1, <1>2, PTL DEF Spec

-----------------------------------------------------------------------------
(* What it says about the code. *)

\* Type correctness: committed <= polled <= published, the rows on their retry
\* belong to the batch, the batch to the current poll.
THEOREM PersisterTypeOK == Spec => []TypeOK
<1>1. PInv => TypeOK
  BY DEF PInv
<1> QED
  BY <1>1, PersisterInvariant, PTL

\* consumer.go:18-21 and :222-225: a committed record is in the table or in the
\* log, for every topic, chunk size and fault history.
THEOREM NothingLostInSilence == Spec => []CommittedStoredOrReported
<1>1. PInv => CommittedStoredOrReported
  BY CommittedAccounted DEF CommittedStoredOrReported, Accounted
<1> QED
  BY <1>1, PersisterInvariant, PTL

Settled == {1} \X {i \in 1..Len(Topic) : Topic[i] \in stored \cup refused}
Offsets == [p \in {1} |-> committed]

\* Table and log only grow.
LEMMA AccountGrows ==
  ASSUME PInv, [Next]_vars
  PROVE  stored \subseteq stored' /\ refused \subseteq refused'
<1>1. \A C : Insert(C) => stored \subseteq stored'
  BY DEF Insert
<1>2. \A C : InsertFails(C) => stored \subseteq stored'
  BY DEF InsertFails, Insert
<1>3. CASE WriteChunk \/ RefuseChunk \/ WriteRow \/ RefuseRow \/ WriteCancelled
  BY <1>1, <1>2, <1>3 DEF WriteChunk, RefuseChunk, WriteRow, RefuseRow, WriteCancelled
<1>4. CASE \/ Publish \/ Start \/ Commit \/ CommitFails
           \/ SessionLost \/ Signal \/ Interrupted \/ Idle \/ Crash
  BY <1>4 DEF Publish, Start, Commit, CommitFails, SessionLost, Signal, Interrupted,
              Idle, Crash, tableVars
<1>5. CASE Poll
  BY <1>5 DEF Poll
<1>6. CASE UNCHANGED vars
  BY <1>6 DEF vars, tableVars
<1> QED
  BY <1>3, <1>4, <1>5, <1>6 DEF Next

\* The offset moves in the two commit steps only, and they write nothing.
LEMMA OffsetMoves ==
  ASSUME PInv, [Next]_vars
  PROVE  \/ committed' = committed
         \/ /\ committed' = upto /\ batch = {}
            /\ stored' = stored /\ refused' = refused
<1>1. CASE Commit \/ CommitFails
  BY <1>1 DEF Commit, CommitFails, Flushed, tableVars
<1>2. CASE UNCHANGED vars
  BY <1>2 DEF vars, topicVars
<1>3. CASE \/ Publish \/ Start \/ Poll \/ WriteChunk \/ RefuseChunk \/ WriteRow
           \/ RefuseRow \/ WriteCancelled \/ SessionLost \/ Signal \/ Interrupted
           \/ Idle \/ Crash
  BY <1>3 DEF Publish, Start, Poll, WriteChunk, RefuseChunk, WriteRow, RefuseRow,
              WriteCancelled, SessionLost, Signal, Interrupted, Idle, Crash, topicVars
<1> QED
  BY <1>1, <1>2, <1>3 DEF Next

LEMMA DisciplineStep ==
  ASSUME PInv, [Next]_vars
  PROVE  [TC!Settle \/ TC!Advance]_<<Offsets, Settled>>
<1>1. CASE committed' = committed
  BY <1>1, AccountGrows DEF TC!Settle, Offsets, Settled
<1>2. CASE /\ committed' = upto /\ batch = {}
           /\ stored' = stored /\ refused' = refused
  <2>1. Settled' = Settled
    BY <1>2 DEF Settled
  <2>2. /\ committed \in Nat /\ upto \in Nat /\ committed <= upto /\ upto <= Len(Topic)
        /\ \A i \in 1..upto : Accounted(i)
    BY <1>2, CommittedAccounted, TopicTypes DEF PInv, TypeOK
  <2>3. \A i \in (committed + 1)..upto : i \in 1..Len(Topic) /\ Accounted(i)
    BY <2>2, TopicTypes
  <2>4. \A i \in (committed + 1)..upto : <<1, i>> \in Settled
    BY <2>3 DEF Settled, Accounted
  <2> QED
    BY <1>2, <2>1, <2>2, <2>4 DEF TC!Advance, Offsets, Settled
<1> QED
  BY <1>1, <1>2, OffsetMoves

\* The persister implements the abstract consumer: its offset moves forward only,
\* over records that are stored or reported, and no such record is ever unsettled.
THEOREM PersisterImplementsConsumer == Spec => KeepsOffsetDiscipline
<1>1. Init => TC!ConsumerInit
  BY DEF Init, TC!ConsumerInit
<1>2. PInv /\ [Next]_vars => [TC!Settle \/ TC!Advance]_<<Offsets, Settled>>
  BY DisciplineStep
<1> QED
  BY <1>1, <1>2, PersisterInvariant, PTL
     DEF Spec, KeepsOffsetDiscipline, TC!Consumer, Offsets, Settled

-----------------------------------------------------------------------------
(* What a failed statement can cost. *)

\* Good records that have left the batch and are not in the table.
Missing == {Topic[i] : i \in {j \in (1..upto) \ batch : KindAt(j) = "good"}} \ stored

CostBounded == IsFiniteSet(Missing) /\ Cardinality(Missing) <= faults["sink"]

\* A step that adds nothing to what is missing keeps the bound.
LEMMA NothingMore ==
  ASSUME TypeOK, CostBounded, Missing' \subseteq Missing,
         faults' \in [Faults -> Nat], faults["sink"] <= faults'["sink"]
  PROVE  CostBounded'
<1>1. IsFiniteSet(Missing') /\ Cardinality(Missing') <= Cardinality(Missing)
  BY FS_Subset DEF CostBounded
<1>2. Cardinality(Missing') \in Nat /\ Cardinality(Missing) \in Nat
  BY <1>1, FS_CardinalityType DEF CostBounded
<1>3. faults["sink"] \in Nat /\ faults'["sink"] \in Nat
  BY DEF TypeOK, Faults
<1> QED
  BY <1>1, <1>2, <1>3 DEF CostBounded

\* One more event may be missing when one more statement has failed.
LEMMA OneMore ==
  ASSUME TypeOK, CostBounded, NEW e, Missing' \subseteq Missing \cup {e},
         faults' \in [Faults -> Nat], faults'["sink"] = faults["sink"] + 1
  PROVE  CostBounded'
<1>1. /\ IsFiniteSet(Missing \cup {e})
      /\ Cardinality(Missing \cup {e}) <= Cardinality(Missing) + 1
  <2>1. IsFiniteSet(Missing) /\ Cardinality(Missing) \in Nat
    BY FS_CardinalityType DEF CostBounded
  <2>2. /\ IsFiniteSet(Missing \cup {e})
        /\ \/ Cardinality(Missing \cup {e}) = Cardinality(Missing)
           \/ Cardinality(Missing \cup {e}) = Cardinality(Missing) + 1
    BY <2>1, FS_AddElement
  <2> QED
    BY <2>1, <2>2
<1>2. IsFiniteSet(Missing') /\ Cardinality(Missing') <= Cardinality(Missing \cup {e})
  BY <1>1, FS_Subset
<1>3. /\ Cardinality(Missing') \in Nat /\ Cardinality(Missing) \in Nat
      /\ Cardinality(Missing \cup {e}) \in Nat
  BY <1>1, <1>2, FS_CardinalityType DEF CostBounded
<1>4. faults["sink"] \in Nat
  BY DEF TypeOK, Faults
<1> QED
  BY <1>1, <1>2, <1>3, <1>4 DEF CostBounded

\* Faults are never given back.
LEMMA FaultsGrow ==
  ASSUME TypeOK, NEW f \in Faults, Spend(f)
  PROVE  /\ faults' \in [Faults -> Nat]
         /\ faults["sink"] <= faults'["sink"]
         /\ f = "sink" => faults'["sink"] = faults["sink"] + 1
<1>1. faults["sink"] \in Nat
  BY DEF TypeOK, Faults
<1>2. faults' = [faults EXCEPT ![f] = @ + 1] /\ faults \in [Faults -> Nat]
  BY DEF Spend, TypeOK
<1> QED
  BY <1>1, <1>2 DEF Faults

LEMMA FaultsKept ==
  ASSUME TypeOK, faults' = faults
  PROVE  faults' \in [Faults -> Nat] /\ faults["sink"] <= faults'["sink"]
BY DEF TypeOK, Faults

\* A process that ends leaves nothing behind that was not missing before.
LEMMA LeftNothingMissing ==
  ASSUME PInv, NEW offset, Leave(offset), stored \subseteq stored',
         offset = committed \/ (offset = upto /\ batch = {})
  PROVE  Missing' \subseteq Missing
<1>1. \A i \in 1..offset : i \in (1..upto) \ batch
  BY CommittedAccounted DEF PInv, TypeOK
<1>2. (1..upto') \ batch' = 1..offset
  BY DEF Leave
<1> QED
  BY <1>1, <1>2 DEF Missing, KindAt

LEMMA CostStep ==
  ASSUME PInv, CostBounded, [Next]_vars
  PROVE  CostBounded'
<1> USE DEF PInv
<1>1. CASE WriteChunk
  <2>1. PICK C \in SUBSET batch : Insert(C) /\ batch' = batch \ C
    BY <1>1 DEF WriteChunk
  <2>2. \A i \in C : Topic[i] \in stored'
    BY <2>1 DEF Insert, EventsAt
  <2>3. upto' = upto /\ stored \subseteq stored'
    BY <1>1, <2>1 DEF WriteChunk, Insert
  <2>4. Missing' \subseteq Missing
    BY <2>1, <2>2, <2>3 DEF Missing, KindAt
  <2> QED
    BY <1>1, <2>4, NothingMore, FaultsKept DEF WriteChunk
<1>2. CASE WriteRow
  <2>1. PICK i \in rows : Insert({i}) /\ Drop(i)
    BY <1>2 DEF WriteRow
  <2>2. Topic[i] \in stored' /\ batch' = batch \ {i}
    BY <2>1 DEF Insert, EventsAt, Drop
  <2>3. upto' = upto /\ stored \subseteq stored'
    BY <1>2, <2>1 DEF WriteRow, Insert
  <2>4. Missing' \subseteq Missing
    BY <2>1, <2>2, <2>3 DEF Missing, KindAt
  <2> QED
    BY <1>2, <2>4, NothingMore, FaultsKept DEF WriteRow
<1>3. CASE RefuseRow
  <2>1. PICK i \in rows : /\ \/ ~Acceptable({i}) /\ UNCHANGED faults
                             \/ Spend("sink")
                          /\ InsertFails({i})
                          /\ Drop(i)
    BY <1>3 DEF RefuseRow
  <2>2. upto' = upto /\ batch' = batch \ {i} /\ stored \subseteq stored'
    BY <1>3, <2>1 DEF RefuseRow, Drop, InsertFails, Insert
  <2>3. CASE Spend("sink")
    <3>1. Missing' \subseteq Missing \cup {Topic[i]}
      BY <2>2 DEF Missing, KindAt
    <3> QED
      BY <2>3, <3>1, OneMore, FaultsGrow DEF Faults
  <2>4. CASE ~Acceptable({i}) /\ UNCHANGED faults
    <3>1. KindAt(i) # "good"
      BY <2>4 DEF Acceptable
    <3>2. Missing' \subseteq Missing
      BY <2>2, <3>1 DEF Missing, KindAt
    <3> QED
      BY <2>4, <3>2, NothingMore, FaultsKept
  <2> QED
    BY <2>1, <2>3, <2>4
<1>4. CASE RefuseChunk
  <2>1. upto' = upto /\ batch' = batch /\ stored \subseteq stored'
    BY <1>4 DEF RefuseChunk, InsertFails, Insert
  <2>2. Missing' \subseteq Missing
    BY <2>1 DEF Missing, KindAt
  <2> QED
    BY <1>4, <2>2, NothingMore, FaultsKept, FaultsGrow DEF RefuseChunk, Faults
<1>5. CASE Poll
  <2>1. PICK end \in (committed + 1)..hw :
          /\ upto' = end
          /\ batch' = ((committed + 1)..end) \
                        {i \in (committed + 1)..end : KindAt(i) = "garbled"}
    BY <1>5 DEF Poll
  <2>2. committed \in Nat /\ upto = committed /\ batch = {} /\ hw \in Nat
    BY <1>5, CommittedAccounted DEF Poll, NothingForgotten
  <2>3. \A j \in (1..end) \ batch' : KindAt(j) = "good" => j \in (1..upto) \ batch
    BY <2>1, <2>2
  <2>4. Missing' \subseteq Missing
    BY <1>5, <2>1, <2>3 DEF Missing, KindAt, Poll
  <2> QED
    BY <1>5, <2>4, NothingMore, FaultsKept DEF Poll
<1>6. CASE Commit
  <2>1. batch = {} /\ batch' = {} /\ stored' = stored /\ (1..upto') \subseteq (1..upto)
    BY <1>6, CommittedAccounted DEF Commit, Flushed, tableVars
  <2>2. Missing' \subseteq Missing
    BY <2>1 DEF Missing, KindAt
  <2> QED
    BY <1>6, <2>2, NothingMore, FaultsKept DEF Commit
<1>7. CASE WriteCancelled \/ CommitFails \/ Interrupted \/ Idle \/ Crash
  <2>1. stored \subseteq stored'
    BY <1>7, AccountGrows DEF Next
  <2>2. \E offset : /\ Leave(offset)
                    /\ offset = committed \/ (offset = upto /\ batch = {})
    BY <1>7 DEF WriteCancelled, CommitFails, Flushed, Interrupted, Idle, Crash
  <2>3. Missing' \subseteq Missing
    BY <2>1, <2>2, LeftNothingMissing
  <2>4. UNCHANGED faults \/ \E f \in Faults : Spend(f)
    BY <1>7 DEF WriteCancelled, CommitFails, Interrupted, Idle, Crash, Faults
  <2> QED
    BY <2>3, <2>4, NothingMore, FaultsKept, FaultsGrow
<1>8. CASE Publish \/ Start \/ SessionLost \/ Signal \/ UNCHANGED vars
  <2>1. upto' = upto /\ batch' = batch /\ stored' = stored
    BY <1>8 DEF Publish, Start, SessionLost, Signal, vars, pollVars, tableVars
  <2>2. Missing' \subseteq Missing
    BY <2>1 DEF Missing, KindAt
  <2>3. UNCHANGED faults \/ \E f \in Faults : Spend(f)
    BY <1>8 DEF Publish, Start, SessionLost, Signal, vars, Faults
  <2> QED
    BY <2>2, <2>3, NothingMore, FaultsKept, FaultsGrow
<1> QED
  BY <1>1, <1>2, <1>3, <1>4, <1>5, <1>6, <1>7, <1>8 DEF Next

\* consumer.go:217-225: however many rows a chunk has and however the polls cut
\* the topic, a failed statement costs at most one good row, and a row that is
\* refused for its own sake costs no other.
THEOREM FailureCost == Spec => []EachFailureCostsAtMostOneRow
<1>1. Init => CostBounded
  <2> SUFFICES ASSUME Init
               PROVE  CostBounded
    OBVIOUS
  <2>1. Missing = {}
    BY DEF Init, Missing
  <2>2. faults["sink"] = 0
    BY DEF Init, Faults
  <2> QED
    BY <2>1, <2>2, FS_EmptySet DEF CostBounded
<1>2. PInv /\ CostBounded /\ [Next]_vars => CostBounded'
  BY CostStep
<1>3. PInv /\ CostBounded => EachFailureCostsAtMostOneRow
  <2> SUFFICES ASSUME PInv, CostBounded
               PROVE  EachFailureCostsAtMostOneRow
    OBVIOUS
  <2>1. \A i \in 1..committed : i \in (1..upto) \ batch
    BY CommittedAccounted DEF PInv, TypeOK
  <2>2. LostRows \subseteq Missing
    BY <2>1 DEF LostRows, Missing
  <2>3. IsFiniteSet(LostRows) /\ Cardinality(LostRows) <= Cardinality(Missing)
    BY <2>2, FS_Subset DEF CostBounded
  <2>4. Cardinality(LostRows) \in Nat /\ Cardinality(Missing) \in Nat
    BY <2>3, FS_CardinalityType DEF CostBounded
  <2>5. faults["sink"] \in Nat
    BY DEF PInv, TypeOK, Faults
  <2> QED
    BY <2>3, <2>4, <2>5 DEF CostBounded, EachFailureCostsAtMostOneRow
<1> QED
  BY <1>1, <1>2, <1>3, PersisterInvariant, PTL DEF Spec
=============================================================================
