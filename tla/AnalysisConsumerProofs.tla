------------------------ MODULE AnalysisConsumerProofs ------------------------
(***************************************************************************)
(* Proofs about the analysis engine as a consumer, for every topic, every  *)
(* sample, every buffer size and any number of faults.                     *)
(*                                                                         *)
(* The argument. A record of the sample that has been gone through has its *)
(* estimates, or went with a write that failed in Handle, or is in the     *)
(* buffer; and the buffer is empty wherever an offset can move.            *)
(* Two further invariants say what the table holds, and how far the        *)
(* counter is ahead of it, until the first fault and after one failed      *)
(* statement.                                                              *)
(***************************************************************************)
EXTENDS AnalysisConsumer, FiniteSetTheorems, TLAPS

Accounted(i) ==
  Topic[i] \in Analyzable => Topic[i] \in estimates \/ i \in dropped

NothingForgotten ==
  /\ \A i \in 1..done : i \in buffer \/ Accounted(i)
  /\ pc # "batch" => done = upto /\ upto = committed /\ buffer = {}

AInv == TypeOK /\ NothingForgotten

-----------------------------------------------------------------------------
LEMMA TopicTypes ==
  /\ Len(Topic) \in Nat
  /\ \A i \in 1..Len(Topic) : Topic[i] \in Event
BY AnalysisAssumption

\* Spending a fault keeps the account of faults in its type.
LEMMA Spent ==
  ASSUME faults \in [Faults -> Nat], NEW f \in Faults, Spend(f)
  PROVE  faults' \in [Faults -> Nat]
BY DEF Spend

\* The order of the positions, and what it means for the records behind them.
LEMMA Positions ==
  ASSUME AInv
  PROVE  /\ committed \in Nat /\ done \in Nat /\ upto \in Nat /\ hw \in Nat
         /\ committed <= done /\ done <= upto /\ upto <= hw /\ hw <= Len(Topic)
         /\ \A i \in buffer : i \in Is(1..done) /\ committed < i
         /\ \A i \in 1..committed : Accounted(i)
         /\ buffer = {} => \A i \in 1..done : Accounted(i)
<1>1. /\ committed \in Nat /\ done \in Nat /\ upto \in Nat /\ hw \in Nat
      /\ committed <= done /\ done <= upto /\ upto <= hw /\ hw <= Len(Topic)
  BY TopicTypes DEF AInv, TypeOK
<1>2. \A i \in buffer : i \in Is(1..done) /\ committed < i
  BY <1>1 DEF AInv, TypeOK, Is
<1>3. \A i \in 1..committed : i \in 1..done /\ i \notin buffer
  BY <1>1, <1>2
<1> QED
  BY <1>1, <1>2, <1>3 DEF AInv, NothingForgotten

\* Whatever becomes of a statement, the table only grows, with sampled events.
LEMMA TableGrows ==
  ASSUME NEW B, EventsAt(B) \subseteq Analyzable, estimates \subseteq Analyzable,
         Insert(B) \/ InsertFails(B)
  PROVE  estimates \subseteq estimates' /\ estimates' \subseteq Analyzable
BY DEF Insert, InsertFails

LEMMA SampledEvents ==
  ASSUME NEW S, NEW B, B \subseteq Is(S)
  PROVE  EventsAt(B) \subseteq Analyzable
BY DEF Is, EventsAt

\* The empty buffer is below every limit.
LEMMA EmptyBuffer == Cardinality({}) < BufferEvents
BY FS_EmptySet, AnalysisAssumption

\* However Run or the process ends, the next one finds everything before its
\* offset accounted for.
LEMMA Restarted ==
  ASSUME AInv, NEW offset, offset \in Nat, Forget(offset),
         committed' = offset, hw' = hw, offset <= hw,
         pc' \in {"down", "exit"}, analyzed' \in Nat,
         estimates \subseteq estimates', estimates' \subseteq Analyzable,
         UNCHANGED <<declared, dropped>>, faults' \in [Faults -> Nat],
         \A i \in 1..offset : Accounted(i)
  PROVE  AInv'
<1>1. TypeOK'
  <2>1. buffer' \subseteq Is((committed' + 1)..done') /\ Cardinality(buffer') < BufferEvents
    BY EmptyBuffer DEF Forget
  <2>2. hw' \in 0..Len(Topic) /\ committed' <= done' /\ done' <= upto' /\ upto' <= hw'
    BY TopicTypes DEF AInv, TypeOK, Forget
  <2> QED
    BY <2>1, <2>2 DEF AInv, TypeOK, Forget
<1>2. NothingForgotten'
  BY DEF NothingForgotten, Accounted, Forget
<1> QED
  BY <1>1, <1>2 DEF AInv

-----------------------------------------------------------------------------
\* The record in hand lies in the topic.
LEMMA RecordInHand ==
  ASSUME AInv, InHand
  PROVE  /\ done + 1 \in 1..hw /\ done + 1 \in Nat /\ done + 1 <= upto
         /\ \A i \in 1..(done + 1) : i \in 1..done \/ i = done + 1
         /\ Topic[done + 1] \in Event
BY Positions, TopicTypes DEF InHand

LEMMA PassOverKeeps ==
  ASSUME AInv, PassOver
  PROVE  AInv'
<1> USE DEF PassOver, Next1, topicVars, tableVars
<1>1. TypeOK'
  BY RecordInHand, Positions DEF AInv, TypeOK, Is
<1>2. NothingForgotten'
  BY RecordInHand DEF AInv, NothingForgotten, Accounted, InHand
<1> QED
  BY <1>1, <1>2 DEF AInv

\* Filled is the buffer with the record in hand.
LEMMA FilledFacts ==
  ASSUME AInv, InHand, Topic[Next1] \in Analyzable
  PROVE  /\ Filled \subseteq Is((committed + 1)..(done + 1))
         /\ Filled \subseteq Is(1..hw)
         /\ EventsAt(Filled) \subseteq Analyzable
<1>1. Filled \subseteq Is((committed + 1)..(done + 1))
  BY RecordInHand, Positions DEF AInv, TypeOK, Is, Filled, Next1
<1>2. Filled \subseteq Is(1..hw)
  BY <1>1, RecordInHand, Positions DEF Is
<1> QED
  BY <1>1, <1>2, SampledEvents

LEMMA HandleKeeps ==
  ASSUME AInv, Handle
  PROVE  AInv'
<1> USE DEF topicVars
<1>1. /\ Filled \subseteq Is((committed + 1)..(done + 1))
      /\ EventsAt(Filled) \subseteq Analyzable
  BY FilledFacts DEF Handle
<1>2. \/ buffer' = Filled /\ Cardinality(Filled) < BufferEvents /\ estimates' = estimates
      \/ buffer' = {} /\ Insert(Filled)
  BY DEF Handle
<1>3. estimates \subseteq estimates' /\ estimates' \subseteq Analyzable
  BY <1>1, <1>2, TableGrows DEF AInv, TypeOK
<1>4. /\ buffer' \subseteq Is((committed + 1)..(done + 1))
      /\ Cardinality(buffer') < BufferEvents
  BY <1>1, <1>2, EmptyBuffer
<1>5. TypeOK'
  <2>1. done' = done + 1 /\ committed' = committed /\ hw' = hw /\ dropped' = dropped
    BY DEF Handle, Next1
  <2>2. buffer' \subseteq Is((committed + 1)..done)' /\ dropped' \subseteq Is(1..hw)'
    BY <1>4, <2>1 DEF AInv, TypeOK, Is
  <2>3. done' \in Nat /\ committed' <= done' /\ done' <= upto
    BY <2>1, RecordInHand, Positions DEF Handle
  <2>4. analyzed' \in Nat
    BY DEF Handle, AInv, TypeOK
  <2> QED
    BY <1>3, <1>4, <2>1, <2>2, <2>3, <2>4 DEF Handle, AInv, TypeOK
<1>6. \A i \in Filled : i \in buffer' \/ Topic[i] \in estimates'
  BY <1>2 DEF Insert, EventsAt
<1>7. NothingForgotten'
  <2> SUFFICES ASSUME NEW i \in 1..done', i \notin buffer'
               PROVE  Accounted(i)'
    BY DEF Handle, NothingForgotten, InHand
  <2>1. CASE i \in Filled
    BY <1>6, <2>1 DEF Accounted
  <2>2. CASE i \notin Filled
    BY <1>3, <2>2, RecordInHand
       DEF Handle, Next1, Filled, AInv, NothingForgotten, Accounted
  <2> QED
    BY <2>1, <2>2
<1> QED
  BY <1>5, <1>7 DEF AInv

LEMMA HandleFailsKeeps ==
  ASSUME AInv, HandleFails
  PROVE  AInv'
<1> USE DEF topicVars
<1>1. Filled \subseteq Is(1..hw) /\ EventsAt(Filled) \subseteq Analyzable
  BY FilledFacts DEF HandleFails
<1>2. estimates \subseteq estimates' /\ estimates' \subseteq Analyzable
  BY <1>1, TableGrows DEF HandleFails, AInv, TypeOK
<1>3. faults' \in [Faults -> Nat]
  BY Spent DEF HandleFails, InsertFails, Faults, AInv, TypeOK
<1>4. dropped' \subseteq Is(1..hw') /\ buffer' = {} /\ Cardinality(buffer') < BufferEvents
  BY <1>1, EmptyBuffer DEF HandleFails, AInv, TypeOK
<1>5. TypeOK'
  <2>1. dropped' \subseteq Is(1..hw)'
    BY <1>4 DEF Is
  <2> QED
    BY <1>2, <1>3, <1>4, <2>1, RecordInHand, Positions DEF HandleFails, Next1, AInv, TypeOK
<1>6. NothingForgotten'
  BY <1>2, RecordInHand
     DEF HandleFails, InHand, Next1, Filled, AInv, NothingForgotten, Accounted
<1> QED
  BY <1>5, <1>6 DEF AInv

LEMMA FlushBatchKeeps ==
  ASSUME AInv, FlushBatch
  PROVE  AInv'
<1> USE DEF FlushBatch, topicVars
<1>1. EventsAt(buffer) \subseteq Analyzable
  BY SampledEvents DEF AInv, TypeOK
<1>2. estimates \subseteq estimates' /\ estimates' \subseteq Analyzable
  BY <1>1, TableGrows DEF AInv, TypeOK
<1>3. TypeOK'
  BY <1>2, EmptyBuffer DEF AInv, TypeOK, Is
<1>4. \A i \in buffer : Topic[i] \in estimates'
  BY DEF Insert, EventsAt
<1>5. NothingForgotten'
  BY <1>2, <1>4 DEF AInv, NothingForgotten, Accounted, BatchDone
<1> QED
  BY <1>3, <1>5 DEF AInv

LEMMA FlushFailsKeeps ==
  ASSUME AInv, FlushFails
  PROVE  AInv'
<1>1. EventsAt(buffer) \subseteq Analyzable
  BY SampledEvents DEF AInv, TypeOK
<1>2. estimates \subseteq estimates' /\ estimates' \subseteq Analyzable
  BY <1>1, TableGrows DEF FlushFails, AInv, TypeOK
<1>3. faults' \in [Faults -> Nat]
  BY Spent DEF FlushFails, InsertFails, Faults, AInv, TypeOK
<1> QED
  BY <1>2, <1>3, Restarted, Positions DEF FlushFails, Return, topicVars, AInv, TypeOK

\* The commit moves to the end of the poll, all of which is accounted for.
LEMMA CommitKeeps ==
  ASSUME AInv, Commit
  PROVE  AInv'
<1> USE DEF Commit, Flushed, BatchDone, tableVars
<1>1. upto' = committed' /\ done' = committed' /\ (committed' = upto \/ committed' = committed)
  OBVIOUS
<1>2. buffer' = {} /\ Cardinality(buffer') < BufferEvents
  BY EmptyBuffer
<1>3. TypeOK'
  <2>1. dropped' \subseteq Is(1..hw)'
    BY DEF AInv, TypeOK, Is
  <2> QED
    BY <1>1, <1>2, <2>1, Positions DEF AInv, TypeOK
<1>4. \A i \in 1..committed' : Accounted(i)
  BY <1>1, Positions
<1>5. NothingForgotten'
  BY <1>1, <1>2, <1>4 DEF NothingForgotten, Accounted
<1> QED
  BY <1>3, <1>5 DEF AInv

LEMMA CommitFailsKeeps ==
  ASSUME AInv, CommitFails
  PROVE  AInv'
<1>1. /\ committed' = committed \/ (committed' = upto /\ upto = done /\ buffer = {})
      /\ committed' \in Nat /\ committed' <= hw
      /\ \A i \in 1..committed' : Accounted(i)
  BY Positions DEF CommitFails, Flushed, BatchDone
<1>2. faults' \in [Faults -> Nat]
  BY Spent DEF CommitFails, Faults, AInv, TypeOK
<1> QED
  BY <1>1, <1>2, Restarted DEF CommitFails, Return, tableVars, AInv, TypeOK

LEMMA EndKeeps ==
  ASSUME AInv, Leave \/ Crash
  PROVE  AInv'
<1>1. faults' \in [Faults -> Nat]
  BY Spent DEF Leave, Crash, Faults, AInv, TypeOK
<1>2. /\ Forget(committed) /\ UNCHANGED <<topicVars, tableVars>>
      /\ pc' \in {"down", "exit"} /\ analyzed' \in Nat
  BY DEF Leave, Crash, Return, AInv, TypeOK
<1> QED
  BY <1>1, <1>2, Restarted, Positions DEF topicVars, tableVars, AInv, TypeOK

LEMMA RestKeeps ==
  ASSUME AInv,
         Publish \/ Start \/ Poll \/ SessionLost \/ Signal \/ Declare \/ DeclareFails
  PROVE  AInv'
<1> USE DEF topicVars, pollVars, tableVars
<1>1. CASE Publish
  <2>1. dropped' \subseteq Is(1..hw)'
    BY <1>1, Positions DEF Publish, AInv, TypeOK, Is
  <2>2. hw' \in 0..Len(Topic) /\ upto' <= hw'
    BY <1>1, Positions, TopicTypes DEF Publish
  <2>3. buffer' \subseteq Is((committed + 1)..done)'
    BY <1>1 DEF Publish, AInv, TypeOK, Is
  <2>4. TypeOK'
    BY <1>1, <2>1, <2>2, <2>3 DEF Publish, AInv, TypeOK
  <2> QED
    BY <1>1, <2>4 DEF Publish, AInv, NothingForgotten, Accounted
<1>2. CASE Poll
  <2>1. upto' \in Nat /\ done <= upto' /\ upto' <= hw /\ pc = "poll" /\ done = committed
    BY <1>2, Positions DEF Poll, AInv, NothingForgotten
  <2>2. TypeOK'
    BY <1>2, <2>1, TopicTypes DEF Poll, AInv, TypeOK, Is
  <2> QED
    BY <1>2, <2>2 DEF Poll, AInv, NothingForgotten, Accounted
<1>3. CASE Start \/ Declare \/ DeclareFails \/ SessionLost \/ Signal
  <2>1. /\ UNCHANGED <<hw, committed, done, upto, buffer, estimates, dropped>>
        /\ pc' # "batch" => pc # "batch"
        /\ pc' \in {"down", "poll", "batch", "exit"}
    BY <1>3 DEF Start, Declare, DeclareFails, SessionLost, Signal, AInv, TypeOK
  <2>2. faults' \in [Faults -> Nat]
    BY <1>3, Spent DEF Start, Declare, DeclareFails, SessionLost, Signal, Faults, AInv, TypeOK
  <2>3. /\ owned' \in BOOLEAN /\ cancelled' \in BOOLEAN
        /\ analyzed' \in Nat /\ declared' \in Nat \cup {None}
    <3>1. CASE Start \/ Declare \/ DeclareFails
      BY <3>1 DEF Start, Declare, DeclareFails, AInv, TypeOK
    <3>2. CASE SessionLost
      BY <3>2 DEF SessionLost, AInv, TypeOK
    <3>3. CASE Signal
      BY <3>3 DEF Signal, AInv, TypeOK
    <3> QED
      BY <1>3, <3>1, <3>2, <3>3
  <2>4. /\ buffer' \subseteq Is((committed + 1)..done)' /\ dropped' \subseteq Is(1..hw)'
        /\ Cardinality(buffer') < BufferEvents
    BY <2>1 DEF AInv, TypeOK, Is
  <2>5. TypeOK'
    BY <2>1, <2>2, <2>3, <2>4 DEF AInv, TypeOK
  <2>6. NothingForgotten'
    BY <2>1 DEF AInv, NothingForgotten, Accounted
  <2> QED
    BY <2>5, <2>6 DEF AInv
<1> QED
  BY <1>1, <1>2, <1>3

LEMMA StepKeeps ==
  ASSUME AInv, [Next]_vars
  PROVE  AInv'
<1>1. CASE Next
  BY <1>1, RestKeeps, EndKeeps, PassOverKeeps, HandleKeeps, HandleFailsKeeps,
     FlushBatchKeeps, FlushFailsKeeps, CommitKeeps, CommitFailsKeeps
     DEF Next
<1>2. CASE UNCHANGED vars
  BY <1>2 DEF vars, topicVars, pollVars, tableVars, AInv, TypeOK, NothingForgotten,
              Accounted, Is
<1> QED
  BY <1>1, <1>2

LEMMA InitEstablishes == Init => AInv
<1> SUFFICES ASSUME Init
             PROVE  AInv
  OBVIOUS
<1>1. TypeOK
  <2>1. buffer \subseteq Is((committed + 1)..done) /\ dropped \subseteq Is(1..hw)
    BY DEF Init
  <2>2. hw \in 0..Len(Topic) /\ faults \in [Faults -> Nat]
    BY TopicTypes DEF Init
  <2>3. estimates \subseteq Analyzable /\ Cardinality(buffer) < BufferEvents
    BY EmptyBuffer DEF Init
  <2>4. /\ committed \in Nat /\ done \in Nat /\ upto \in Nat
        /\ committed <= done /\ done <= upto /\ upto <= hw
    BY DEF Init
  <2> QED
    BY <2>1, <2>2, <2>3, <2>4 DEF Init, TypeOK
<1>2. NothingForgotten
  BY DEF Init, NothingForgotten
<1> QED
  BY <1>1, <1>2 DEF AInv

\* AInv holds in every reachable state of the analysis consumer.
THEOREM AnalysisInvariant == Spec => []AInv
<1>1. Init => AInv
  BY InitEstablishes
<1>2. AInv /\ [Next]_vars => AInv'
  BY StepKeeps
<1> QED
  BY <1>1, <1>2, PTL DEF Spec

-----------------------------------------------------------------------------
(* What it says about the code. *)

\* Type correctness: committed <= handled <= polled <= published, the buffer
\* belongs to the handled part of the current poll and never reaches its limit.
THEOREM AnalysisTypeOK == Spec => []TypeOK
<1>1. AInv => TypeOK
  BY DEF AInv
<1> QED
  BY <1>1, AnalysisInvariant, PTL

\* persist.go:14-20: an event of the sample whose offset is committed has its
\* estimates, or was in a buffer whose write failed in Handle; there is no third
\* way to lose it.
THEOREM CommittedAccounted == Spec => []CommittedEstimatedOrDropped
<1>1. AInv => CommittedEstimatedOrDropped
  <2> SUFFICES ASSUME AInv, NEW i \in Is(1..committed)
               PROVE  Topic[i] \in estimates \/ i \in dropped
    BY DEF CommittedEstimatedOrDropped
  <2> QED
    BY Positions DEF Is, Accounted
<1> QED
  BY <1>1, AnalysisInvariant, PTL

Settled == {1} \X {i \in 1..Len(Topic) :
                      Topic[i] \in Analyzable => Topic[i] \in estimates \/ i \in dropped}
Offsets == [p \in {1} |-> committed]

\* Estimates are never taken back, and what was dropped stays dropped.
LEMMA AccountGrows ==
  ASSUME AInv, [Next]_vars
  PROVE  estimates \subseteq estimates' /\ dropped \subseteq dropped'
<1>1. \A B : Insert(B) \/ InsertFails(B) => estimates \subseteq estimates'
  BY DEF Insert, InsertFails
<1>2. CASE Handle \/ HandleFails \/ FlushBatch \/ FlushFails
  BY <1>1, <1>2 DEF Handle, HandleFails, FlushBatch, FlushFails
<1>3. CASE \/ Publish \/ Start \/ Poll \/ PassOver \/ Commit \/ CommitFails
           \/ SessionLost \/ Signal \/ Leave \/ Declare \/ DeclareFails \/ Crash
  BY <1>3 DEF Publish, Start, Poll, PassOver, Commit, CommitFails, SessionLost, Signal,
              Leave, Declare, DeclareFails, Crash, tableVars
<1>4. CASE UNCHANGED vars
  BY <1>4 DEF vars, tableVars
<1> QED
  BY <1>2, <1>3, <1>4 DEF Next

\* The offset moves in the two commit steps only, and they write nothing.
LEMMA OffsetMoves ==
  ASSUME AInv, [Next]_vars
  PROVE  \/ committed' = committed
         \/ /\ committed' = upto /\ upto = done /\ buffer = {}
            /\ UNCHANGED <<estimates, dropped>>
<1>1. CASE Commit \/ CommitFails
  BY <1>1 DEF Commit, CommitFails, Flushed, BatchDone, tableVars
<1>2. CASE UNCHANGED vars
  BY <1>2 DEF vars, topicVars
<1>3. CASE \/ Publish \/ Start \/ Poll \/ PassOver \/ Handle \/ HandleFails
           \/ FlushBatch \/ FlushFails \/ SessionLost \/ Signal \/ Leave
           \/ Declare \/ DeclareFails \/ Crash
  BY <1>3 DEF Publish, Start, Poll, PassOver, Handle, HandleFails, FlushBatch,
              FlushFails, SessionLost, Signal, Leave, Declare, DeclareFails, Crash,
              topicVars
<1> QED
  BY <1>1, <1>2, <1>3 DEF Next

LEMMA DisciplineStep ==
  ASSUME AInv, [Next]_vars
  PROVE  [TC!Settle \/ TC!Advance]_<<Offsets, Settled>>
<1>1. CASE committed' = committed
  BY <1>1, AccountGrows DEF TC!Settle, Offsets, Settled
<1>2. CASE /\ committed' = upto /\ upto = done /\ buffer = {}
           /\ UNCHANGED <<estimates, dropped>>
  <2>1. Settled' = Settled
    BY <1>2 DEF Settled
  <2>2. /\ committed \in Nat /\ upto \in Nat /\ committed <= upto /\ upto <= Len(Topic)
        /\ \A i \in 1..upto : Accounted(i)
    BY <1>2, Positions, TopicTypes
  <2>3. \A i \in (committed + 1)..upto : i \in 1..Len(Topic) /\ Accounted(i)
    BY <2>2, TopicTypes
  <2>4. \A i \in (committed + 1)..upto : <<1, i>> \in Settled
    BY <2>3 DEF Settled, Accounted
  <2> QED
    BY <1>2, <2>1, <2>2, <2>4 DEF TC!Advance, Offsets, Settled
<1> QED
  BY <1>1, <1>2, OffsetMoves

\* The analysis engine implements the abstract consumer: its offset moves forward
\* only, over records that need nothing more from it.
THEOREM AnalysisImplementsConsumer == Spec => KeepsOffsetDiscipline
<1>1. Init => TC!ConsumerInit
  BY DEF Init, TC!ConsumerInit
<1>2. AInv /\ [Next]_vars => [TC!Settle \/ TC!Advance]_<<Offsets, Settled>>
  BY DisciplineStep
<1> QED
  BY <1>1, <1>2, AnalysisInvariant, PTL
     DEF Spec, KeepsOffsetDiscipline, TC!Consumer, Offsets, Settled

-----------------------------------------------------------------------------
(* Without faults and malformed rows nothing is refused and nothing is lost. *)

Distinct == \A i, j \in 1..Len(Topic) : Topic[i] = Topic[j] => i = j

\* The table holds events that were handled and are not in the buffer, no others.
TableIsFresh ==
  \A j \in 1..Len(Topic) : Topic[j] \in estimates => j \in 1..done /\ j \notin buffer

\* What is published is writable only if what was published before is.
LEMMA WritableBefore ==
  ASSUME AInv, AInv', [Next]_vars, Writable(1..hw)'
  PROVE  Writable(1..hw)
<1>1. hw \in Nat /\ hw' \in Nat
  BY TopicTypes DEF AInv, TypeOK
<1>2. hw <= hw'
  <2>1. CASE Publish
    BY <1>1, <2>1 DEF Publish
  <2>2. CASE \/ Start \/ Poll \/ PassOver \/ Handle \/ HandleFails \/ FlushBatch
             \/ FlushFails \/ Commit \/ CommitFails \/ SessionLost \/ Signal \/ Leave
             \/ Declare \/ DeclareFails \/ Crash \/ UNCHANGED vars
    <3>1. hw' = hw
      BY <2>2 DEF Start, Poll, PassOver, Handle, HandleFails, FlushBatch, FlushFails, Commit,
                  CommitFails, SessionLost, Signal, Leave, Declare, DeclareFails, Crash, vars,
                  topicVars
    <3> QED
      BY <1>1, <3>1
  <2> QED
    BY <2>1, <2>2 DEF Next
<1>3. 1..hw \subseteq 1..hw'
  BY <1>1, <1>2
<1> QED
  BY <1>3 DEF Writable, EventsAt, Is

\* As long as no fault has happened and no row is malformed the table holds the events of the handled
\* part that are not in the buffer, and no others.
Quiet ==
  NoFault(Faults) /\ Writable(1..hw) =>
    /\ dropped = {} /\ ~cancelled /\ owned
    /\ \A j \in 1..Len(Topic) : Topic[j] \in estimates => j \in 1..done /\ j \notin buffer

\* A fault that is spent shows.
LEMMA SpentShows ==
  ASSUME TypeOK, NEW f \in Faults, Spend(f)
  PROVE  ~NoFault(Faults)'
<1>1. faults'[f] = faults[f] + 1 /\ faults[f] \in Nat
  BY DEF Spend, TypeOK
<1> QED
  BY <1>1 DEF NoFault

\* The statements of a fresh table are acceptable if their rows are.
LEMMA FreshAcceptable ==
  ASSUME Distinct, AInv, TableIsFresh, Writable(1..hw)
  PROVE  /\ Acceptable(buffer)
         /\ InHand /\ Topic[Next1] \in Analyzable => Acceptable(Filled)
<1>1. \A i \in buffer : i \in 1..Len(Topic)
  BY Positions, TopicTypes DEF Is
<1>2. Acceptable(buffer)
  <2>1. \A i \in buffer : i \in Is(1..hw)
    BY Positions DEF Is
  <2>2. EventsAt(buffer) \cap Unwritable = {}
    BY <2>1 DEF Writable, EventsAt
  <2> QED
    BY <1>1, <2>2 DEF Acceptable, EventsAt, TableIsFresh, Distinct
<1>3. ASSUME InHand, Topic[Next1] \in Analyzable
      PROVE  Acceptable(Filled)
  <2>1. done + 1 \in 1..Len(Topic) /\ done + 1 \notin 1..done
    BY <1>3, RecordInHand, Positions
  <2>2. \A i \in Filled : i \in 1..Len(Topic) /\ Topic[i] \notin estimates
    BY <1>1, <2>1 DEF Filled, Next1, TableIsFresh
  <2>3. EventsAt(Filled) \cap Unwritable = {}
    BY <1>3, FilledFacts DEF Writable, EventsAt
  <2> QED
    BY <2>2, <2>3 DEF Acceptable, EventsAt, Distinct
<1> QED
  BY <1>2, <1>3

\* The next statement of a quiet run is acceptable.
LEMMA QuietAcceptable ==
  ASSUME Distinct, AInv, Quiet, NoFault(Faults), Writable(1..hw)
  PROVE  /\ Acceptable(buffer)
         /\ InHand /\ Topic[Next1] \in Analyzable => Acceptable(Filled)
BY FreshAcceptable DEF Quiet, TableIsFresh

LEMMA QuietStep ==
  ASSUME Distinct, AInv, AInv', Quiet, [Next]_vars
  PROVE  Quiet'
<1> SUFFICES ASSUME NoFault(Faults)', Writable(1..hw)'
             PROVE  /\ dropped' = {} /\ ~cancelled' /\ owned'
                    /\ \A j \in 1..Len(Topic) :
                         Topic[j] \in estimates' => j \in 1..done' /\ j \notin buffer'
  BY DEF Quiet
<1>1. \A f \in Faults : ~Spend(f)
  BY SpentShows DEF AInv
<1>2. faults' = faults
  BY <1>1 DEF Next, Publish, Start, Poll, PassOver, Handle, HandleFails, FlushBatch,
              FlushFails, InsertFails, Commit, CommitFails, SessionLost, Signal, Leave,
              Declare, DeclareFails, Crash, vars, Faults
<1>3. NoFault(Faults) /\ Writable(1..hw)
  BY <1>2, WritableBefore DEF NoFault
<1>4. /\ dropped = {} /\ ~cancelled /\ owned
      /\ \A j \in 1..Len(Topic) : Topic[j] \in estimates => j \in 1..done /\ j \notin buffer
  BY <1>3 DEF Quiet
<1>5. ~HandleFails /\ ~FlushFails
  BY <1>1, <1>3, <1>4, QuietAcceptable DEF HandleFails, FlushFails, InsertFails, Faults
<1>6. ~CommitFails /\ ~SessionLost /\ ~Signal /\ ~DeclareFails /\ ~Crash
  BY <1>1, <1>4 DEF CommitFails, SessionLost, Signal, DeclareFails, Crash, Faults
<1>7. CASE Publish \/ Start \/ Poll \/ Declare \/ UNCHANGED vars
  <2>1. UNCHANGED <<dropped, done, buffer, estimates>>
    BY <1>7 DEF Publish, Start, Poll, Declare, vars, topicVars, pollVars, tableVars
  <2>2. UNCHANGED <<cancelled, owned>>
    BY <1>7, Zenon DEF Publish, Start, Poll, Declare, vars, topicVars, pollVars, tableVars
  <2>3. ~cancelled' /\ owned'
    BY <1>4, <2>2
  <2> QED
    BY <1>4, <2>1, <2>3
<1>8. CASE PassOver
  BY <1>4, <1>8, Positions, RecordInHand DEF PassOver, Next1, tableVars
<1>9. CASE Handle
  <2>1. /\ dropped' = {} /\ ~cancelled' /\ owned' /\ done' = done + 1
        /\ done \in Nat /\ done + 1 <= Len(Topic)
    BY <1>4, <1>9, RecordInHand, Positions DEF Handle, Next1
  <2>2. \A i \in Filled : i \in 1..(done + 1) /\ i \in 1..Len(Topic)
    BY <1>9, <2>1, Positions, TopicTypes DEF Filled, Next1, Is
  <2>3. CASE buffer' = Filled /\ UNCHANGED estimates
    BY <1>4, <2>1, <2>3 DEF Filled, Next1
  <2>4. CASE buffer' = {} /\ Insert(Filled)
    <3> SUFFICES ASSUME NEW j \in 1..Len(Topic), Topic[j] \in estimates'
                 PROVE  j \in 1..done' /\ j \notin buffer'
      BY <2>1
    <3>1. CASE Topic[j] \in estimates
      BY <1>4, <2>1, <2>4, <3>1
    <3>2. CASE Topic[j] \in EventsAt(Filled)
      BY <2>1, <2>2, <2>4, <3>2 DEF EventsAt, Distinct
    <3> QED
      BY <2>4, <3>1, <3>2 DEF Insert
  <2> QED
    BY <1>9, <2>3, <2>4 DEF Handle
<1>10. CASE FlushBatch
  <2>1. \A i \in buffer : i \in 1..done /\ i \in 1..Len(Topic)
    BY Positions, TopicTypes DEF Is
  <2> SUFFICES ASSUME NEW j \in 1..Len(Topic), Topic[j] \in estimates'
               PROVE  j \in 1..done' /\ j \notin buffer'
    BY <1>4, <1>10 DEF FlushBatch
  <2>2. CASE Topic[j] \in estimates
    BY <1>4, <1>10, <2>2 DEF FlushBatch
  <2>3. CASE Topic[j] \in EventsAt(buffer)
    BY <1>10, <2>1, <2>3 DEF FlushBatch, EventsAt, Distinct
  <2> QED
    BY <1>10, <2>2, <2>3 DEF FlushBatch, Insert
<1>11. CASE Commit
  BY <1>4, <1>11 DEF Commit, tableVars
<1>12. CASE Leave
  BY <1>4, <1>12 DEF Leave, Return, Forget, AInv, NothingForgotten, tableVars
<1> QED
  BY <1>5, <1>6, <1>7, <1>8, <1>9, <1>10, <1>11, <1>12 DEF Next

\* If the topic holds every event once, then without faults and malformed rows, in
\* any number of processes and for every cut of the topic into polls, no statement is refused
\* and every committed event of the sample has its estimates.
THEOREM UndisturbedRun ==
  ASSUME Distinct
  PROVE  Spec => []UndisturbedRunComplete
<1>1. Init => Quiet
  BY DEF Init, Quiet
<1>2. AInv /\ AInv' /\ Quiet /\ [Next]_vars => Quiet'
  BY QuietStep
<1>3. AInv /\ Quiet => UndisturbedRunComplete
  <2> SUFFICES ASSUME AInv, Quiet, NoFault(Faults), Writable(1..hw)
               PROVE  Estimated(1..committed) /\ dropped = {} /\ Acceptable(buffer)
    BY DEF UndisturbedRunComplete
  <2>1. dropped = {} /\ Acceptable(buffer)
    BY QuietAcceptable DEF Quiet
  <2>2. Estimated(1..committed)
    BY <2>1, Positions DEF Estimated, EventsAt, Is, Accounted
  <2> QED
    BY <2>1, <2>2
<1> QED
  BY <1>1, <1>2, <1>3, AnalysisInvariant, PTL DEF Spec
-----------------------------------------------------------------------------
(* Estimates lost to refused statements or to one failed statement show in *)
(* the counter.                                                            *)

\* How far the counter is ahead of the table and the buffer.
Ahead(n) == analyzed = Cardinality(estimates) + Cardinality(buffer) + n

\* Undisturbed, or disturbed by one failed statement only, and nothing declared:
\* this is the first process, unless a failed declaration was the one failure.
FirstRun ==
  /\ declared = None
  /\ NoFault(Interruptions)
  /\ faults["sink"] = 0 \/ (faults["sink"] = 1 /\ Writable(1..hw))

\* The counter follows the table exactly until a statement is refused or fails.
\* Every full buffer refused puts it ahead by all events of the buffer but one;
\* so does a failure that lost a full buffer, for good.
Traced ==
  \/ faults["sink"] = 0 /\ dropped = {} /\ Ahead(0)
  \/ faults["sink"] = 0 /\ ~Writable(1..hw) /\ \E n \in Nat \ {0} : Ahead(n)
  \/ faults["sink"] = 1 /\ (EventsAt(dropped) \subseteq estimates
                            \/ Ahead(BufferEvents - 1))

\* A failure or a refusal of the last write of a batch ends the process.
Outcome ==
  \/ pc = "exit" /\ (faults["sink"] = 1 \/ ~Writable(1..hw))
  \/ ~cancelled /\ owned /\ TableIsFresh /\ Traced

LossShows ==
  /\ IsFiniteSet(estimates)
  /\ pc = "down" => analyzed = 0
  /\ FirstRun => Outcome

LEMMA BufferIsFinite ==
  ASSUME AInv
  PROVE  IsFiniteSet(buffer) /\ Cardinality(buffer) \in Nat
<1>1. IsFiniteSet((committed + 1)..done)
  BY FS_Interval, Positions
<1>2. buffer \subseteq (committed + 1)..done
  BY DEF AInv, TypeOK, Is
<1>3. IsFiniteSet(buffer)
  BY <1>1, <1>2, FS_Subset
<1> QED
  BY <1>3, FS_CardinalityType

\* The record in hand makes the buffer one larger.
LEMMA FilledSize ==
  ASSUME AInv, InHand
  PROVE  /\ IsFiniteSet(Filled)
         /\ Cardinality(Filled) = Cardinality(buffer) + 1
<1>1. Next1 \notin buffer
  BY RecordInHand, Positions DEF Next1, Is
<1> QED
  BY <1>1, BufferIsFinite, FS_AddElement DEF Filled

\* A statement that is accepted adds one event to the table per position.
LEMMA AcceptedRows ==
  ASSUME NEW B, IsFiniteSet(B), Acceptable(B), IsFiniteSet(estimates)
  PROVE  /\ IsFiniteSet(estimates \cup EventsAt(B))
         /\ Cardinality(estimates \cup EventsAt(B)) = Cardinality(estimates) + Cardinality(B)
<1> DEFINE f == [i \in B |-> Topic[i]]
<1>1. f \in Bijection(B, EventsAt(B))
  BY DEF Bijection, Injection, Surjection, IsInjective, EventsAt, Acceptable
<1>2. ExistsBijection(B, EventsAt(B))
  BY <1>1 DEF ExistsBijection
<1>3. IsFiniteSet(EventsAt(B)) /\ Cardinality(EventsAt(B)) = Cardinality(B)
  BY <1>2, FS_Bijection
<1>4. estimates \cap EventsAt(B) = {}
  BY DEF Acceptable
<1>5. /\ IsFiniteSet(estimates \cup EventsAt(B))
      /\ Cardinality(estimates \cup EventsAt(B)) =
           Cardinality(estimates) + Cardinality(B) - Cardinality({})
  BY <1>3, <1>4, FS_Union
<1> QED
  BY <1>5, FS_EmptySet, FS_CardinalityType

\* A fresh table stays fresh when positions gone through are written, or go into
\* the buffer, or are lost.
LEMMA FreshAfter ==
  ASSUME Distinct, AInv, TableIsFresh, NEW B, NEW n \in Nat,
         done' = n, done <= n, n <= Len(Topic), B \subseteq 1..n,
         \/ estimates' = estimates /\ \A i \in buffer' : i \in buffer \/ i \notin 1..done
         \/ Insert(B) /\ buffer' = {}
  PROVE  TableIsFresh'
<1> SUFFICES ASSUME NEW j \in 1..Len(Topic), Topic[j] \in estimates'
             PROVE  j \in 1..n /\ j \notin buffer'
  BY DEF TableIsFresh
<1>1. done \in Nat
  BY Positions
<1>2. CASE Topic[j] \in estimates
  <2>1. j \in 1..done /\ j \notin buffer
    BY <1>2 DEF TableIsFresh
  <2> QED
    BY <1>1, <2>1
<1>3. CASE Topic[j] \notin estimates
  <2>1. Insert(B) /\ buffer' = {}
    BY <1>3
  <2>2. PICK i \in B : Topic[i] = Topic[j]
    BY <1>3, <2>1 DEF Insert, EventsAt
  <2>3. i \in 1..Len(Topic) /\ i \in 1..n
    BY TopicTypes
  <2> QED
    BY <2>1, <2>2, <2>3 DEF Distinct
<1> QED
  BY <1>2, <1>3

\* A fault other than a failed statement ends the case.
LEMMA Interrupted ==
  ASSUME AInv, NEW f \in Interruptions, Spend(f)
  PROVE  ~FirstRun'
<1>1. faults'[f] = faults[f] + 1 /\ faults[f] \in Nat
  BY DEF Spend, Interruptions, AInv, TypeOK
<1> QED
  BY <1>1 DEF FirstRun, NoFault

\* A second failed statement ends it as well.
LEMMA SecondFailure ==
  ASSUME AInv, Spend("sink"), FirstRun'
  PROVE  faults["sink"] = 0 /\ faults'["sink"] = 1 /\ Writable(1..hw)'
<1>1. faults'["sink"] = faults["sink"] + 1 /\ faults["sink"] \in Nat
  BY DEF Spend, AInv, TypeOK, Faults
<1> QED
  BY <1>1 DEF FirstRun

\* A state of the case is reached from one of the case only.
LEMMA FirstRunBefore ==
  ASSUME AInv, AInv', [Next]_vars, FirstRun'
  PROVE  /\ FirstRun
         /\ faults' = faults \/ Spend("sink")
         /\ ~Declare
<1>1. \A f \in Interruptions : ~Spend(f)
  BY Interrupted
<1>2. faults' = faults \/ Spend("sink")
  BY <1>1 DEF Next, Publish, Start, Poll, PassOver, Handle, HandleFails, FlushBatch,
              FlushFails, InsertFails, Commit, CommitFails, SessionLost, Signal, Leave,
              Declare, DeclareFails, Crash, vars, Faults, Interruptions
<1>3. ~Declare
  BY AnalysisAssumption DEF Declare, FirstRun, AInv, TypeOK
<1>4. declared = None
  <2>1. declared' = declared \/ (DeclareFails /\ declared' \in {declared, analyzed})
    <3>1. CASE Handle \/ HandleFails \/ FlushBatch \/ FlushFails
      BY <3>1 DEF Handle, HandleFails, FlushBatch, FlushFails
    <3>2. CASE \/ Publish \/ Start \/ Poll \/ PassOver \/ Commit \/ CommitFails
               \/ SessionLost \/ Signal \/ Leave \/ Crash
      BY <3>2 DEF Publish, Start, Poll, PassOver, Commit, CommitFails, SessionLost,
                  Signal, Leave, Crash, tableVars
    <3>3. CASE DeclareFails \/ UNCHANGED vars
      BY <3>3 DEF DeclareFails, vars, tableVars
    <3> QED
      BY <1>3, <3>1, <3>2, <3>3 DEF Next
  <2> QED
    BY <2>1, AnalysisAssumption DEF FirstRun, AInv, TypeOK
<1>5. /\ NoFault(Interruptions)
      /\ faults["sink"] = 0 \/ (faults["sink"] = 1 /\ Writable(1..hw))
  <2>1. CASE faults' = faults
    BY <2>1, WritableBefore DEF FirstRun, NoFault
  <2>2. CASE Spend("sink")
    <3>1. \A f \in Interruptions : faults'[f] = faults[f]
      BY <2>2 DEF Spend, Interruptions, Faults, AInv, TypeOK
    <3> QED
      BY <2>2, <3>1, SecondFailure DEF FirstRun, NoFault
  <2> QED
    BY <1>2, <2>1, <2>2
<1> QED
  BY <1>2, <1>3, <1>4, <1>5 DEF FirstRun

\* Whatever becomes of a statement, the table stays finite.
LEMMA TableStaysFinite ==
  ASSUME AInv, LossShows, [Next]_vars
  PROVE  IsFiniteSet(estimates') /\ (pc' = "down" => analyzed' = 0)
<1>1. ASSUME NEW B, IsFiniteSet(B),
             \/ estimates' = estimates
             \/ Acceptable(B) /\ Insert(B)
      PROVE  IsFiniteSet(estimates')
  BY <1>1, AcceptedRows DEF Insert, LossShows
<1>2. CASE Handle \/ HandleFails
  <2>1. IsFiniteSet(Filled)
    BY <1>2, FilledSize DEF Handle, HandleFails
  <2>2. \/ estimates' = estimates
        \/ Acceptable(Filled) /\ Insert(Filled)
    BY <1>2 DEF Handle, HandleFails, InsertFails
  <2>3. pc' # "down"
    BY <1>2 DEF Handle, HandleFails, InHand
  <2> QED
    BY <1>1, <2>1, <2>2, <2>3
<1>3. CASE FlushBatch \/ FlushFails
  <2>1. \/ estimates' = estimates
        \/ Acceptable(buffer) /\ Insert(buffer)
    BY <1>3 DEF FlushBatch, FlushFails, InsertFails
  <2>2. pc' # "down"
    BY <1>3 DEF FlushBatch, FlushFails, BatchDone, Return
  <2> QED
    BY <1>1, <2>1, <2>2, BufferIsFinite
<1>4. CASE \/ Publish \/ Start \/ Poll \/ PassOver \/ Commit \/ CommitFails
           \/ SessionLost \/ Signal \/ Leave \/ Declare \/ DeclareFails \/ Crash
  <2>1. estimates' = estimates
    BY <1>4 DEF Publish, Start, Poll, PassOver, Commit, CommitFails, SessionLost, Signal,
                Leave, Declare, DeclareFails, Crash, tableVars
  <2>2. pc' = "down" => analyzed' = 0
    BY <1>4 DEF Publish, Start, Poll, PassOver, Commit, CommitFails, SessionLost, Signal,
                Leave, Declare, DeclareFails, Crash, InHand, Return, Flushed, BatchDone,
                pollVars, LossShows
  <2> QED
    BY <2>1, <2>2 DEF LossShows
<1>5. CASE UNCHANGED vars
  BY <1>5 DEF vars, tableVars, pollVars, LossShows
<1> QED
  BY <1>2, <1>3, <1>4, <1>5 DEF Next

\* The record in hand is counted, written or lost.
LEMMA HandleTraced ==
  ASSUME Distinct, BufferEvents > 1, AInv, Handle \/ HandleFails, IsFiniteSet(estimates),
         FirstRun', ~cancelled, owned, TableIsFresh, Traced,
         faults' = faults \/ Spend("sink")
  PROVE  Outcome'
<1>1. /\ done + 1 \in Nat /\ done <= done + 1 /\ done + 1 <= Len(Topic)
      /\ \A i \in Filled : i \in 1..(done + 1) /\ (i \in buffer \/ i \notin 1..done)
      /\ done' = done + 1 /\ InHand
  <2>1. InHand /\ done' = done + 1
    BY DEF Handle, HandleFails, Next1
  <2>2. done \in Nat /\ done + 1 <= Len(Topic) /\ \A i \in buffer : i \in 1..done
    BY <2>1, RecordInHand, Positions, TopicTypes DEF Is
  <2> QED
    BY <2>1, <2>2 DEF Filled, Next1
<1>2. /\ IsFiniteSet(Filled) /\ Cardinality(Filled) = Cardinality(buffer) + 1
      /\ Cardinality(buffer) \in Nat /\ Cardinality(buffer) < BufferEvents
      /\ Cardinality(estimates) \in Nat /\ analyzed \in Nat /\ BufferEvents \in Nat
      /\ Cardinality({}) = 0
  BY <1>1, FilledSize, BufferIsFinite, FS_CardinalityType, FS_EmptySet, AnalysisAssumption
     DEF AInv, TypeOK
<1>3. /\ Writable(1..hw) => Acceptable(Filled)
      /\ Writable(1..hw)' <=> Writable(1..hw)
  <2>1. Topic[Next1] \in Analyzable /\ hw' = hw
    BY DEF Handle, HandleFails, topicVars
  <2> QED
    BY <1>1, <2>1, FreshAcceptable DEF Writable, EventsAt, Is
<1>4. /\ Acceptable(Filled) /\ Insert(Filled)
           => Cardinality(estimates') = Cardinality(estimates) + Cardinality(Filled)
      /\ Handle => \/ buffer' = Filled /\ estimates' = estimates
                   \/ buffer' = {} /\ Acceptable(Filled) /\ Insert(Filled)
  BY <1>2, AcceptedRows DEF Insert, Handle
<1>5. TableIsFresh'
  <2>1. \/ estimates' = estimates /\ \A i \in buffer' : i \in buffer \/ i \notin 1..done
        \/ Insert(Filled) /\ buffer' = {}
    BY <1>1 DEF Handle, HandleFails, InsertFails
  <2>2. Filled \subseteq 1..(done + 1)
    BY <1>1
  <2> QED
    BY <1>1, <2>1, <2>2, FreshAfter
<1>6. ~cancelled' /\ owned'
  <2>1. UNCHANGED <<cancelled, owned>>
    BY DEF Handle, HandleFails
  <2> QED
    BY <2>1
<1>7. CASE Handle
  <2>1. UNCHANGED <<dropped, faults>> /\ analyzed' = analyzed + 1
    BY <1>7 DEF Handle
  <2>2. \/ buffer' = Filled /\ estimates' = estimates
        \/ buffer' = {} /\ Acceptable(Filled) /\ Insert(Filled)
    BY <1>4, <1>7
  <2>3. \A n \in Nat : Ahead(n) => Ahead(n)'
    BY <1>2, <1>4, <2>1, <2>2 DEF Ahead
  <2>4. EventsAt(dropped) \subseteq estimates => EventsAt(dropped') \subseteq estimates'
    BY <2>1, <2>2 DEF Insert, EventsAt
  <2>5. BufferEvents - 1 \in Nat
    BY AnalysisAssumption
  <2>6. Ahead(BufferEvents - 1) => Ahead(BufferEvents - 1)'
    BY <2>3, <2>5
  <2>7. (\E n \in Nat \ {0} : Ahead(n)) => (\E n \in Nat \ {0} : Ahead(n))'
    BY <2>3
  <2>8. Ahead(0) => Ahead(0)'
    BY <2>3
  <2>9. UNCHANGED <<dropped, faults>>
    BY <2>1
  <2>10. Traced'
    BY <1>3, <2>9, <2>4, <2>6, <2>7, <2>8 DEF Traced
  <2> QED
    BY <1>5, <1>6, <2>10 DEF Outcome
<1>8. /\ HandleFails => /\ dropped' = dropped \cup Filled /\ buffer' = {} /\ analyzed' = analyzed
                        /\ Cardinality(Filled) >= BufferEvents
      /\ BufferEvents - 1 \in Nat /\ BufferEvents - 1 > 0
  <2>1. BufferEvents - 1 \in Nat /\ BufferEvents - 1 > 0
    BY <1>2
  <2>2. HandleFails => /\ dropped' = dropped \cup Filled /\ buffer' = {} /\ analyzed' = analyzed
                       /\ Cardinality(Filled) >= BufferEvents
    BY DEF HandleFails
  <2> QED
    BY <2>1, <2>2
<1>9. CASE HandleFails /\ ~Spend("sink")
  <2>1. faults' = faults /\ estimates' = estimates /\ ~Acceptable(Filled)
    BY <1>9 DEF HandleFails, InsertFails
  <2>2. ~Writable(1..hw) /\ faults["sink"] = 0
    BY <1>3, <2>1 DEF FirstRun
  <2>3. PICK n \in Nat : Ahead(n)
    BY <2>2, 0 \in Nat DEF Traced
  <2>4. Ahead(n + (BufferEvents - 1))'
    <3>1. Cardinality(buffer') = 0 /\ Cardinality(buffer) = BufferEvents - 1
      BY <1>2, <1>8, <1>9
    <3>2. analyzed' = analyzed /\ Cardinality(estimates') = Cardinality(estimates)
      BY <1>8, <1>9, <2>1
    <3> QED
      BY <1>2, <2>3, <3>1, <3>2 DEF Ahead
  <2>5. n + (BufferEvents - 1) \in Nat \ {0}
    <3>1. /\ BufferEvents - 1 \in Nat /\ BufferEvents - 1 > 0
      BY <1>8
    <3> QED
      BY <2>3, <3>1
  <2>6. (\E k \in Nat \ {0} : Ahead(k))'
    BY <2>4, <2>5
  <2>7. faults'["sink"] = 0 /\ ~Writable(1..hw)'
    BY <1>3, <2>1, <2>2
  <2> QED
    BY <1>5, <1>6, <2>6, <2>7 DEF Outcome, Traced
<1>10. CASE HandleFails /\ Spend("sink")
  <2>1. Acceptable(Filled) /\ Writable(1..hw)
    BY <1>3, <1>10, SecondFailure
  <2>2. faults["sink"] = 0 /\ faults'["sink"] = 1
    BY <1>10, SecondFailure
  <2>3. dropped = {} /\ Ahead(0)
    BY <2>1, <2>2 DEF Traced
  <2>4. /\ dropped' = Filled /\ buffer' = {} /\ analyzed' = analyzed
        /\ Cardinality(Filled) >= BufferEvents
    BY <1>8, <1>10, <2>3
  <2>5. CASE estimates' = estimates
    <3>1. Cardinality(estimates') = Cardinality(estimates) /\ Cardinality(buffer') = 0
      BY <1>2, <2>4, <2>5
    <3>2. Ahead(BufferEvents - 1)'
      BY <1>2, <2>3, <2>4, <3>1 DEF Ahead
    <3> QED
      BY <1>5, <1>6, <2>2, <3>2 DEF Outcome, Traced
  <2>6. CASE Insert(Filled)
    <3>1. EventsAt(dropped') \subseteq estimates'
      BY <2>4, <2>6 DEF Insert, EventsAt
    <3> QED
      BY <1>5, <1>6, <2>2, <3>1 DEF Outcome, Traced
  <2> QED
    BY <1>10, <2>5, <2>6 DEF HandleFails, InsertFails
<1> QED
  BY <1>7, <1>9, <1>10

\* The rest of the buffer is written at the end of the batch, or the process ends.
LEMMA FlushTraced ==
  ASSUME Distinct, AInv, FlushBatch \/ FlushFails, IsFiniteSet(estimates), FirstRun',
         ~cancelled, owned, TableIsFresh, Traced
  PROVE  Outcome'
<1>1. Writable(1..hw) => Acceptable(buffer)
  BY FreshAcceptable
<1>2. CASE FlushBatch
  <2>1. /\ done \in Nat /\ done <= done /\ done <= Len(Topic) /\ buffer \subseteq 1..done
        /\ done' = done /\ Insert(buffer) /\ buffer' = {}
    BY <1>2, Positions DEF Is, FlushBatch
  <2>2. TableIsFresh'
    BY <2>1, FreshAfter
  <2>3. /\ Cardinality(buffer) \in Nat /\ Cardinality(estimates) \in Nat /\ analyzed \in Nat
        /\ Cardinality({}) = 0
    BY BufferIsFinite, FS_CardinalityType, FS_EmptySet DEF AInv, TypeOK
  <2>4. Cardinality(estimates') = Cardinality(estimates) + Cardinality(buffer)
    BY <1>2, <2>1, AcceptedRows, BufferIsFinite DEF Insert, FlushBatch
  <2>5. UNCHANGED <<dropped, faults, analyzed>> /\ ~cancelled' /\ owned'
    BY <1>2 DEF FlushBatch
  <2>6. \A n \in Nat : Ahead(n) => Ahead(n)'
    BY <2>1, <2>3, <2>4, <2>5 DEF Ahead
  <2>7. EventsAt(dropped) \subseteq estimates => EventsAt(dropped') \subseteq estimates'
    BY <2>1, <2>5 DEF Insert, EventsAt
  <2>8. BufferEvents - 1 \in Nat
    BY AnalysisAssumption
  <2>9. Ahead(BufferEvents - 1) => Ahead(BufferEvents - 1)'
    BY <2>6, <2>8
  <2>10. /\ (\E n \in Nat \ {0} : Ahead(n)) => (\E n \in Nat \ {0} : Ahead(n))'
         /\ Ahead(0) => Ahead(0)'
    BY <2>6
  <2>11. hw' = hw
    BY <1>2 DEF FlushBatch, topicVars
  <2>12. Writable(1..hw)' <=> Writable(1..hw)
    BY <2>11 DEF Writable, EventsAt, Is
  <2>13. UNCHANGED <<dropped, faults>>
    BY <2>5
  <2>14. Traced'
    BY <2>7, <2>9, <2>10, <2>12, <2>13 DEF Traced
  <2> QED
    BY <2>2, <2>5, <2>14 DEF Outcome
<1>3. CASE FlushFails
  <2>1. (Spend("sink") \/ ~Acceptable(buffer)) /\ pc' = "exit" /\ hw' = hw
    BY <1>3 DEF FlushFails, InsertFails, Return, topicVars
  <2>2. Writable(1..hw)' <=> Writable(1..hw)
    BY <2>1 DEF Writable, EventsAt, Is
  <2> QED
    BY <1>1, <2>1, <2>2, SecondFailure DEF Outcome
<1> QED
  BY <1>2, <1>3

\* The other steps of the case leave the table and its counter alone.
LEMMA RestTraced ==
  ASSUME Distinct, AInv, LossShows, FirstRun', ~cancelled, owned, TableIsFresh, Traced,
         \/ Publish \/ Start \/ Poll \/ PassOver \/ Commit \/ Leave
         \/ DeclareFails \/ UNCHANGED vars,
         faults' = faults \/ Spend("sink"),
         Writable(1..hw)' => Writable(1..hw)
  PROVE  Outcome'
<1>0. ASSUME UNCHANGED <<dropped, buffer, estimates, faults, analyzed>>
      PROVE  Traced'
  <2>1. \A n \in Nat : Ahead(n) => Ahead(n)'
    BY <1>0 DEF Ahead
  <2>2. (\E n \in Nat \ {0} : Ahead(n)) => (\E n \in Nat \ {0} : Ahead(n))'
    BY <2>1
  <2>3. /\ Ahead(0) => Ahead(0)'
        /\ Ahead(BufferEvents - 1) => Ahead(BufferEvents - 1)'
    BY <1>0 DEF Ahead
  <2>4. EventsAt(dropped) \subseteq estimates => EventsAt(dropped') \subseteq estimates'
    BY <1>0 DEF EventsAt
  <2>5. UNCHANGED <<dropped, faults>>
    BY <1>0
  <2> QED
    BY <2>2, <2>3, <2>4, <2>5 DEF Traced
<1>1. CASE Publish \/ Start \/ Poll \/ UNCHANGED vars
  <2>1. UNCHANGED <<dropped, done, buffer, estimates, faults, analyzed>>
    BY <1>1 DEF Publish, Start, Poll, vars, topicVars, pollVars, tableVars, LossShows
  <2>2. UNCHANGED <<cancelled, owned>>
    BY <1>1, Zenon DEF Publish, Start, Poll, vars, topicVars, pollVars, tableVars
  <2>3. TableIsFresh' /\ Traced'
    BY <1>0, <2>1 DEF TableIsFresh
  <2>4. ~cancelled' /\ owned'
    BY <2>2
  <2> QED
    BY <2>3, <2>4 DEF Outcome
<1>2. CASE PassOver
  <2>1. UNCHANGED <<dropped, buffer, estimates, faults, analyzed>> /\ ~cancelled' /\ owned'
    BY <1>2 DEF PassOver, tableVars
  <2>2. done + 1 \in Nat /\ done <= done + 1 /\ done + 1 <= Len(Topic) /\ done' = done + 1
    BY <1>2, RecordInHand, Positions DEF PassOver, Next1
  <2>3. TableIsFresh'
    BY <2>1, <2>2, FreshAfter, {} \subseteq 1..(done + 1)
  <2> QED
    BY <1>0, <2>1, <2>3 DEF Outcome
<1>3. CASE Commit
  <2>1. UNCHANGED <<dropped, buffer, estimates, faults, analyzed>> /\ ~cancelled' /\ owned'
    BY <1>3 DEF Commit, tableVars
  <2>2. TableIsFresh'
    BY <1>3 DEF Commit, tableVars, TableIsFresh, Flushed, BatchDone, AInv, TypeOK
  <2> QED
    BY <1>0, <2>1, <2>2 DEF Outcome
<1>4. CASE Leave
  <2>1. faults' = faults
    BY <1>4, Interrupted DEF Leave, Interruptions, Faults
  <2>2. /\ done' = done /\ buffer' = buffer /\ UNCHANGED <<analyzed, estimates, dropped>>
        /\ ~cancelled' /\ owned'
    BY <1>4 DEF Leave, Return, Forget, AInv, NothingForgotten, tableVars
  <2> QED
    BY <1>0, <2>1, <2>2 DEF Outcome, TableIsFresh
<1>5. CASE DeclareFails
  <2>1. faults["sink"] = 0 /\ faults'["sink"] = 1 /\ Writable(1..hw)
    BY <1>5, SecondFailure DEF DeclareFails
  <2>2. dropped' = {}
    BY <1>5, <2>1 DEF DeclareFails, Traced
  <2>3. UNCHANGED <<done, buffer, estimates>> /\ ~cancelled' /\ owned'
    BY <1>5 DEF DeclareFails
  <2> QED
    BY <2>1, <2>2, <2>3 DEF Outcome, Traced, EventsAt, TableIsFresh
<1> QED
  BY <1>1, <1>2, <1>3, <1>4, <1>5

LEMMA LossShowsStep ==
  ASSUME Distinct, BufferEvents > 1, AInv, AInv', LossShows, [Next]_vars
  PROVE  LossShows'
<1> SUFFICES ASSUME FirstRun' PROVE Outcome'
  BY TableStaysFinite DEF LossShows
<1>1. /\ FirstRun /\ (faults' = faults \/ Spend("sink")) /\ ~Declare
      /\ \A f \in Interruptions : ~Spend(f)
      /\ Writable(1..hw)' => Writable(1..hw)
  BY FirstRunBefore, Interrupted, WritableBefore
<1>2. Outcome /\ IsFiniteSet(estimates)
  BY <1>1 DEF LossShows
<1>3. CASE pc = "exit" /\ (faults["sink"] = 1 \/ ~Writable(1..hw))
  <2>1. ~Spend("sink")
    BY <1>1, <1>3, SecondFailure
  <2>2. pc' = "exit"
    BY <1>1, <1>3, <2>1
       DEF Next, Publish, Start, Poll, PassOver, Handle, HandleFails, FlushBatch, FlushFails,
           Commit, CommitFails, SessionLost, Signal, Leave, DeclareFails, Crash, InHand,
           Flushed, BatchDone, Interruptions, Faults, vars, pollVars
  <2> QED
    BY <1>1, <1>3, <2>1, <2>2 DEF Outcome
<1>4. CASE ~cancelled /\ owned /\ TableIsFresh /\ Traced
  <2>1. ~CommitFails /\ ~SessionLost /\ ~Signal /\ ~Crash
    BY <1>1, <1>4 DEF CommitFails, SessionLost, Signal, Crash, Faults, Interruptions
  <2>2. CASE Handle \/ HandleFails
    BY <1>1, <1>2, <1>4, <2>2, HandleTraced
  <2>3. CASE FlushBatch \/ FlushFails
    BY <1>2, <1>4, <2>3, FlushTraced
  <2>4. CASE \/ Publish \/ Start \/ Poll \/ PassOver \/ Commit \/ Leave
             \/ DeclareFails \/ UNCHANGED vars
    BY <1>1, <1>4, <2>4, RestTraced
  <2> QED
    BY <1>1, <2>1, <2>2, <2>3, <2>4 DEF Next
<1> QED
  BY <1>2, <1>3, <1>4 DEF Outcome

\* 006_integrity_detection.sql:249-264: if the topic holds every event once and
\* more than one event fills the buffer (it is 200 rows of 5 per event), estimates
\* that the first process loses to refused statements, or to one failed statement,
\* show, because the event that filled the buffer is the only one of the lost ones
\* that is not counted.
THEOREM OneFailureIsSeen ==
  ASSUME Distinct, BufferEvents > 1
  PROVE  Spec => []OneFailureShows
<1>1. Init => LossShows
  BY FS_EmptySet DEF Init, LossShows, Outcome, Traced, Ahead, TableIsFresh, FirstRun, NoFault, Faults
<1>2. AInv /\ AInv' /\ LossShows /\ [Next]_vars => LossShows'
  BY LossShowsStep
<1>3. AInv /\ LossShows => OneFailureShows
  <2> SUFFICES ASSUME AInv, LossShows, FirstRun, pc = "poll",
                      analyzed = Cardinality(estimates)
               PROVE  Estimated(1..committed)
    BY DEF OneFailureShows, FirstRun
  <2>1. Traced /\ Cardinality(estimates) \in Nat
    BY FS_CardinalityType DEF LossShows, Outcome
  <2>2. buffer = {} /\ Cardinality(buffer) = 0
    BY FS_EmptySet DEF AInv, NothingForgotten
  <2>3. ~Ahead(BufferEvents - 1) /\ \A n \in Nat \ {0} : ~Ahead(n)
    BY <2>1, <2>2, AnalysisAssumption DEF Ahead
  <2>4. EventsAt(dropped) \subseteq estimates
    BY <2>1, <2>3 DEF Traced, EventsAt
  <2> QED
    BY <2>4, Positions DEF Estimated, EventsAt, Is, Accounted
<1> QED
  BY <1>1, <1>2, <1>3, AnalysisInvariant, PTL DEF Spec

=============================================================================
