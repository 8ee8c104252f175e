------------------------ MODULE IntegrityStreamProofs ------------------------
(***************************************************************************)
(* Proofs about the stream phase for every topic, every set of hits, every *)
(* buffer size and any number of faults.                                   *)
(*                                                                         *)
(* The argument. Rule 1 judges a record by itself, and it is the stronger  *)
(* of the two stream rules; so the rule that can own an event is fixed by  *)
(* the record alone (Expected), whatever was redelivered and whatever a    *)
(* restarted process forgot. Every accepted row is determined by that      *)
(* rule, and every claim in memory is backed by a canonical row in the     *)
(* table or in the buffer. The offset discipline then carries the buffer's *)
(* rows to the table before the offsets move.                              *)
(***************************************************************************)
EXTENDS IntegrityStream, FiniteSetTheorems, TLAPS

\* The only rule that can own the event in this phase.
Expected(e) == IF e \in Unknown THEN Inventory ELSE TimeOrder

\* The event's canonical finding is in the set of rows.
Settled(rows, e) ==
  \E f \in rows : f.event = e /\ f.rule = Expected(e) /\ f.by = None

\* A table whose rows all name the expected owner, and hold the owner's row.
Sound(table) ==
  \A f \in table :
    /\ f.by = IF f.rule = Expected(f.event) THEN None ELSE Expected(f.event)
    /\ Settled(table, f.event)

\* Rows on their way to a table: a redelivered owner may name itself.
Backed(table, rows) ==
  \A f \in rows :
    /\ f.by = None => f.rule = Expected(f.event)
    /\ f.by # None => f.by = Expected(f.event)
    /\ Settled(table \cup rows, f.event)

\* Every claim is the expected one and has its canonical row.
ClaimsIn(ledger, rows) ==
  \A e \in Event : ledger[e] # None =>
    /\ ledger[e] = Expected(e)
    /\ Settled(rows, e)

\* The first offsets[p] records of every partition have their rule 1 hit in rows.
SafeUpTo(offsets, rows) ==
  \A p \in Partition : \A i \in 1..offsets[p] :
    Kind[Produce[p][i]] = "own" /\ Produce[p][i] \in Unknown =>
      Settled(rows, Produce[p][i])

TableSound    == Sound(findings)
BufferSound   == Backed(findings, buffer)
ClaimsBacked  == ClaimsIn(claims, findings \cup buffer)
ObservedSafe  == SafeUpTo(done, findings \cup buffer)
CommittedSafe == SafeUpTo(committed, findings)

NothingInHand ==
  /\ pc \in {"poll", "commit", "down"} => done = upto /\ buffer = {}
  /\ pc = "down" => done = committed /\ claims = NoClaims /\ owned

IInv ==
  /\ TypeOK
  /\ TableSound /\ BufferSound /\ ClaimsBacked
  /\ ObservedSafe /\ CommittedSafe
  /\ NothingInHand

-----------------------------------------------------------------------------
(* Facts about rules, rows and tables. *)

\* Both stream rules can own an event, None cannot.
LEMMA OwnersAnchored ==
  /\ Inventory \in EventAnchored /\ TimeOrder \in EventAnchored
  /\ None \notin EventAnchored
  /\ \A e : Expected(e) \in EventAnchored /\ Expected(e) # None
BY NoneAssumption
   DEF EventAnchored, Rule, Class, Inventory, TimeOrder, Velocity, Activity, Expected

\* Of two stream hits the stronger is rule 1 (rule.go All).
LEMMA StreamPrecedence ==
  /\ StrongerThan(Inventory, TimeOrder)
  /\ ~StrongerThan(TimeOrder, Inventory)
<1>1. All[1] = 1 /\ All[2] = 5 /\ All[3] = 3 /\ All[4] = 2 /\ All[5] = 4
  BY DEF All, Inventory, Velocity, TimeOrder, Trajectory, Activity
<1>2. StrongerThan(Inventory, TimeOrder)
  <2>1. 1 \in 1..5 /\ 3 \in 1..5 /\ 1 < 3
    OBVIOUS
  <2> QED
    BY <1>1, <2>1 DEF StrongerThan, Inventory, TimeOrder
<1>3. ~StrongerThan(TimeOrder, Inventory)
  <2> SUFFICES ASSUME NEW i \in 1..5, NEW j \in 1..5,
                      i < j, All[i] = 3, All[j] = 1
               PROVE  FALSE
    BY DEF StrongerThan, Inventory, TimeOrder
  <2>1. j = 1
    BY <1>1
  <2> QED
    BY <2>1
<1> QED
  BY <1>2, <1>3

\* The strongest stream hit of an event does not depend on the watermark.
LEMMA StrongestHit ==
  ASSUME NEW e \in Event, Hits(e) # {}
  PROVE  /\ Kind[e] = "own"
         /\ Hits(e) \subseteq {Inventory, TimeOrder}
         /\ Expected(e) \in Hits(e)
         /\ Strongest(Hits(e)) = Expected(e)
<1>1. Kind[e] = "own" /\ Hits(e) \subseteq {Inventory, TimeOrder}
  BY DEF Hits
<1>2. Inventory \in Hits(e) <=> e \in Unknown
  BY <1>1 DEF Hits, Inventory, TimeOrder
<1>3. Expected(e) \in Hits(e)
  BY <1>1, <1>2 DEF Expected
<1>4. \A s \in Hits(e) \ {Expected(e)} : StrongerThan(Expected(e), s)
  BY <1>1, <1>2, StreamPrecedence DEF Expected
<1>5. ASSUME NEW r \in Hits(e), \A s \in Hits(e) \ {r} : StrongerThan(r, s)
      PROVE  r = Expected(e)
  BY <1>1, <1>2, <1>3, <1>5, StreamPrecedence DEF Expected, Inventory, TimeOrder
<1>6. Strongest(Hits(e)) = Expected(e)
  BY <1>3, <1>4, <1>5 DEF Strongest
<1> QED
  BY <1>1, <1>3, <1>6

\* More rows never unsettle an event.
LEMMA SettledMonotone ==
  ASSUME NEW A, NEW C, A \subseteq C, NEW e, Settled(A, e)
  PROVE  Settled(C, e)
BY DEF Settled

LEMMA SafeMonotone ==
  ASSUME NEW o, NEW A, NEW C, SafeUpTo(o, A),
         \A e \in Event : Settled(A, e) => Settled(C, e),
         \A p \in Partition : \A i \in 1..o[p] : Produce[p][i] \in Event
  PROVE  SafeUpTo(o, C)
BY DEF SafeUpTo

\* What one observed record adds: rows that name the expected owner, and the
\* owner's canonical row unless an earlier claim already stands for it.
LEMMA RowsOfHits ==
  ASSUME NEW e \in Event, NEW c \in Claims, c[e] = None \/ c[e] = Expected(e),
         Hits(e) # {}, NEW R, R = Rows(c, e, Hits(e), "stream")
  PROVE  /\ R \subseteq Finding
         /\ Winner(c, e, Hits(e)) = Expected(e)
         /\ \A f \in R : /\ f.event = e
                         /\ f.by = None => f.rule = Expected(e)
                         /\ f.by # None => f.by = Expected(e)
         /\ c[e] = None => Settled(R, e)
<1>1. Winner(c, e, Hits(e)) = Expected(e)
  BY StrongestHit DEF Winner
<1>2. R = {[event |-> e, rule |-> h,
            by |-> IF h = Expected(e) /\ c[e] = None THEN None ELSE Expected(e),
            phase |-> "stream"] : h \in Hits(e)}
  BY <1>1 DEF Rows
<1>3. Hits(e) \subseteq EventAnchored
  BY StrongestHit, OwnersAnchored
<1>4. R \subseteq Finding
  BY <1>2, <1>3, OwnersAnchored DEF Finding
<1>5. \A f \in R : /\ f.event = e
                   /\ f.by = None => f.rule = Expected(e)
                   /\ f.by # None => f.by = Expected(e)
  BY <1>2, OwnersAnchored
<1>6. ASSUME c[e] = None
      PROVE  Settled(R, e)
  <2> DEFINE own == [event |-> e, rule |-> Expected(e), by |-> None, phase |-> "stream"]
  <2>1. own \in R
    BY <1>2, <1>6, StrongestHit
  <2>2. own.event = e /\ own.rule = Expected(e) /\ own.by = None
    OBVIOUS
  <2> QED
    BY <2>1, <2>2 DEF Settled
<1> QED
  BY <1>1, <1>4, <1>5, <1>6

\* Writing rows that pass validation keeps the table sound, loses nothing, and
\* settles every event the rows settle: a row that meets ON CONFLICT DO NOTHING
\* meets a row with the same meaning.
LEMMA InsertKeepsSound ==
  ASSUME NEW table, NEW rows, table \subseteq Finding, rows \subseteq Finding,
         Sound(table), Backed(table, rows), ~Rejected(rows)
  PROVE  /\ Sound(Inserted(table, rows))
         /\ Inserted(table, rows) \subseteq Finding
         /\ table \subseteq Inserted(table, rows)
         /\ \A e : Settled(table \cup rows, e) => Settled(Inserted(table, rows), e)
<1> DEFINE T == Inserted(table, rows)
<1>1. table \subseteq T /\ T \subseteq table \cup rows
  BY DEF Inserted
<1>2. \A f \in rows :
        f.by = IF f.rule = Expected(f.event) THEN None ELSE Expected(f.event)
  BY OwnersAnchored DEF Backed, Rejected
<1>3. ASSUME NEW e, Settled(table \cup rows, e)
      PROVE  Settled(T, e)
  <2>1. PICK f \in table \cup rows :
               f.event = e /\ f.rule = Expected(e) /\ f.by = None
    BY <1>3 DEF Settled
  <2>2. CASE f \in T
    BY <2>1, <2>2 DEF Settled
  <2>3. CASE f \notin T
    <3>1. PICK g \in table : SameKey(f, g)
      BY <2>1, <2>3 DEF Inserted
    <3>2. g.event = e /\ g.rule = Expected(e) /\ g.by = None
      BY <2>1, <3>1 DEF SameKey, Sound
    <3> QED
      BY <1>1, <3>2 DEF Settled
  <2> QED
    BY <2>2, <2>3
<1>4. \A f \in table \cup rows : Settled(table \cup rows, f.event)
  <2>1. \A f \in table : Settled(table, f.event)
    BY DEF Sound
  <2> QED
    BY <2>1, SettledMonotone DEF Backed
<1>5. Sound(T)
  <2>1. \A f \in T :
          f.by = IF f.rule = Expected(f.event) THEN None ELSE Expected(f.event)
    BY <1>1, <1>2 DEF Sound
  <2>2. \A f \in T : Settled(T, f.event)
    BY <1>1, <1>3, <1>4
  <2> QED
    BY <2>1, <2>2 DEF Sound
<1> QED
  BY <1>1, <1>3, <1>5
-----------------------------------------------------------------------------
(* One step of the consumer. *)

\* Records of the topic are events, positions are naturals.
LEMMA TopicTypes ==
  /\ \A p \in Partition : Len(Produce[p]) \in Nat
  /\ \A p \in Partition : \A i \in 1..Len(Produce[p]) : Produce[p][i] \in Event
  /\ Offset \subseteq Nat
<1>1. \A p \in Partition : Produce[p] \in Seq(Event)
  BY StreamAssumption
<1>2. \A p \in Partition : Len(Produce[p]) \in Nat
  BY <1>1
<1> QED
  BY <1>1, <1>2 DEF Offset

\* Everything observed or committed lies in the topic.
LEMMA Positions ==
  ASSUME TypeOK
  PROVE  /\ \A p \in Partition : \A i \in 1..done[p] : Produce[p][i] \in Event
         /\ \A p \in Partition : \A i \in 1..committed[p] : Produce[p][i] \in Event
<1>1. \A p \in Partition : /\ done[p] \in Nat /\ committed[p] \in Nat
                           /\ done[p] <= Len(Produce[p])
                           /\ committed[p] <= Len(Produce[p])
  BY TopicTypes DEF TypeOK
<1> QED
  BY <1>1, TopicTypes

\* Observing one record keeps the buffer backed, the ledger backed, and settles
\* the record if rule 1 hits it.
LEMMA ObserveRecord ==
  ASSUME IInv, NEW p \in Partition, InHand(p),
         NEW e, e = Current(p),
         NEW R, R = Resolved(p),
         NEW c, c = ClaimFor(claims, e, Hits(e))
  PROVE  /\ e \in Event
         /\ buffer \subseteq R /\ R \subseteq Finding /\ c \in Claims
         /\ Backed(findings, R)
         /\ ClaimsIn(c, findings \cup R)
         /\ Kind[e] = "own" /\ e \in Unknown => Settled(findings \cup R, e)
<1>1. e \in Event
  <2>1. /\ done[p] \in Nat /\ upto[p] \in Nat /\ hw[p] \in Nat
        /\ done[p] < upto[p] /\ upto[p] <= hw[p] /\ hw[p] <= Len(Produce[p])
    BY DEF IInv, TypeOK, InHand
  <2>2. done[p] + 1 \in 1..Len(Produce[p])
    BY <2>1, TopicTypes
  <2> QED
    BY <2>2, TopicTypes DEF Current
<1>2. claims \in Claims /\ buffer \subseteq Finding
  BY DEF IInv, TypeOK
<1>3. claims[e] = None \/ claims[e] = Expected(e)
  BY <1>1 DEF IInv, ClaimsBacked, ClaimsIn
<1> DEFINE N == Rows(claims, e, Hits(e), "stream")
<1>4. R = buffer \cup N
  BY DEF Resolved
<1>5. CASE Hits(e) = {}
  <2>1. N = {}
    BY <1>5 DEF Rows
  <2>2. R = buffer /\ c = claims
    BY <1>4, <1>5, <2>1 DEF ClaimFor
  <2>3. ~(Kind[e] = "own" /\ e \in Unknown)
    BY <1>5 DEF Hits, Inventory, TimeOrder
  <2> QED
    BY <1>1, <1>2, <2>2, <2>3 DEF IInv, BufferSound, ClaimsBacked
<1>6. CASE Hits(e) # {}
  <2>1. /\ N \subseteq Finding
        /\ Winner(claims, e, Hits(e)) = Expected(e)
        /\ \A f \in N : /\ f.event = e
                        /\ f.by = None => f.rule = Expected(e)
                        /\ f.by # None => f.by = Expected(e)
        /\ claims[e] = None => Settled(N, e)
    BY <1>1, <1>2, <1>3, <1>6, RowsOfHits
  <2>2. findings \cup buffer \subseteq findings \cup R /\ N \subseteq findings \cup R
    BY <1>4
  <2>3. Settled(findings \cup R, e)
    <3>1. CASE claims[e] = None
      BY <2>1, <2>2, <3>1, SettledMonotone
    <3>2. CASE claims[e] # None
      <4>1. Settled(findings \cup buffer, e)
        BY <1>1, <3>2 DEF IInv, ClaimsBacked, ClaimsIn
      <4> QED
        BY <2>2, <4>1, SettledMonotone
    <3> QED
      BY <3>1, <3>2
  <2>4. Backed(findings, R)
    <3>1. \A f \in buffer : /\ f.by = None => f.rule = Expected(f.event)
                            /\ f.by # None => f.by = Expected(f.event)
                            /\ Settled(findings \cup buffer, f.event)
      BY DEF IInv, BufferSound, Backed
    <3>2. \A f \in buffer : Settled(findings \cup R, f.event)
      BY <3>1, <2>2, SettledMonotone
    <3>3. \A f \in N : Settled(findings \cup R, f.event)
      BY <2>1, <2>3
    <3> HIDE DEF N
    <3> QED
      BY <1>4, <2>1, <3>1, <3>2, <3>3 DEF Backed
  <2>5. c = [claims EXCEPT ![e] = Expected(e)]
    BY <1>6, <2>1 DEF ClaimFor
  <2>6. c \in Claims
    BY <1>1, <1>2, <2>5, OwnersAnchored DEF Claims
  <2>7. ClaimsIn(c, findings \cup R)
    <3> SUFFICES ASSUME NEW x \in Event, c[x] # None
                 PROVE  c[x] = Expected(x) /\ Settled(findings \cup R, x)
      BY DEF ClaimsIn
    <3>1. CASE x = e
      BY <1>1, <1>2, <2>3, <2>5, <3>1 DEF Claims
    <3>2. CASE x # e
      <4>1. c[x] = claims[x]
        BY <1>1, <1>2, <2>5, <3>2 DEF Claims
      <4>2. claims[x] = Expected(x) /\ Settled(findings \cup buffer, x)
        BY <4>1 DEF IInv, ClaimsBacked, ClaimsIn
      <4> QED
        BY <2>2, <4>1, <4>2, SettledMonotone
    <3> QED
      BY <3>1, <3>2
  <2> QED
    BY <1>1, <1>4, <1>2, <2>1, <2>3, <2>4, <2>6, <2>7
<1> QED
  BY <1>5, <1>6

\* A process that loses its memory is safe wherever the group's offset stands,
\* provided the records before it are safe in the table alone.
LEMMA Restarted ==
  ASSUME IInv, Forget(committed'), UNCHANGED hw,
         committed' \in [Partition -> Nat],
         \A p \in Partition : committed'[p] <= hw[p],
         findings' \subseteq Finding, Sound(findings'),
         SafeUpTo(committed', findings'),
         inspected' \in Nat \cup {None}, faults' \in [Faults -> Nat]
  PROVE  IInv'
<1> USE DEF Forget
<1>1. TypeOK'
  <2>1. claims' \in Claims /\ watermark' \in [Subscriber -> Nat \cup {None}]
    BY DEF NoClaims, NoWatermark, Claims
  <2>2. \A p \in Partition :
           /\ hw'[p] <= Len(Produce[p])
           /\ committed'[p] <= done'[p] /\ done'[p] <= upto'[p] /\ upto'[p] <= hw'[p]
    BY DEF IInv, TypeOK
  <2> QED
    BY <2>1, <2>2 DEF IInv, TypeOK
<1>2. TableSound' /\ CommittedSafe'
  BY DEF TableSound, CommittedSafe
<1>3. BufferSound'
  BY DEF BufferSound, Backed
<1>4. ClaimsBacked'
  BY DEF ClaimsBacked, ClaimsIn, NoClaims
<1>5. ObservedSafe'
  <2>1. findings' \cup buffer' = findings'
    OBVIOUS
  <2> QED
    BY <2>1 DEF ObservedSafe
<1>6. NothingInHand'
  BY DEF NothingInHand
<1> QED
  BY <1>1, <1>2, <1>3, <1>4, <1>5, <1>6 DEF IInv

LEMMA Spent ==
  ASSUME faults \in [Faults -> Nat], NEW f \in Faults, Spend(f)
  PROVE  faults' \in [Faults -> Nat]
BY DEF Spend

\* A write that fails, whichever half of it took effect, leaves a state the next
\* process can start from.
LEMMA RefusedWrite ==
  ASSUME IInv, NEW rows, rows \subseteq Finding, Backed(findings, rows),
         NEW count \in Nat, Refused(rows, count), UNCHANGED topicVars
  PROVE  IInv'
<1>1. /\ committed \in [Partition -> Nat] /\ committed' = committed /\ hw' = hw
      /\ \A p \in Partition : committed[p] <= hw[p]
      /\ findings \subseteq Finding /\ faults \in [Faults -> Nat]
      /\ inspected \in Nat \cup {None}
      /\ Sound(findings) /\ SafeUpTo(committed, findings)
  BY DEF IInv, TypeOK, topicVars, TableSound, CommittedSafe
<1>2. /\ Forget(committed) /\ inspected' \in Nat \cup {None}
  BY <1>1 DEF Refused, Leave, LeaveBroken
<1>3. faults' \in [Faults -> Nat]
  BY <1>1, Spent DEF Refused, Faults
<1>4. findings' = findings \/ (~Rejected(rows) /\ findings' = Inserted(findings, rows))
  BY DEF Refused
<1>5. findings' \subseteq Finding /\ Sound(findings') /\ SafeUpTo(committed, findings')
  <2>1. CASE findings' = findings
    BY <1>1, <2>1
  <2>2. CASE ~Rejected(rows) /\ findings' = Inserted(findings, rows)
    <3>1. /\ Sound(findings') /\ findings' \subseteq Finding
          /\ findings \subseteq findings'
      BY <1>1, <2>2, InsertKeepsSound
    <3>2. SafeUpTo(committed, findings')
      BY <1>1, <3>1, SafeMonotone, SettledMonotone, Positions DEF IInv
    <3> QED
      BY <3>1, <3>2
  <2> QED
    BY <1>4, <2>1, <2>2
<1> QED
  BY <1>1, <1>2, <1>3, <1>5, Restarted
-----------------------------------------------------------------------------
(* The inductive invariant. *)

LEMMA InitEstablishes == Init => IInv
<1> SUFFICES ASSUME Init
             PROVE  IInv
  OBVIOUS
<1>1. TypeOK
  BY TopicTypes DEF Init, TypeOK, NoClaims, NoWatermark, Claims
<1>2. TableSound /\ BufferSound /\ ClaimsBacked
  BY DEF Init, TableSound, BufferSound, ClaimsBacked, Sound, Backed, ClaimsIn, NoClaims
<1>3. ObservedSafe /\ CommittedSafe
  BY DEF Init, ObservedSafe, CommittedSafe, SafeUpTo
<1>4. NothingInHand
  BY DEF Init, NothingInHand
<1> QED
  BY <1>1, <1>2, <1>3, <1>4 DEF IInv

LEMMA PublishKeeps ==
  ASSUME IInv, NEW p \in Partition, Publish(p)
  PROVE  IInv'
<1> USE DEF Publish, cursorVars, engineVars, tableVars
<1>1. TypeOK'
  BY TopicTypes DEF IInv, TypeOK
<1>2. TableSound' /\ BufferSound' /\ ClaimsBacked'
  BY DEF IInv, TableSound, BufferSound, ClaimsBacked
<1>3. ObservedSafe' /\ CommittedSafe' /\ NothingInHand'
  BY DEF IInv, ObservedSafe, CommittedSafe, NothingInHand
<1> QED
  BY <1>1, <1>2, <1>3 DEF IInv

LEMMA StartKeeps ==
  ASSUME IInv, Start
  PROVE  IInv'
BY DEF Start, topicVars, cursorVars, engineVars, tableVars, IInv, TypeOK,
       TableSound, BufferSound, ClaimsBacked, ObservedSafe, CommittedSafe, NothingInHand

LEMMA PollKeeps ==
  ASSUME IInv, Poll
  PROVE  IInv'
<1> USE DEF Poll, topicVars, engineVars, tableVars
<1>1. TypeOK'
  BY TopicTypes DEF IInv, TypeOK
<1>2. TableSound' /\ BufferSound' /\ ClaimsBacked'
  BY DEF IInv, TableSound, BufferSound, ClaimsBacked
<1>3. ObservedSafe' /\ CommittedSafe' /\ NothingInHand'
  BY DEF IInv, ObservedSafe, CommittedSafe, NothingInHand
<1> QED
  BY <1>1, <1>2, <1>3 DEF IInv

\* The next position is the current record's.
LEMMA Advanced ==
  ASSUME IInv, NEW p \in Partition, InHand(p),
         done' = [done EXCEPT ![p] = @ + 1], UNCHANGED <<topicVars, upto, pc>>
  PROVE  /\ done' \in [Partition -> Nat]
         /\ \A q \in Partition : committed'[q] <= done'[q] /\ done'[q] <= upto'[q]
         /\ \A q \in Partition : \A i \in 1..done'[q] :
               i \in 1..done[q] \/ (q = p /\ Produce[q][i] = Current(p))
BY DEF IInv, TypeOK, InHand, Current, topicVars

LEMMA SkipKeeps ==
  ASSUME IInv, NEW p \in Partition, Skip(p)
  PROVE  IInv'
<1> USE DEF Skip, engineVars, tableVars
<1>0. /\ done' \in [Partition -> Nat]
      /\ \A q \in Partition : committed'[q] <= done'[q] /\ done'[q] <= upto'[q]
      /\ \A q \in Partition : \A i \in 1..done'[q] :
            i \in 1..done[q] \/ (q = p /\ Produce[q][i] = Current(p))
  BY Advanced
<1>1. TypeOK'
  BY <1>0 DEF IInv, TypeOK, topicVars
<1>2. TableSound' /\ BufferSound' /\ ClaimsBacked'
  BY DEF IInv, TableSound, BufferSound, ClaimsBacked
<1>3. ObservedSafe'
  BY <1>0 DEF IInv, ObservedSafe, SafeUpTo, RulesOn
<1>4. CommittedSafe' /\ NothingInHand'
  BY DEF IInv, CommittedSafe, NothingInHand, InHand, topicVars
<1> QED
  BY <1>1, <1>2, <1>3, <1>4 DEF IInv

LEMMA ObserveKeeps ==
  ASSUME IInv, NEW p \in Partition, Observe(p)
  PROVE  IInv'
<1> DEFINE e == Current(p)
           R == Resolved(p)
<1>1. /\ e \in Event
      /\ buffer \subseteq R /\ R \subseteq Finding /\ claims' \in Claims
      /\ Backed(findings, R)
      /\ ClaimsIn(claims', findings \cup R)
      /\ Kind[e] = "own" /\ e \in Unknown => Settled(findings \cup R, e)
  BY ObserveRecord DEF Observe
<1>2. /\ done' \in [Partition -> Nat]
      /\ \A q \in Partition : committed'[q] <= done'[q] /\ done'[q] <= upto'[q]
      /\ \A q \in Partition : \A i \in 1..done'[q] :
            i \in 1..done[q] \/ (q = p /\ Produce[q][i] = e)
  BY Advanced DEF Observe
<1>3. /\ findings \subseteq Finding /\ Sound(findings)
      /\ SafeUpTo(done, findings \cup buffer) /\ SafeUpTo(committed, findings)
      /\ \A q \in Partition : \A i \in 1..done[q] : Produce[q][i] \in Event
      /\ \A q \in Partition : \A i \in 1..committed[q] : Produce[q][i] \in Event
  BY Positions DEF IInv, TypeOK, TableSound, ObservedSafe, CommittedSafe
\* Written or still buffered, nothing that was settled gets lost.
<1>4. /\ findings' \subseteq Finding /\ buffer' \subseteq Finding
      /\ Sound(findings') /\ Backed(findings', buffer')
      /\ findings \subseteq findings'
      /\ \A x : Settled(findings \cup R, x) => Settled(findings' \cup buffer', x)
  <2>1. CASE buffer' = R /\ findings' = findings
    BY <1>1, <1>3, <2>1
  <2>2. CASE Accepted(R) /\ buffer' = {}
    <3>1. /\ Sound(findings') /\ findings' \subseteq Finding
          /\ findings \subseteq findings'
          /\ \A x : Settled(findings \cup R, x) => Settled(findings', x)
      BY <1>1, <1>3, <2>2, InsertKeepsSound DEF Accepted
    <3>2. findings' \cup buffer' = findings' /\ Backed(findings', buffer')
      BY <2>2 DEF Backed
    <3> QED
      BY <2>2, <3>1, <3>2
  <2> QED
    BY <2>1, <2>2 DEF Observe
<1>5. TypeOK'
  <2>1. watermark' \in [Subscriber -> Nat \cup {None}]
    BY <1>1, StreamAssumption DEF Observe, NewWatermark, IInv, TypeOK
  <2> QED
    BY <1>1, <1>2, <1>4, <2>1 DEF Observe, IInv, TypeOK, topicVars
<1>6. TableSound' /\ BufferSound'
  BY <1>4 DEF TableSound, BufferSound
<1>7. ClaimsBacked'
  BY <1>1, <1>4 DEF ClaimsBacked, ClaimsIn
<1>8. ObservedSafe'
  <2> SUFFICES ASSUME NEW q \in Partition, NEW i \in 1..done'[q],
                      Kind[Produce[q][i]] = "own", Produce[q][i] \in Unknown
               PROVE  Settled(findings' \cup buffer', Produce[q][i])
    BY DEF ObservedSafe, SafeUpTo
  <2>1. CASE i \in 1..done[q]
    <3>1. Settled(findings \cup buffer, Produce[q][i])
      BY <1>3, <2>1 DEF SafeUpTo
    <3>2. findings \cup buffer \subseteq findings \cup R
      BY <1>1
    <3> QED
      BY <1>4, <3>1, <3>2, SettledMonotone
  <2>2. CASE q = p /\ Produce[q][i] = e
    BY <1>1, <1>4, <2>2
  <2> QED
    BY <1>2, <2>1, <2>2
<1>9. CommittedSafe'
  BY <1>3, <1>4, SafeMonotone, SettledMonotone DEF CommittedSafe, Observe, topicVars
<1>10. NothingInHand'
  BY DEF NothingInHand, Observe, InHand
<1> QED
  BY <1>5, <1>6, <1>7, <1>8, <1>9, <1>10 DEF IInv

LEMMA ObserveFailsKeeps ==
  ASSUME IInv, NEW p \in Partition, ObserveFails(p)
  PROVE  IInv'
<1>1. Resolved(p) \subseteq Finding /\ Backed(findings, Resolved(p))
  BY ObserveRecord DEF ObserveFails
<1>2. seen + 1 \in Nat
  BY DEF IInv, TypeOK
<1> QED
  BY <1>1, <1>2, RefusedWrite DEF ObserveFails

LEMMA FlushBatchKeeps ==
  ASSUME IInv, FlushBatch
  PROVE  IInv'
<1> USE DEF FlushBatch, topicVars, cursorVars
<1>1. /\ Sound(findings') /\ findings' \subseteq Finding
      /\ findings \subseteq findings'
      /\ \A x : Settled(findings \cup buffer, x) => Settled(findings', x)
  BY InsertKeepsSound DEF Accepted, IInv, TypeOK, TableSound, BufferSound
<1>2. findings' \cup buffer' = findings'
  OBVIOUS
<1>3. TypeOK'
  BY <1>1 DEF IInv, TypeOK
<1>4. TableSound' /\ BufferSound'
  BY <1>1 DEF TableSound, BufferSound, Backed
<1>5. ClaimsBacked'
  BY <1>1, <1>2 DEF IInv, ClaimsBacked, ClaimsIn
<1>6. ObservedSafe'
  BY <1>1, <1>2 DEF IInv, ObservedSafe, SafeUpTo
<1>7. CommittedSafe'
  BY <1>1, SafeMonotone, SettledMonotone, Positions DEF IInv, CommittedSafe
<1>8. NothingInHand'
  BY DEF NothingInHand, BatchDone
<1> QED
  BY <1>3, <1>4, <1>5, <1>6, <1>7, <1>8 DEF IInv

LEMMA FlushFailsKeeps ==
  ASSUME IInv, FlushFails
  PROVE  IInv'
BY RefusedWrite DEF FlushFails, IInv, TypeOK, BufferSound

\* The commit moves no further than what was observed, and what was observed is
\* in the table because the buffer is empty.
LEMMA CommitSafe ==
  ASSUME IInv, pc = "commit"
  PROVE  upto = done /\ SafeUpTo(upto, findings)
<1>1. upto = done /\ findings \cup buffer = findings
  BY DEF IInv, NothingInHand
<1> QED
  BY <1>1 DEF IInv, ObservedSafe

LEMMA CommitKeeps ==
  ASSUME IInv, Commit
  PROVE  IInv'
<1> USE DEF Commit, engineVars, tableVars
<1>1. upto = done /\ SafeUpTo(upto, findings) /\ buffer = {}
  BY CommitSafe DEF IInv, NothingInHand
<1>2. TypeOK'
  BY <1>1 DEF IInv, TypeOK
<1>3. TableSound' /\ BufferSound' /\ ClaimsBacked'
  BY DEF IInv, TableSound, BufferSound, ClaimsBacked
<1>4. SafeUpTo(committed', findings) /\ done' = committed'
  BY <1>1 DEF IInv, CommittedSafe
<1>5. ObservedSafe' /\ CommittedSafe'
  <2>1. findings' = findings /\ findings' \cup buffer' = findings
    BY <1>1
  <2> QED
    BY <1>4, <2>1 DEF ObservedSafe, CommittedSafe
<1>6. NothingInHand'
  BY <1>1 DEF NothingInHand
<1> QED
  BY <1>2, <1>3, <1>5, <1>6 DEF IInv

LEMMA CommitFailsKeeps ==
  ASSUME IInv, CommitFails
  PROVE  IInv'
<1>1. upto = done /\ SafeUpTo(upto, findings)
  BY CommitSafe DEF CommitFails
<1>2. committed' = committed \/ committed' = upto
  BY DEF CommitFails
<1>3. /\ committed' \in [Partition -> Nat]
      /\ \A p \in Partition : committed'[p] <= hw[p]
      /\ SafeUpTo(committed', findings')
  BY <1>1, <1>2 DEF CommitFails, IInv, TypeOK, CommittedSafe
<1>4. faults' \in [Faults -> Nat]
  BY Spent DEF CommitFails, Faults, IInv, TypeOK
<1>5. Forget(committed') /\ inspected' \in Nat
  BY DEF CommitFails, Leave, IInv, TypeOK
<1> QED
  BY <1>3, <1>4, <1>5, Restarted DEF CommitFails, IInv, TypeOK, TableSound

LEMMA SessionLostKeeps ==
  ASSUME IInv, SessionLost
  PROVE  IInv'
<1> USE DEF SessionLost, topicVars, engineVars, tableVars
<1>1. faults' \in [Faults -> Nat]
  BY Spent DEF Faults, IInv, TypeOK
<1>2. TypeOK'
  BY <1>1 DEF IInv, TypeOK
<1>3. TableSound' /\ BufferSound' /\ ClaimsBacked'
  BY DEF IInv, TableSound, BufferSound, ClaimsBacked
<1>4. ObservedSafe' /\ CommittedSafe' /\ NothingInHand'
  BY DEF IInv, ObservedSafe, CommittedSafe, NothingInHand
<1> QED
  BY <1>2, <1>3, <1>4 DEF IInv

\* Between two batches there is nothing to write: the process ends as it stands.
LEMMA LeaveBetweenBatches ==
  ASSUME IInv, pc = "poll", Accepted(buffer), Forget(committed), UNCHANGED topicVars,
         inspected' \in Nat \cup {None}, faults' \in [Faults -> Nat]
  PROVE  IInv'
<1>1. findings' = findings
  BY DEF IInv, NothingInHand, Accepted, Inserted
<1> QED
  BY <1>1, Restarted DEF topicVars, IInv, TypeOK, TableSound, CommittedSafe

LEMMA IdleKeeps ==
  ASSUME IInv, Idle
  PROVE  IInv'
<1>1. Forget(committed) /\ inspected' \in Nat \cup {None}
  BY DEF Idle, Leave, IInv, TypeOK
<1>2. faults' \in [Faults -> Nat]
  BY Spent DEF Idle, Faults, IInv, TypeOK
<1> QED
  BY <1>1, <1>2, LeaveBetweenBatches DEF Idle

LEMMA InterruptedKeeps ==
  ASSUME IInv, Interrupted
  PROVE  IInv'
<1>1. Forget(committed) /\ inspected' \in Nat \cup {None}
  BY DEF Interrupted, Leave, IInv, TypeOK
<1>2. faults' \in [Faults -> Nat]
  BY Spent DEF Interrupted, Faults, IInv, TypeOK
<1> QED
  BY <1>1, <1>2, LeaveBetweenBatches DEF Interrupted

LEMMA CrashKeeps ==
  ASSUME IInv, Crash
  PROVE  IInv'
<1>1. faults' \in [Faults -> Nat]
  BY Spent DEF Crash, Faults, IInv, TypeOK
<1> QED
  BY <1>1, Restarted
     DEF Crash, topicVars, tableVars, IInv, TypeOK, TableSound, CommittedSafe

LEMMA StepKeeps ==
  ASSUME IInv, [Next]_vars
  PROVE  IInv'
<1>1. CASE Next
  BY <1>1, PublishKeeps, SkipKeeps, ObserveKeeps, ObserveFailsKeeps, StartKeeps,
     PollKeeps, FlushBatchKeeps, FlushFailsKeeps, CommitKeeps, CommitFailsKeeps,
     SessionLostKeeps, IdleKeeps, InterruptedKeeps, CrashKeeps
     DEF Next
<1>2. CASE UNCHANGED vars
  BY <1>2 DEF vars, topicVars, cursorVars, engineVars, tableVars, IInv, TypeOK,
              TableSound, BufferSound, ClaimsBacked, ObservedSafe, CommittedSafe,
              NothingInHand
<1> QED
  BY <1>1, <1>2

\* IInv holds in every reachable state of the stream phase.
THEOREM InductiveInvariant == Spec => []IInv
<1>1. Init => IInv
  BY InitEstablishes
<1>2. IInv /\ [Next]_vars => IInv'
  BY StepKeeps
<1> QED
  BY <1>1, <1>2, PTL DEF Spec

-----------------------------------------------------------------------------
(* What it says about the code. *)

\* Type correctness: every variable of the stream phase stays in its type, and
\* the four positions of a partition stay in order,
\* committed <= observed <= polled <= published.
THEOREM StreamTypeOK == Spec => []TypeOK
<1>1. IInv => TypeOK
  BY DEF IInv
<1> QED
  BY <1>1, InductiveInvariant, PTL

\* Offset discipline (stream.go Run: flush, then commit): a committed record with
\* an unknown cell always has its canonical rule 1 finding in the table.
THEOREM OffsetDiscipline == Spec => []CommittedInventoryHitsStored
<1>1. IInv => CommittedInventoryHitsStored
  <2> SUFFICES ASSUME IInv, NEW p \in Partition, NEW i \in 1..committed[p],
                      Kind[Produce[p][i]] = "own", Produce[p][i] \in Unknown
               PROVE  Inventory \in CanonicalOf(findings, Produce[p][i])
    BY DEF CommittedInventoryHitsStored
  <2>1. Settled(findings, Produce[p][i])
    BY DEF IInv, CommittedSafe, SafeUpTo
  <2>2. PICK f \in findings : f.event = Produce[p][i] /\ f.rule = Inventory /\ f.by = None
    BY <2>1 DEF Settled, Expected
  <2> QED
    BY <2>2 DEF CanonicalOf
<1> QED
  BY <1>1, InductiveInvariant, PTL

\* ADR-28/2: no interleaving of observations, flushes, failures, redeliveries and
\* restarts gives an event two canonical findings.
THEOREM OneCanonical == Spec => []OneCanonicalPerEvent
<1>1. IInv => OneCanonicalPerEvent
  BY OwnersAnchored DEF IInv, TableSound, Sound, OneCanonicalPerEvent, AtMostOneCanonical
<1> QED
  BY <1>1, InductiveInvariant, PTL

\* ADR-28/4: the rule that suppressed a stored finding is stored as canonical.
THEOREM SuppressionHolds == Spec => []SuppressionExplained
<1>1. IInv => SuppressionExplained
  <2> SUFFICES ASSUME IInv, NEW f \in findings, f.by # None
               PROVE  \E g \in findings :
                        g.event = f.event /\ g.rule = f.by /\ g.by = None
    BY DEF SuppressionExplained, SuppressorStored
  <2>1. f.by = Expected(f.event) /\ Settled(findings, f.event)
    BY DEF IInv, TableSound, Sound
  <2> QED
    BY <2>1 DEF Settled
<1> QED
  BY <1>1, InductiveInvariant, PTL

-----------------------------------------------------------------------------
(* The stream phase implements the offset discipline of TopicConsumer. *)

\* The table only grows, in every step.
LEMMA FindingsGrow ==
  ASSUME IInv, [Next]_vars
  PROVE  findings \subseteq findings'
<1>1. \A rows : Accepted(rows) => findings \subseteq findings'
  BY DEF Accepted, Inserted
<1>2. \A rows, count : Refused(rows, count) => findings \subseteq findings'
  BY DEF Refused, Inserted
<1>3. CASE Next
  <2>1. CASE \E p \in Partition : Publish(p) \/ Skip(p)
    BY <2>1 DEF Publish, Skip, tableVars
  <2>2. CASE \E p \in Partition : Observe(p) \/ ObserveFails(p)
    BY <1>1, <1>2, <2>2 DEF Observe, ObserveFails
  <2>3. CASE Start \/ Poll \/ Commit \/ CommitFails \/ SessionLost \/ Crash
    BY <2>3 DEF Start, Poll, Commit, CommitFails, SessionLost, Crash, tableVars
  <2>4. CASE FlushBatch \/ FlushFails \/ Idle \/ Interrupted
    BY <1>1, <1>2, <2>4 DEF FlushBatch, FlushFails, Idle, Interrupted
  <2> QED
    BY <1>3, <2>1, <2>2, <2>3, <2>4 DEF Next
<1>4. CASE UNCHANGED vars
  BY <1>4 DEF vars, tableVars
<1> QED
  BY <1>3, <1>4

\* The offsets move in the two commit steps only, to positions that are already
\* observed, and these steps write nothing.
LEMMA OffsetsMove ==
  ASSUME IInv, [Next]_vars
  PROVE  \/ committed' = committed
         \/ /\ committed' = upto
            /\ findings' = findings
            /\ upto = done
            /\ SafeUpTo(upto, findings)
<1>1. CASE Commit \/ CommitFails
  BY <1>1, CommitSafe DEF Commit, CommitFails, tableVars
<1>2. CASE UNCHANGED vars
  BY <1>2 DEF vars, topicVars
<1>3. CASE \E p \in Partition : Publish(p) \/ Skip(p) \/ Observe(p) \/ ObserveFails(p)
  BY <1>3 DEF Publish, Skip, Observe, ObserveFails, topicVars
<1>4. CASE \/ Start \/ Poll \/ FlushBatch \/ FlushFails
           \/ SessionLost \/ Idle \/ Interrupted \/ Crash
  BY <1>4 DEF Start, Poll, FlushBatch, FlushFails, SessionLost, Idle, Interrupted,
              Crash, topicVars
<1> QED
  BY <1>1, <1>2, <1>3, <1>4 DEF Next

\* What is settled stays settled when the table grows.
LEMMA SettledGrows ==
  ASSUME findings \subseteq findings'
  PROVE  SettledPositions \subseteq SettledPositions'
<1> SUFFICES ASSUME NEW at \in SettledPositions
             PROVE  at \in SettledPositions'
  OBVIOUS
<1> DEFINE e == Produce[at[1]][at[2]]
<1>1. /\ at \in Partition \X Offset
      /\ at[2] \in 1..Len(Produce[at[1]])
      /\ Kind[e] = "own" /\ e \in Unknown => Inventory \in CanonicalOf(findings, e)
  BY DEF SettledPositions
<1>2. CanonicalOf(findings, e) \subseteq CanonicalOf(findings', e)
  BY DEF CanonicalOf
<1> QED
  BY <1>1, <1>2 DEF SettledPositions

\* Records that are safe in the table are settled.
LEMMA SafeIsSettled ==
  ASSUME NEW p \in Partition, NEW i \in 1..upto[p], IInv, SafeUpTo(upto, findings)
  PROVE  <<p, i>> \in SettledPositions
<1>1. i \in 1..Len(Produce[p]) /\ Len(Produce[p]) \in Nat
  BY TopicTypes DEF IInv, TypeOK
<1>2. <<p, i>> \in Partition \X Offset
  BY <1>1 DEF Offset
<1>3. ASSUME Kind[Produce[p][i]] = "own", Produce[p][i] \in Unknown
      PROVE  Inventory \in CanonicalOf(findings, Produce[p][i])
  <2>1. PICK f \in findings :
               f.event = Produce[p][i] /\ f.rule = Inventory /\ f.by = None
    BY <1>3 DEF SafeUpTo, Settled, Expected
  <2> QED
    BY <2>1 DEF CanonicalOf
<1> QED
  BY <1>1, <1>2, <1>3 DEF SettledPositions

\* One step of the consumer is a step of the abstract discipline or a stutter.
LEMMA DisciplineStep ==
  ASSUME IInv, [Next]_vars
  PROVE  [TC!Settle \/ TC!Advance]_<<committed, SettledPositions>>
<1>1. CASE committed' = committed
  BY <1>1, FindingsGrow, SettledGrows DEF TC!Settle
<1>2. CASE committed' = upto /\ findings' = findings /\ upto = done /\ SafeUpTo(upto, findings)
  <2>1. SettledPositions' = SettledPositions
    BY <1>2 DEF SettledPositions
  <2>2. \A p \in Partition : upto[p] \in Nat /\ committed[p] \in Nat
                             /\ committed[p] <= upto[p]
    BY <1>2 DEF IInv, TypeOK
  <2>3. \A p \in Partition : \A i \in (committed[p] + 1)..upto[p] :
          <<p, i>> \in SettledPositions
    <3> SUFFICES ASSUME NEW p \in Partition, NEW i \in (committed[p] + 1)..upto[p]
                 PROVE  <<p, i>> \in SettledPositions
      OBVIOUS
    <3>1. i \in 1..upto[p]
      BY <2>2
    <3>2. SafeUpTo(upto, findings)
      BY <1>2
    <3> QED
      BY <3>1, <3>2, SafeIsSettled
  <2> QED
    BY <1>2, <2>1, <2>2, <2>3 DEF TC!Advance
<1> QED
  BY <1>1, <1>2, OffsetsMove

\* The stream phase implements the abstract consumer, for every topic, buffer size
\* and fault history: offsets move forward only, over records whose rule 1 hits
\* own their events in the table.
THEOREM StreamImplementsConsumer == Spec => KeepsOffsetDiscipline
<1>1. Init => TC!ConsumerInit
  BY DEF Init, TC!ConsumerInit
<1>2. IInv /\ [Next]_vars => [TC!Settle \/ TC!Advance]_<<committed, SettledPositions>>
  BY DisciplineStep
<1> QED
  BY <1>1, <1>2, InductiveInvariant, PTL DEF Spec, KeepsOffsetDiscipline, TC!Consumer

-----------------------------------------------------------------------------
(* Rule 3. Until the group takes the partitions away from a live process,  *)
(* a process observes every partition in order from where it started, so   *)
(* a watermark is the time of a record that lies before the current one.   *)

\* A watermark is the time stamp of a record this process has behind it.
WatermarkFromTopic ==
  \A s \in Subscriber : watermark[s] # None =>
    \E p \in Partition : \E i \in 1..done[p] :
      LET d == Produce[p][i] IN
      RulesOn(d) /\ SubscriberOf[d] = s /\ TimeOf[d] = watermark[s]

\* The finding's record was overtaken by one that is in the topic before it.
RealShift(f) ==
  \E p \in Partition : \E i, j \in 1..hw[p] :
    /\ i < j /\ Produce[p][j] = f.event
    /\ Overtakes(Produce[p][i], f.event)

RealShifts(rows) == \A f \in rows : f.rule = TimeOrder => RealShift(f)

InOrder ==
  faults["session"] = 0 =>
    owned /\ WatermarkFromTopic /\ RealShifts(findings \cup buffer)

\* A fault that happened stays counted.
LEMMA FaultsStay ==
  ASSUME IInv, [Next]_vars, NEW f \in Faults
  PROVE  faults[f] \in Nat /\ faults'[f] \in Nat /\ faults[f] <= faults'[f]
<1>1. faults \in [Faults -> Nat]
  BY DEF IInv, TypeOK
<1>2. \A g \in Faults : Spend(g) => faults'[f] \in Nat /\ faults[f] <= faults'[f]
  BY <1>1 DEF Spend
<1>3. \A rows, count : Refused(rows, count) => faults' = faults \/ Spend("sink")
  BY DEF Refused
<1>4. faults' = faults \/ \E g \in Faults : Spend(g)
  <2>1. CASE \E p \in Partition : Publish(p) \/ Skip(p) \/ Observe(p) \/ ObserveFails(p)
    BY <1>3, <2>1 DEF Publish, Skip, Observe, ObserveFails, Faults
  <2>2. CASE \/ Start \/ Poll \/ FlushBatch \/ FlushFails \/ Commit \/ CommitFails
             \/ SessionLost \/ Idle \/ Interrupted \/ Crash
    BY <1>3, <2>2 DEF Start, Poll, FlushBatch, FlushFails, Commit, CommitFails, SessionLost,
       Idle, Interrupted, Crash, Faults
  <2>3. CASE UNCHANGED vars
    BY <2>3 DEF vars
  <2> QED
    BY <2>1, <2>2, <2>3 DEF Next
<1> QED
  BY <1>1, <1>2, <1>4

\* A shift stays real when records are added to the topic.
LEMMA RealStays ==
  ASSUME IInv, [Next]_vars, NEW f, RealShift(f)
  PROVE  RealShift(f)'
<1>1. \A p \in Partition : hw[p] \in Nat /\ hw'[p] \in Nat /\ hw[p] <= hw'[p]
  <2>1. hw \in [Partition -> Nat] /\ hw' \in [Partition -> Nat]
    BY StepKeeps DEF IInv, TypeOK
  <2>2. CASE \E p \in Partition : Publish(p)
    BY <2>1, <2>2 DEF Publish
  <2>3. CASE hw' = hw
    BY <2>1, <2>3
  <2>4. hw' = hw \/ \E p \in Partition : Publish(p)
    <3>1. CASE \E p \in Partition : Skip(p) \/ Observe(p) \/ ObserveFails(p)
      BY <3>1 DEF Skip, Observe, ObserveFails, topicVars
    <3>2. CASE \/ Start \/ Poll \/ FlushBatch \/ FlushFails \/ Commit \/ CommitFails
               \/ SessionLost \/ Idle \/ Interrupted \/ Crash
      BY <3>2 DEF Start, Poll, FlushBatch, FlushFails, Commit, CommitFails, SessionLost, Idle,
         Interrupted, Crash, topicVars
    <3> QED
      BY <3>1, <3>2 DEF Next, vars, topicVars
  <2> QED
    BY <2>2, <2>3, <2>4
<1>2. PICK p \in Partition : \E i, j \in 1..hw[p] :
         i < j /\ Produce[p][j] = f.event /\ Overtakes(Produce[p][i], f.event)
  BY DEF RealShift
<1>3. 1..hw[p] \subseteq 1..hw'[p]
  BY <1>1
<1> QED
  BY <1>2, <1>3 DEF RealShift

\* The current record is the next one of its partition, and published.
LEMMA NextPosition ==
  ASSUME TypeOK, NEW p \in Partition, InHand(p)
  PROVE  /\ done[p] \in Nat /\ done[p] + 1 \in 1..hw[p]
         /\ done[p] + 1 \in 1..Len(Produce[p])
         /\ Produce[p][done[p] + 1] = Current(p) /\ Current(p) \in Event
<1>1. /\ done[p] \in Nat /\ upto[p] \in Nat /\ hw[p] \in Nat
      /\ done[p] < upto[p] /\ upto[p] <= hw[p] /\ hw[p] <= Len(Produce[p])
  BY DEF TypeOK, InHand
<1> QED
  BY <1>1, TopicTypes DEF Current

\* The shift rule 3 reports of the current record is real.
LEMMA HitIsReal ==
  ASSUME IInv, InOrder, faults["session"] = 0,
         NEW p \in Partition, InHand(p), RulesOn(Current(p))
  PROVE  RealShifts(findings \cup Resolved(p))
<1> DEFINE e == Current(p)
           j == done[p] + 1
<1>1. /\ done[p] \in Nat /\ j \in 1..hw[p] /\ j \in 1..Len(Produce[p])
      /\ Produce[p][j] = e /\ e \in Event
  BY NextPosition DEF IInv
<1>2. ASSUME TimeOrder \in Hits(e)
      PROVE  \E i \in 1..done[p] : Overtakes(Produce[p][i], e)
  <2>1. RunsBack(e)
    BY <1>2 DEF Hits, TimeOrder, Inventory
  <2> DEFINE s == SubscriberOf[e]
  <2>2. s \in Subscriber /\ watermark[s] # None /\ watermark[s] - TimeOf[e] > Tolerance
    BY <1>1, <2>1, StreamAssumption DEF RunsBack
  <2>3. PICK q \in Partition : \E i \in 1..done[q] :
              /\ RulesOn(Produce[q][i]) /\ SubscriberOf[Produce[q][i]] = s
              /\ TimeOf[Produce[q][i]] = watermark[s]
    BY <2>2 DEF InOrder, WatermarkFromTopic
  <2>4. PICK i \in 1..done[q] :
              /\ RulesOn(Produce[q][i]) /\ SubscriberOf[Produce[q][i]] = s
              /\ TimeOf[Produce[q][i]] = watermark[s]
    BY <2>3
  <2>5. i \in 1..Len(Produce[q])
    BY TopicTypes DEF IInv, TypeOK
  <2>6. q = p
    BY <1>1, <2>4, <2>5, KeyAssumption
  <2> QED
    BY <2>2, <2>4, <2>6 DEF Overtakes
<1>3. ASSUME NEW f \in Resolved(p), f \notin buffer, f.rule = TimeOrder
      PROVE  RealShift(f)
  <2>1. f.event = e /\ f.rule \in Hits(e)
    BY <1>3 DEF Resolved, Rows
  <2>2. PICK i \in 1..done[p] : Overtakes(Produce[p][i], e)
    BY <1>2, <1>3, <2>1
  <2>3. i \in 1..hw[p] /\ i < j
    BY <1>1 DEF IInv, TypeOK
  <2> QED
    BY <1>1, <2>1, <2>2, <2>3 DEF RealShift
<1> QED
  BY <1>3 DEF InOrder, RealShifts, Resolved

\* A new process knows no watermark.
LEMMA InOrderAfresh ==
  ASSUME IInv, [Next]_vars, Forget(committed'),
         RealShifts(findings \cup buffer)'
  PROVE  InOrder'
BY DEF Forget, InOrder, WatermarkFromTopic, NoWatermark

LEMMA InOrderStep ==
  ASSUME IInv, InOrder, [Next]_vars
  PROVE  InOrder'
<1> SUFFICES ASSUME faults'["session"] = 0
             PROVE  InOrder'
  BY DEF InOrder
<1>0. /\ faults["session"] = 0 /\ owned
      /\ WatermarkFromTopic /\ RealShifts(findings \cup buffer)
  BY FaultsStay DEF Faults, InOrder
\* Steps that take no record in hand.
<1>1. ASSUME findings' \cup buffer' \subseteq findings \cup buffer
      PROVE  RealShifts(findings \cup buffer)'
  BY <1>0, <1>1, RealStays DEF RealShifts
<1>2. ASSUME UNCHANGED <<done, owned, watermark>>
      PROVE  owned' /\ WatermarkFromTopic'
  BY <1>0, <1>2 DEF WatermarkFromTopic
<1>3. CASE \/ \E p \in Partition : Publish(p)
           \/ Start \/ Poll \/ FlushBatch \/ UNCHANGED vars
  <2>1. UNCHANGED <<done, owned, watermark>>
    BY <1>3 DEF Publish, Start, Poll, FlushBatch, vars, cursorVars, engineVars
  <2>2. findings' \cup buffer' \subseteq findings \cup buffer
    BY <1>3 DEF Publish, Start, Poll, FlushBatch, vars, engineVars, tableVars, Accepted, Inserted
  <2> QED
    BY <1>1, <1>2, <2>1, <2>2 DEF InOrder
<1>4. CASE \E p \in Partition : Skip(p)
  <2>1. PICK p \in Partition : Skip(p)
    BY <1>4
  <2>2. \A q \in Partition : 1..done[q] \subseteq 1..done'[q]
    BY <2>1 DEF Skip, IInv, TypeOK
  <2>3. WatermarkFromTopic'
    BY <1>0, <2>1, <2>2 DEF Skip, WatermarkFromTopic, engineVars
  <2> QED
    BY <1>0, <1>1, <2>1, <2>3 DEF Skip, InOrder, engineVars, tableVars
<1>5. CASE \E p \in Partition : Observe(p)
  <2>1. PICK p \in Partition : Observe(p)
    BY <1>5
  <2> DEFINE e == Current(p)
  <2>2. InHand(p) /\ RulesOn(e)
    BY <2>1 DEF Observe
  <2>3. /\ done[p] \in Nat /\ done[p] + 1 \in 1..hw[p]
        /\ Produce[p][done[p] + 1] = e /\ e \in Event
    BY <2>2, NextPosition DEF IInv
  <2>4. /\ \A q \in Partition : 1..done[q] \subseteq 1..done'[q]
        /\ done[p] + 1 \in 1..done'[p]
    BY <2>1, <2>3 DEF Observe, IInv, TypeOK
  <2>5. WatermarkFromTopic'
    <3> SUFFICES ASSUME NEW s \in Subscriber, watermark'[s] # None
                 PROVE  \E q \in Partition : \E i \in 1..done'[q] :
                          /\ RulesOn(Produce[q][i]) /\ SubscriberOf[Produce[q][i]] = s
                          /\ TimeOf[Produce[q][i]] = watermark'[s]
      BY DEF WatermarkFromTopic
    <3>1. \/ watermark'[s] = watermark[s]
          \/ s = SubscriberOf[e] /\ watermark'[s] = TimeOf[e]
      BY <2>1, <2>3, StreamAssumption DEF Observe, NewWatermark, IInv, TypeOK
    <3>2. CASE watermark'[s] = watermark[s]
      BY <1>0, <2>4, <3>2 DEF WatermarkFromTopic
    <3>3. CASE s = SubscriberOf[e] /\ watermark'[s] = TimeOf[e]
      BY <2>2, <2>3, <2>4, <3>3
    <3> QED
      BY <3>1, <3>2, <3>3
  <2>6. RealShifts(findings \cup Resolved(p))
    BY <1>0, <2>2, HitIsReal
  <2>7. findings' \cup buffer' \subseteq findings \cup Resolved(p)
    BY <2>1 DEF Observe, Accepted, Inserted
  <2>8. RealShifts(findings \cup buffer)'
    BY <2>6, <2>7, RealStays DEF RealShifts
  <2> QED
    BY <1>0, <2>1, <2>5, <2>8 DEF Observe, InOrder
<1>6. CASE \E p \in Partition : ObserveFails(p)
  <2>1. PICK p \in Partition : ObserveFails(p)
    BY <1>6
  <2>2. RealShifts(findings \cup Resolved(p))
    BY <1>0, <2>1, HitIsReal DEF ObserveFails
  <2>3. /\ Forget(committed') /\ findings' \cup buffer' \subseteq findings \cup Resolved(p)
    BY <2>1 DEF ObserveFails, Refused, Leave, LeaveBroken, Forget, Inserted, topicVars
  <2>4. RealShifts(findings \cup buffer)'
    BY <2>2, <2>3, RealStays DEF RealShifts
  <2> QED
    BY <2>3, <2>4, InOrderAfresh
<1>7. CASE FlushFails \/ CommitFails \/ Idle \/ Interrupted \/ Crash
  <2>1. Forget(committed')
    BY <1>7 DEF FlushFails, CommitFails, Idle, Interrupted, Crash, Refused, Leave, LeaveBroken,
       topicVars
  <2>2. findings' \subseteq findings \cup buffer
    BY <1>7 DEF FlushFails, CommitFails, Idle, Interrupted, Crash, Refused, Accepted, Inserted,
       tableVars
  <2>3. findings' \cup buffer' \subseteq findings \cup buffer
    BY <2>1, <2>2 DEF Forget
  <2> QED
    BY <1>1, <2>1, <2>3, InOrderAfresh
<1>8. CASE Commit
  <2>1. UNCHANGED <<done, watermark>> /\ owned'
    BY <1>0, <1>8 DEF Commit, engineVars
  <2>2. findings' \cup buffer' \subseteq findings \cup buffer
    BY <1>8 DEF Commit, engineVars, tableVars
  <2> QED
    BY <1>0, <1>1, <2>1, <2>2 DEF InOrder, WatermarkFromTopic
<1>9. CASE SessionLost
  BY <1>0, <1>9 DEF SessionLost, Spend, Faults, IInv, TypeOK
<1> QED
  BY <1>3, <1>4, <1>5, <1>6, <1>7, <1>8, <1>9 DEF Next

LEMMA InOrderAtFirst == Init => InOrder
BY DEF Init, InOrder, WatermarkFromTopic, RealShifts, NoWatermark

LEMMA InOrderInvariant == Spec => []InOrder
<1>1. Init => InOrder
  BY InOrderAtFirst
<1>2. IInv /\ InOrder /\ [Next]_vars => InOrder'
  BY InOrderStep
<1> QED
  BY <1>1, <1>2, InductiveInvariant, PTL DEF Spec

\* Precision of rule 3 (timeorder.go): as long as the group took no partition from
\* a live process, a stored shift is real. Crashes, failed writes and failed commits
\* do not change this: they end the process, and its watermarks with it.
THEOREM ShiftsAreReal == Spec => [](faults["session"] = 0 => NoFalseShift)
<1>1. InOrder => (faults["session"] = 0 => NoFalseShift)
  BY DEF InOrder, RealShifts, RealShift, NoFalseShift
<1> QED
  BY <1>1, InOrderInvariant, PTL

-----------------------------------------------------------------------------
(* Recall of rule 3, for the first process. Its watermarks cover all it has *)
(* observed, also after the group made it read a batch again.              *)

FirstProcess ==
  ~IdleExit /\ (\A f \in Faults \ {"session"} : faults[f] = 0) /\ inspected = None

\* No record observed is later than its subscriber's watermark.
WatermarksCover ==
  \A p \in Partition : \A i \in 1..done[p] :
    LET d == Produce[p][i] IN
    RulesOn(d) => watermark[SubscriberOf[d]] # None /\ TimeOf[d] <= watermark[SubscriberOf[d]]

\* Record number j of p is this run's, and one before it overtakes it.
Overtaken(p, j) ==
  Kind[Produce[p][j]] = "own" /\ \E i \in 1..(j - 1) : Overtakes(Produce[p][i], Produce[p][j])

HasShift(rows, e) == \E f \in rows : f.event = e /\ f.rule = TimeOrder

\* Every overtaken record among the first offsets[p] has its finding in rows.
ShiftsIn(offsets, rows) ==
  \A p \in Partition : \A j \in 1..offsets[p] : Overtaken(p, j) => HasShift(rows, Produce[p][j])

NoneMissed ==
  FirstProcess =>
    /\ WatermarksCover
    /\ ShiftsIn(done, findings \cup buffer)
    /\ ShiftsIn(committed, findings)

LEMMA HasShiftMonotone ==
  ASSUME NEW A, NEW C, A \subseteq C, NEW e, HasShift(A, e)
  PROVE  HasShift(C, e)
BY DEF HasShift

\* The insert keeps or finds a finding of the event and the rule.
LEMMA InsertKeepsShift ==
  ASSUME NEW table, NEW rows, NEW e, HasShift(table \cup rows, e)
  PROVE  HasShift(Inserted(table, rows), e)
<1>1. PICK f \in table \cup rows : f.event = e /\ f.rule = TimeOrder
  BY DEF HasShift
<1>2. f \in Inserted(table, rows) \/ \E g \in table : SameKey(f, g)
  BY <1>1 DEF Inserted
<1> QED
  BY <1>1, <1>2 DEF Inserted, SameKey, HasShift

\* The process that goes on is the first one only if the last one was.
LEMMA StillFirst ==
  ASSUME IInv, [Next]_vars, FirstProcess'
  PROVE  FirstProcess
<1>1. \A f \in Faults : faults[f] \in Nat /\ faults'[f] \in Nat /\ faults[f] <= faults'[f]
  BY FaultsStay
<1>2. \A f \in Faults \ {"session"} : faults[f] = 0
  BY <1>1 DEF FirstProcess
<1>3. inspected' = inspected \/ inspected' \in Nat
  <2>1. seen \in Nat /\ seen + 1 \in Nat
    BY DEF IInv, TypeOK
  <2>2. \A rows : \A count \in Nat :
          Refused(rows, count) => inspected' = inspected \/ inspected' \in Nat
    BY DEF Refused, Leave, LeaveBroken
  <2>3. CASE \E p \in Partition : Publish(p) \/ Skip(p) \/ Observe(p) \/ ObserveFails(p)
    BY <2>1, <2>2, <2>3 DEF Publish, Skip, Observe, ObserveFails, tableVars
  <2>4. CASE \/ Start \/ Poll \/ FlushBatch \/ FlushFails \/ Commit \/ CommitFails
             \/ SessionLost \/ Idle \/ Interrupted \/ Crash
    BY <2>1, <2>2, <2>4 DEF Start, Poll, FlushBatch, FlushFails, Commit, CommitFails,
       SessionLost, Idle, Interrupted, Crash, Leave, tableVars
  <2>5. CASE UNCHANGED vars
    BY <2>5 DEF vars, tableVars
  <2> QED
    BY <2>3, <2>4, <2>5 DEF Next
<1> QED
  BY <1>2, <1>3, NoneAssumption DEF FirstProcess

\* It ends only by a fault, by the idle time, or in writing its counter.
LEMMA FirstProcessLives ==
  ASSUME IInv, FirstProcess,
         (\E p \in Partition : ObserveFails(p)) \/ FlushFails \/ CommitFails \/ Idle
         \/ Interrupted \/ Crash
  PROVE  ~FirstProcess'
<1>1. faults \in [Faults -> Nat] /\ seen \in Nat /\ seen + 1 \in Nat
  BY DEF IInv, TypeOK
<1>2. \A f \in Faults \ {"session"} : Spend(f) => ~FirstProcess'
  BY <1>1 DEF Spend, FirstProcess
<1>3. \A count \in Nat : \A offsets : Leave(count, offsets) => ~FirstProcess'
  BY NoneAssumption DEF Leave, FirstProcess
<1>4. \A rows : \A count \in Nat : Refused(rows, count) => ~FirstProcess'
  BY <1>2, <1>3 DEF Refused, Faults
<1>5. CASE (\E p \in Partition : ObserveFails(p)) \/ FlushFails
  BY <1>1, <1>4, <1>5 DEF ObserveFails, FlushFails
<1>6. CASE CommitFails \/ Interrupted
  BY <1>1, <1>3, <1>6 DEF CommitFails, Interrupted
<1>7. CASE Idle \/ Crash
  BY <1>2, <1>7 DEF Idle, Crash, FirstProcess, Faults
<1> QED
  BY <1>5, <1>6, <1>7

\* Rule 3 hits an overtaken record, whatever the watermark was moved to since.
LEMMA OvertakenIsHit ==
  ASSUME IInv, WatermarksCover, NEW p \in Partition, InHand(p), Overtaken(p, done[p] + 1)
  PROVE  HasShift(Resolved(p), Current(p))
<1> DEFINE e == Current(p)
<1>1. /\ done[p] \in Nat /\ done[p] + 1 \in 1..Len(Produce[p])
      /\ Produce[p][done[p] + 1] = e /\ e \in Event
  BY NextPosition DEF IInv
<1>2. Kind[e] = "own" /\ \E i \in 1..done[p] : Overtakes(Produce[p][i], e)
  BY <1>1 DEF Overtaken
<1>3. PICK i \in 1..done[p] : Overtakes(Produce[p][i], e)
  BY <1>2
<1> DEFINE d == Produce[p][i]
           s == SubscriberOf[e]
<1>4. d \in Event
  BY Positions DEF IInv
<1>5. /\ RulesOn(d) /\ SubscriberOf[d] = s /\ TimeOf[d] - TimeOf[e] > Tolerance
      /\ watermark[s] # None /\ TimeOf[d] <= watermark[s]
  BY <1>3 DEF Overtakes, WatermarksCover
<1>6. /\ TimeOf[d] \in Nat /\ TimeOf[e] \in Nat /\ Tolerance \in Nat /\ watermark[s] \in Nat
  BY <1>1, <1>4, <1>5, StreamAssumption DEF IInv, TypeOK
<1>7. RunsBack(e)
  BY <1>5, <1>6 DEF RunsBack
<1>8. TimeOrder \in Hits(e)
  BY <1>2, <1>7 DEF Hits, TimeOrder, Inventory
<1> DEFINE row == [event |-> e, rule |-> TimeOrder,
                   by |-> IF TimeOrder = Winner(claims, e, Hits(e)) /\ claims[e] = None
                          THEN None ELSE Winner(claims, e, Hits(e)),
                   phase |-> "stream"]
<1>9. row \in Rows(claims, e, Hits(e), "stream")
  BY <1>8 DEF Rows
<1> QED
  BY <1>9 DEF HasShift, Resolved

LEMMA NoneMissedStep ==
  ASSUME IInv, NoneMissed, [Next]_vars
  PROVE  NoneMissed'
<1> SUFFICES ASSUME FirstProcess'
             PROVE  /\ WatermarksCover'
                    /\ ShiftsIn(done, findings \cup buffer)'
                    /\ ShiftsIn(committed, findings)'
  BY DEF NoneMissed
<1>0. /\ FirstProcess /\ WatermarksCover
      /\ ShiftsIn(done, findings \cup buffer) /\ ShiftsIn(committed, findings)
  BY StillFirst DEF NoneMissed
<1>1. CASE \/ \E p \in Partition : Publish(p)
           \/ Start \/ Poll \/ SessionLost \/ UNCHANGED vars
  <2>1. UNCHANGED <<done, committed, watermark, findings, buffer>>
    BY <1>1 DEF Publish, Start, Poll, SessionLost, vars, topicVars, cursorVars, engineVars,
       tableVars
  <2> QED
    BY <1>0, <2>1 DEF WatermarksCover, ShiftsIn
<1>2. CASE \E p \in Partition : Skip(p)
  <2>1. PICK p \in Partition : Skip(p)
    BY <1>2
  <2>2. \A q \in Partition : \A i \in 1..done'[q] :
          i \in 1..done[q] \/ (q = p /\ i = done[p] + 1 /\ Produce[q][i] = Current(p))
    BY <2>1 DEF Skip, IInv, TypeOK, Current
  <2>3. UNCHANGED <<committed, watermark, findings, buffer>> /\ ~RulesOn(Current(p))
    BY <2>1 DEF Skip, topicVars, engineVars, tableVars
  <2>4. WatermarksCover'
    BY <1>0, <2>2, <2>3 DEF WatermarksCover
  <2>5. ShiftsIn(done, findings \cup buffer)'
    BY <1>0, <2>2, <2>3 DEF ShiftsIn, Overtaken, RulesOn
  <2> QED
    BY <1>0, <2>3, <2>4, <2>5 DEF ShiftsIn
<1>3. CASE \E p \in Partition : Observe(p)
  <2>1. PICK p \in Partition : Observe(p)
    BY <1>3
  <2> DEFINE e == Current(p)
             R == Resolved(p)
  <2>2. InHand(p) /\ RulesOn(e) /\ watermark' = NewWatermark(e) /\ committed' = committed
    BY <2>1 DEF Observe, topicVars
  <2>3. /\ done[p] \in Nat /\ Produce[p][done[p] + 1] = e /\ e \in Event
    BY <2>2, NextPosition DEF IInv
  <2>4. \A q \in Partition : \A i \in 1..done'[q] :
          i \in 1..done[q] \/ (q = p /\ i = done[p] + 1)
    BY <2>1 DEF Observe, IInv, TypeOK
  <2>5. \A q \in Partition : \A i \in 1..done[q] : Produce[q][i] \in Event
    BY Positions DEF IInv
  <2>6. \A x : HasShift(findings \cup R, x) => HasShift(findings' \cup buffer', x)
    <3>1. CASE buffer' = R /\ findings' = findings
      BY <3>1
    <3>2. CASE findings' = Inserted(findings, R)
      BY <3>2, InsertKeepsShift, HasShiftMonotone
    <3> QED
      BY <2>1, <3>1, <3>2 DEF Observe, Accepted
  <2>7. \A s \in Subscriber :
          /\ watermark[s] # None => watermark'[s] # None /\ watermark[s] <= watermark'[s]
          /\ s = SubscriberOf[e] => watermark'[s] # None /\ TimeOf[e] <= watermark'[s]
    <3>1. /\ SubscriberOf[e] \in Subscriber /\ TimeOf[e] \in Nat /\ TimeOf[e] # None
          /\ watermark \in [Subscriber -> Nat \cup {None}]
      BY <2>3, StreamAssumption, NoneAssumption DEF IInv, TypeOK
    <3> QED
      BY <2>2, <3>1 DEF NewWatermark
  <2>8. WatermarksCover'
    <3> SUFFICES ASSUME NEW q \in Partition, NEW i \in 1..done'[q], RulesOn(Produce[q][i])
                 PROVE  /\ watermark'[SubscriberOf[Produce[q][i]]] # None
                        /\ TimeOf[Produce[q][i]] <= watermark'[SubscriberOf[Produce[q][i]]]
      BY DEF WatermarksCover
    <3> DEFINE d == Produce[q][i]
               s == SubscriberOf[d]
    <3>1. d \in Event /\ s \in Subscriber /\ TimeOf[d] \in Nat
      BY <2>3, <2>4, <2>5, StreamAssumption
    <3>2. CASE i \in 1..done[q]
      <4>1. watermark[s] # None /\ TimeOf[d] <= watermark[s]
        BY <1>0, <3>2 DEF WatermarksCover
      <4>2. watermark'[s] # None /\ watermark[s] <= watermark'[s]
        BY <2>7, <3>1, <4>1
      <4>3. watermark[s] \in Nat /\ watermark'[s] \in Nat
        BY <3>1, <4>1, <4>2, StepKeeps DEF IInv, TypeOK
      <4> QED
        BY <3>1, <4>1, <4>2, <4>3
    <3>3. CASE q = p /\ i = done[p] + 1
      BY <2>3, <2>7, <3>1, <3>3
    <3> QED
      BY <2>4, <3>2, <3>3
  <2>9. ShiftsIn(done, findings \cup buffer)'
    <3> SUFFICES ASSUME NEW q \in Partition, NEW j \in 1..done'[q], Overtaken(q, j)
                 PROVE  HasShift(findings' \cup buffer', Produce[q][j])
      BY DEF ShiftsIn
    <3>1. CASE j \in 1..done[q]
      <4>1. HasShift(findings \cup buffer, Produce[q][j])
        BY <1>0, <3>1 DEF ShiftsIn
      <4>2. findings \cup buffer \subseteq findings \cup R
        BY DEF Resolved
      <4> QED
        BY <2>6, <4>1, <4>2, HasShiftMonotone
    <3>2. CASE q = p /\ j = done[p] + 1
      <4>1. HasShift(R, e)
        BY <1>0, <2>2, <3>2, OvertakenIsHit
      <4> QED
        BY <2>3, <2>6, <3>2, <4>1, HasShiftMonotone
    <3> QED
      BY <2>4, <3>1, <3>2
  <2>10. ShiftsIn(committed, findings)'
    BY <1>0, <2>2, FindingsGrow, HasShiftMonotone DEF ShiftsIn
  <2> QED
    BY <2>8, <2>9, <2>10
<1>4. CASE FlushBatch
  <2>1. /\ UNCHANGED <<done, committed, watermark>> /\ findings' = Inserted(findings, buffer)
    BY <1>4 DEF FlushBatch, Accepted, topicVars, cursorVars
  <2>2. \A x : HasShift(findings \cup buffer, x) => HasShift(findings' \cup buffer', x)
    BY <2>1, InsertKeepsShift, HasShiftMonotone
  <2>3. ShiftsIn(committed, findings)'
    BY <1>0, <2>1, FindingsGrow, HasShiftMonotone DEF ShiftsIn
  <2> QED
    BY <1>0, <2>1, <2>2, <2>3 DEF ShiftsIn, WatermarksCover
<1>5. CASE Commit
  <2>1. /\ UNCHANGED <<findings, buffer, watermark>>
        /\ upto = done /\ done' = committed' /\ (committed' = upto \/ committed' = committed)
    BY <1>5, CommitSafe DEF Commit, engineVars, tableVars, IInv, NothingInHand
  <2>2. buffer = {} /\ \A p \in Partition : 1..committed[p] \subseteq 1..done[p]
    BY <1>5 DEF Commit, IInv, NothingInHand, TypeOK
  <2>3. \A p \in Partition : 1..done'[p] \subseteq 1..done[p]
    BY <2>1, <2>2
  <2>4. WatermarksCover'
    BY <1>0, <2>1, <2>3 DEF WatermarksCover
  <2>5. findings \cup buffer = findings
    BY <2>2
  <2>6. ShiftsIn(committed', findings)
    BY <1>0, <2>1, <2>5
  <2> QED
    BY <2>1, <2>4, <2>5, <2>6
<1>6. CASE \/ \E p \in Partition : ObserveFails(p)
           \/ FlushFails \/ CommitFails \/ Idle \/ Interrupted \/ Crash
  BY <1>0, <1>6, FirstProcessLives
<1> QED
  BY <1>1, <1>2, <1>3, <1>4, <1>5, <1>6 DEF Next

LEMMA NoneMissedInvariant == Spec => []NoneMissed
<1>1. Init => NoneMissed
  BY DEF Init, NoneMissed, WatermarksCover, ShiftsIn
<1>2. IInv /\ NoneMissed /\ [Next]_vars => NoneMissed'
  BY NoneMissedStep
<1> QED
  BY <1>1, <1>2, InductiveInvariant, PTL DEF Spec

\* Recall of rule 3 (stream.go, offsets after findings): while the process that read
\* the first record runs, every committed record that an earlier one overtakes has
\* its finding stored, however often the group made it read a batch again.
THEOREM ShiftsAreStored == Spec => []ShiftsStoredByOneProcess
<1>1. NoneMissed => ShiftsStoredByOneProcess
  BY DEF NoneMissed, FirstProcess, ShiftsIn, Overtaken, HasShift, ShiftsStoredByOneProcess,
     EveryShiftStored
<1> QED
  BY <1>1, NoneMissedInvariant, PTL

-----------------------------------------------------------------------------
(* The counter. A process observes no position twice as long as its session *)
(* lives, so it counts no more records than it has behind it; and when it   *)
(* counted as many as the run has, it has all of them behind it.            *)

PublishedPositions ==
  {at \in Partition \X Offset :
     /\ at[2] \in 1..Len(Produce[at[1]])
     /\ RulesOn(Produce[at[1]][at[2]])}

\* Positions of this run's records this process need not read again.
ObservedPositions == {at \in PublishedPositions : at[2] \in 1..done[at[1]]}

\* An owned event was observed, and no row is its own suppressor.
FirstSight ==
  /\ \A e \in Event : claims[e] # None =>
       \E at \in ObservedPositions : Produce[at[1]][at[2]] = e
  /\ ~Rejected(buffer)

CountIsTrue ==
  faults["session"] = 0 =>
    /\ seen <= Cardinality(ObservedPositions)
    /\ FirstSight
    /\ GateWithoutFailedWrites

LEMMA PublishedFinite ==
  IsFiniteSet(PublishedPositions) /\ Cardinality(PublishedPositions) \in Nat
<1> DEFINE ends == {0..Len(Produce[p]) : p \in Partition}
           f == [p \in Partition |-> 0..Len(Produce[p])]
<1>1. IsFiniteSet(ends)
  <2>1. f \in Surjection(Partition, ends)
    BY DEF Surjection
  <2>2. IsFiniteSet(Partition)
    BY StreamAssumption
  <2> HIDE DEF f, ends
  <2> QED
    BY <2>1, <2>2, FS_Surjection
<1>2. \A T \in ends : IsFiniteSet(T)
  BY TopicTypes, FS_Interval
<1>3. IsFiniteSet(Offset)
  BY <1>1, <1>2, FS_UNION DEF Offset
<1>4. IsFiniteSet(Partition \X Offset)
  BY <1>3, FS_Product, StreamAssumption
<1>5. PublishedPositions \in SUBSET (Partition \X Offset)
  BY DEF PublishedPositions
<1>6. IsFiniteSet(PublishedPositions)
  BY <1>4, <1>5, FS_Subset
<1> QED
  BY <1>6, FS_CardinalityType

LEMMA ObservedFinite ==
  /\ IsFiniteSet(ObservedPositions) /\ Cardinality(ObservedPositions) \in Nat
  /\ Cardinality(ObservedPositions) <= Cardinality(PublishedPositions)
  /\ Cardinality(ObservedPositions) = Cardinality(PublishedPositions) =>
       ObservedPositions = PublishedPositions
<1>1. ObservedPositions \in SUBSET PublishedPositions
  BY DEF ObservedPositions
<1> QED
  BY <1>1, PublishedFinite, FS_Subset, FS_CardinalityType

\* A count that reaches the run's stands for the whole run.
LEMMA FullCount ==
  ASSUME IInv, buffer = {}, seen <= Cardinality(ObservedPositions), seen = Published
  PROVE  \A p \in Partition : \A i \in 1..Len(Produce[p]) :
           Kind[Produce[p][i]] = "own" /\ Produce[p][i] \in Unknown =>
             Inventory \in CanonicalOf(findings, Produce[p][i])
<1> SUFFICES ASSUME NEW p \in Partition, NEW i \in 1..Len(Produce[p]),
                    Kind[Produce[p][i]] = "own", Produce[p][i] \in Unknown
             PROVE  Inventory \in CanonicalOf(findings, Produce[p][i])
  OBVIOUS
<1>1. seen \in Nat
  BY DEF IInv, TypeOK
<1>2. Published = Cardinality(PublishedPositions)
  BY DEF Published, PublishedPositions
<1>3. ObservedPositions = PublishedPositions
  BY <1>1, <1>2, ObservedFinite
<1>4. <<p, i>> \in PublishedPositions
  BY TopicTypes DEF PublishedPositions, Offset, RulesOn
<1>5. i \in 1..done[p]
  BY <1>3, <1>4 DEF ObservedPositions
<1>6. findings \cup buffer = findings
  OBVIOUS
<1>7. Settled(findings, Produce[p][i])
  BY <1>5, <1>6 DEF IInv, ObservedSafe, SafeUpTo
<1>8. PICK f \in findings : f.event = Produce[p][i] /\ f.rule = Inventory /\ f.by = None
  BY <1>7 DEF Settled, Expected
<1> QED
  BY <1>8 DEF CanonicalOf

\* The first time an event is seen none of its rows is refused.
LEMMA FirstRows ==
  ASSUME NEW e \in Event, claims[e] = None
  PROVE  ~Rejected(Rows(claims, e, Hits(e), "stream"))
<1> SUFFICES ASSUME NEW f \in Rows(claims, e, Hits(e), "stream"), f.by = f.rule
             PROVE  FALSE
  BY DEF Rejected
<1>1. PICK h \in Hits(e) :
        f = [event |-> e, rule |-> h,
             by |-> IF h = Winner(claims, e, Hits(e)) THEN None
                    ELSE Winner(claims, e, Hits(e)),
             phase |-> "stream"]
  BY DEF Rows
<1>2. h \in EventAnchored
  BY OwnersAnchored DEF Hits
<1> QED
  BY <1>1, <1>2, OwnersAnchored

\* A record in hand was not observed before.
LEMMA NotYetObserved ==
  ASSUME IInv, FirstSight, NEW p \in Partition, InHand(p), RulesOn(Current(p))
  PROVE  /\ <<p, done[p] + 1>> \in PublishedPositions \ ObservedPositions
         /\ ~Rejected(Resolved(p))
<1> DEFINE e == Current(p)
           new == <<p, done[p] + 1>>
<1>1. /\ done[p] \in Nat /\ done[p] + 1 \in 1..Len(Produce[p])
      /\ Produce[p][done[p] + 1] = e /\ e \in Event
  BY NextPosition DEF IInv
<1>2. new \in PublishedPositions /\ new \notin ObservedPositions
  <2>1. done[p] + 1 \in Offset
    BY <1>1, TopicTypes DEF Offset
  <2> QED
    BY <1>1, <2>1 DEF PublishedPositions, ObservedPositions
<1>3. claims[e] = None
  <2> SUFFICES ASSUME claims[e] # None
               PROVE  FALSE
    OBVIOUS
  <2>1. PICK at \in ObservedPositions : Produce[at[1]][at[2]] = e
    BY <1>1 DEF FirstSight
  <2>2. /\ at[1] \in Partition /\ at[2] \in 1..Len(Produce[at[1]])
        /\ RulesOn(Produce[at[1]][at[2]]) /\ at[2] \in 1..done[at[1]]
    BY <2>1 DEF ObservedPositions, PublishedPositions
  <2>3. at[1] = p /\ at[2] = done[p] + 1
    BY <1>1, <2>1, <2>2, OnceAssumption
  <2> QED
    BY <1>1, <2>2, <2>3
<1>4. ~Rejected(Rows(claims, e, Hits(e), "stream"))
  BY <1>1, <1>3, FirstRows
<1> QED
  BY <1>2, <1>4 DEF FirstSight, Rejected, Resolved

\* A new process has counted and claimed nothing.
LEMMA CountAfresh ==
  ASSUME Forget(committed'), GateWithoutFailedWrites'
  PROVE  CountIsTrue'
<1>1. seen' <= Cardinality(ObservedPositions')
  <2>1. ObservedPositions' \in SUBSET PublishedPositions
    BY DEF ObservedPositions, PublishedPositions
  <2>2. Cardinality(ObservedPositions') \in Nat
    BY <2>1, PublishedFinite, FS_Subset, FS_CardinalityType
  <2> QED
    BY <2>2 DEF Forget
<1>2. FirstSight'
  BY DEF Forget, FirstSight, NoClaims, Rejected
<1> QED
  BY <1>1, <1>2 DEF CountIsTrue

\* What the table and the counter say stays said while neither of them changes but
\* for rows that are added.
LEMMA GateStays ==
  ASSUME IInv, [Next]_vars, GateWithoutFailedWrites, inspected' = inspected
  PROVE  GateWithoutFailedWrites'
<1> SUFFICES ASSUME faults'["sink"] = 0, inspected' = Published'
             PROVE  GateMeansFindingsStored'
  BY DEF GateWithoutFailedWrites, GateMeansFindingsStored
<1>1. faults["sink"] = 0
  BY FaultsStay DEF Faults
<1>2. GateMeansFindingsStored /\ inspected = Published
  BY <1>1 DEF GateWithoutFailedWrites, Published
<1>3. \A e : CanonicalOf(findings, e) \subseteq CanonicalOf(findings', e)
  BY FindingsGrow DEF CanonicalOf
<1> QED
  BY <1>2, <1>3 DEF GateMeansFindingsStored

\* A process that leaves between two batches leaves a count that is true.
LEMMA GateAtLeave ==
  ASSUME IInv, [Next]_vars, buffer = {}, seen <= Cardinality(ObservedPositions),
         GateWithoutFailedWrites, inspected' = inspected \/ inspected' = seen
  PROVE  GateWithoutFailedWrites'
<1>1. CASE inspected' = inspected
  BY <1>1, GateStays
<1>2. CASE inspected' = seen /\ seen = Published
  <2>1. \A e : CanonicalOf(findings, e) \subseteq CanonicalOf(findings', e)
    BY FindingsGrow DEF CanonicalOf
  <2> QED
    BY <1>2, <2>1, FullCount DEF GateWithoutFailedWrites, GateMeansFindingsStored
<1>3. CASE inspected' = seen /\ seen # Published
  BY <1>3 DEF GateWithoutFailedWrites, GateMeansFindingsStored, Published
<1> QED
  BY <1>1, <1>2, <1>3

\* A write that was not refused for its rows failed.
LEMMA GateAtRefusal ==
  ASSUME IInv, [Next]_vars, NEW rows, NEW count, ~Rejected(rows), Refused(rows, count)
  PROVE  GateWithoutFailedWrites'
<1>1. Spend("sink") /\ faults["sink"] \in Nat
  BY FaultsStay DEF Refused, Faults
<1>2. faults'["sink"] # 0
  BY <1>1 DEF Spend, IInv, TypeOK, Faults
<1> QED
  BY <1>2 DEF GateWithoutFailedWrites

LEMMA CountStep ==
  ASSUME IInv, InOrder, CountIsTrue, [Next]_vars
  PROVE  CountIsTrue'
<1> SUFFICES ASSUME faults'["session"] = 0
             PROVE  CountIsTrue'
  BY DEF CountIsTrue
<1>0. /\ faults["session"] = 0 /\ owned
      /\ seen \in Nat /\ seen <= Cardinality(ObservedPositions)
      /\ FirstSight /\ GateWithoutFailedWrites
  BY FaultsStay DEF Faults, CountIsTrue, InOrder, IInv, TypeOK
<1>1. CASE \/ \E p \in Partition : Publish(p)
           \/ Start \/ Poll \/ UNCHANGED vars
  <2>1. UNCHANGED <<done, claims, buffer, seen, inspected>>
    BY <1>1 DEF Publish, Start, Poll, vars, cursorVars, engineVars, tableVars
  <2>2. ObservedPositions' = ObservedPositions /\ FirstSight'
    BY <1>0, <2>1 DEF FirstSight, ObservedPositions, PublishedPositions
  <2>3. GateWithoutFailedWrites'
    BY <1>0, <2>1, GateStays
  <2> QED
    BY <1>0, <2>1, <2>2, <2>3 DEF CountIsTrue
<1>2. CASE FlushBatch \/ Commit
  <2>1. /\ UNCHANGED <<done, claims, seen, inspected>> /\ ~Rejected(buffer')
    BY <1>0, <1>2 DEF FlushBatch, Commit, FirstSight, Rejected, topicVars, cursorVars, engineVars,
       tableVars
  <2>2. ObservedPositions' = ObservedPositions /\ FirstSight'
    BY <1>0, <2>1 DEF FirstSight, ObservedPositions, PublishedPositions
  <2>3. GateWithoutFailedWrites'
    BY <1>0, <2>1, GateStays
  <2> QED
    BY <1>0, <2>1, <2>2, <2>3 DEF CountIsTrue
<1>3. CASE \E p \in Partition : Skip(p)
  <2>1. PICK p \in Partition : Skip(p)
    BY <1>3
  <2>2. UNCHANGED <<claims, buffer, seen, inspected>> /\ ~RulesOn(Current(p))
    BY <2>1 DEF Skip, engineVars, tableVars
  <2>3. \A q \in Partition : \A i \in 1..Len(Produce[q]) :
          i \in 1..done'[q] <=> i \in 1..done[q] \/ (q = p /\ i = done[p] + 1)
    BY <2>1, TopicTypes DEF Skip, IInv, TypeOK
  <2>4. ObservedPositions' = ObservedPositions
    BY <2>2, <2>3 DEF ObservedPositions, PublishedPositions, Current
  <2>5. FirstSight' /\ GateWithoutFailedWrites'
    BY <1>0, <2>2, <2>4, GateStays DEF FirstSight
  <2> QED
    BY <1>0, <2>2, <2>4, <2>5 DEF CountIsTrue
<1>4. CASE \E p \in Partition : Observe(p)
  <2>1. PICK p \in Partition : Observe(p)
    BY <1>4
  <2> DEFINE e == Current(p)
             new == <<p, done[p] + 1>>
  <2>2. /\ new \in PublishedPositions \ ObservedPositions /\ ~Rejected(Resolved(p))
    BY <1>0, <2>1, NotYetObserved DEF Observe
  <2>3. /\ done[p] \in Nat /\ Produce[p][done[p] + 1] = e /\ e \in Event
    BY <2>1, NextPosition DEF Observe, IInv
  <2>4. \A q \in Partition : \A i \in 1..Len(Produce[q]) :
          i \in 1..done'[q] <=> i \in 1..done[q] \/ (q = p /\ i = done[p] + 1)
    <3>1. done' = [done EXCEPT ![p] = @ + 1] /\ done \in [Partition -> Nat]
      BY <2>1 DEF Observe, IInv, TypeOK
    <3> QED
      BY <3>1, TopicTypes
  <2>5. ObservedPositions' = ObservedPositions \cup {new}
    <3>1. \A at \in PublishedPositions :
            at[1] \in Partition /\ at[2] \in 1..Len(Produce[at[1]]) /\ at = <<at[1], at[2]>>
      BY DEF PublishedPositions
    <3>2. \A at \in PublishedPositions :
            at[2] \in 1..done'[at[1]] <=> at[2] \in 1..done[at[1]] \/ at = new
      BY <2>4, <3>1
    <3>3. ObservedPositions' = {at \in PublishedPositions : at[2] \in 1..done'[at[1]]}
      BY DEF ObservedPositions, PublishedPositions
    <3> QED
      BY <2>2, <3>2, <3>3 DEF ObservedPositions
  <2>6. seen' <= Cardinality(ObservedPositions')
    <3>1. Cardinality(ObservedPositions \cup {new}) = Cardinality(ObservedPositions) + 1
      BY <2>2, ObservedFinite, FS_AddElement
    <3>2. seen' = seen + 1
      BY <2>1 DEF Observe
    <3> QED
      BY <1>0, <2>5, <3>1, <3>2, ObservedFinite
  <2>7. FirstSight'
    <3>1. \A x \in Event : claims'[x] # None => claims[x] # None \/ x = e
      BY <2>1, <2>3 DEF Observe, ClaimFor, IInv, TypeOK, Claims
    <3>2. Produce[new[1]][new[2]] = e
      BY <2>3
    <3>3. \A x \in Event : claims'[x] # None =>
            \E at \in ObservedPositions' : Produce[at[1]][at[2]] = x
      BY <1>0, <2>5, <3>1, <3>2 DEF FirstSight
    <3>4. ~Rejected(buffer')
      BY <2>1, <2>2 DEF Observe, Rejected
    <3> QED
      BY <3>3, <3>4 DEF FirstSight
  <2>8. GateWithoutFailedWrites'
    BY <1>0, <2>1, GateStays DEF Observe
  <2> QED
    BY <2>6, <2>7, <2>8 DEF CountIsTrue
<1>5. CASE \E p \in Partition : ObserveFails(p)
  <2>1. PICK p \in Partition : ObserveFails(p)
    BY <1>5
  <2>2. ~Rejected(Resolved(p))
    BY <1>0, <2>1, NotYetObserved DEF ObserveFails
  <2>3. GateWithoutFailedWrites'
    BY <2>1, <2>2, GateAtRefusal DEF ObserveFails
  <2>4. Forget(committed')
    BY <2>1 DEF ObserveFails, Refused, Leave, LeaveBroken, topicVars
  <2> QED
    BY <2>3, <2>4, CountAfresh
<1>6. CASE FlushFails
  <2>1. GateWithoutFailedWrites'
    BY <1>0, <1>6, GateAtRefusal DEF FlushFails, FirstSight
  <2>2. Forget(committed')
    BY <1>6 DEF FlushFails, Refused, Leave, LeaveBroken, topicVars
  <2> QED
    BY <2>1, <2>2, CountAfresh
<1>7. CASE CommitFails \/ Idle \/ Interrupted
  <2>1. /\ buffer = {} /\ Forget(committed')
        /\ inspected' = inspected \/ inspected' = seen
    BY <1>7 DEF CommitFails, Idle, Interrupted, Leave, IInv, NothingInHand, topicVars
  <2>2. GateWithoutFailedWrites'
    BY <1>0, <2>1, GateAtLeave
  <2> QED
    BY <2>1, <2>2, CountAfresh
<1>8. CASE Crash
  <2>1. Forget(committed') /\ inspected' = inspected
    BY <1>8 DEF Crash, topicVars, tableVars
  <2>2. GateWithoutFailedWrites'
    BY <1>0, <2>1, GateStays
  <2> QED
    BY <2>1, <2>2, CountAfresh
<1>9. CASE SessionLost
  BY <1>0, <1>9 DEF SessionLost, Spend, Faults, IInv, TypeOK
<1> QED
  BY <1>1, <1>2, <1>3, <1>4, <1>5, <1>6, <1>7, <1>8, <1>9 DEF Next

LEMMA CountAtFirst == Init => CountIsTrue
<1> SUFFICES ASSUME Init
             PROVE  CountIsTrue
  OBVIOUS
<1>1. seen <= Cardinality(ObservedPositions) /\ FirstSight
  BY ObservedFinite DEF Init, FirstSight, NoClaims, Rejected
<1>2. inspected # Published
  BY PublishedFinite, NoneAssumption DEF Init, Published, PublishedPositions
<1> QED
  BY <1>1, <1>2 DEF CountIsTrue, GateWithoutFailedWrites, GateMeansFindingsStored

LEMMA CountInvariant == Spec => []CountIsTrue
<1>1. Init => CountIsTrue
  BY CountAtFirst
<1>2. IInv /\ InOrder /\ CountIsTrue /\ [Next]_vars => CountIsTrue'
  BY CountStep
<1> QED
  BY <1>1, <1>2, InductiveInvariant, InOrderInvariant, PTL DEF Spec

\* ADR-31/7, precondition (b) of the batch phase (batch.go): as long as no write failed
\* and no partition was taken from a live process, a count equal to the published one
\* means that every rule 1 hit of the run owns its event in the table. A crash, a
\* failed commit, a signal or an early idle exit leaves a smaller count, or a true one.
THEOREM GateIsSafe == Spec => [](faults["session"] = 0 => GateWithoutFailedWrites)
<1>1. CountIsTrue => (faults["session"] = 0 => GateWithoutFailedWrites)
  BY DEF CountIsTrue
<1> QED
  BY <1>1, CountInvariant, PTL
=============================================================================
