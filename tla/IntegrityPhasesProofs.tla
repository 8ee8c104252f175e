------------------------ MODULE IntegrityPhasesProofs ------------------------
(***************************************************************************)
(* Proofs about the two integrity phases run one after the other on one    *)
(* findings table, for every topic, every scan, every set of hits and any  *)
(* number of faults.                                                       *)
(*                                                                         *)
(* The argument. The stream phase sees its own rows only: restricted to    *)
(* them, every step of the composed system is a step of the stream phase   *)
(* or leaves it alone, so what is proved of the stream phase alone holds   *)
(* here, through an instance of its proofs (S). Without a lost session no  *)
(* process counts a record twice, so one that declared the count of the    *)
(* topic has drained it with its buffer flushed (StreamLeft), and one      *)
(* started later finds nothing to write; the batch phase is let in only    *)
(* then (LetIn). From there on the stream rows are final: the owner the    *)
(* batch phase reads back is the owner for good, and what it settles       *)
(* itself is settled against a table that holds every stream row           *)
(* (Verdicts). The claim ledger sees each step of the phases as a claim of *)
(* an event nobody owned, or as a stutter.                                 *)
(***************************************************************************)
EXTENDS IntegrityPhases, FiniteSetTheorems, TLAPS

\* The two rules of the stream phase, and their rows in a table.
StreamRule == {Inventory, TimeOrder}
StreamRows(table) == {f \in table : f.rule \in StreamRule}

\* The stream phase, which sees its own rows only.
S == INSTANCE IntegrityStreamProofs WITH findings <- StreamRows(findings)

StreamBuffer == \A f \in buffer : f.rule \in StreamRule

-----------------------------------------------------------------------------
(* The stream phase does not notice the batch phase.                       *)

\* A row of one phase never meets a row of the other on the unique key.
LEMMA InsertedStreamRows ==
  ASSUME NEW table, NEW rows, \A f \in rows : f.rule \in StreamRule
  PROVE  /\ StreamRows(Inserted(table, rows)) = S!Inserted(StreamRows(table), rows)
         /\ S!Rejected(rows) <=> Rejected(rows)
BY DEF StreamRows, Inserted, S!Inserted, SameKey, S!SameKey, Rejected, S!Rejected

\* A row of the batch phase does not touch those of the stream phase.
LEMMA InsertedOtherRows ==
  ASSUME NEW table, NEW rows, \A f \in rows : f.rule \notin StreamRule
  PROVE  StreamRows(Inserted(table, rows)) = StreamRows(table)
BY DEF StreamRows, Inserted

\* The instance counts as this module does.
LEMMA SameSize == \A A : S!Cardinality(A) = Cardinality(A)
BY DEF S!Cardinality, Cardinality

\* The instance's operators are this module's.
LEMMA StreamOperators ==
  /\ \A p : S!Current(p) = Current(p) /\ (S!InHand(p) <=> InHand(p)) /\ S!Resolved(p) = Resolved(p)
  /\ \A e : S!Hits(e) = Hits(e) /\ S!NewWatermark(e) = NewWatermark(e)
  /\ \A c, e, h : S!ClaimFor(c, e, h) = ClaimFor(c, e, h)
  /\ \A e : S!RulesOn(e) <=> RulesOn(e)
<1>1. /\ S!All = All /\ S!Inventory = Inventory /\ S!TimeOrder = TimeOrder
      /\ \A p : S!Current(p) = Current(p) /\ (S!InHand(p) <=> InHand(p))
      /\ \A e : S!RulesOn(e) <=> RulesOn(e)
  BY DEF S!All, S!Inventory, S!Activity, S!TimeOrder, S!Velocity, S!Trajectory, All, Inventory,
     Activity, TimeOrder, Velocity, Trajectory, S!Current, Current, S!InHand, InHand, S!RulesOn, RulesOn
<1>2. \A r, s : S!StrongerThan(r, s) <=> StrongerThan(r, s)
  BY <1>1 DEF S!StrongerThan, StrongerThan
<1>3. \A h : S!Strongest(h) = Strongest(h)
  BY <1>2 DEF S!Strongest, Strongest
<1>4. \A c, e, h : S!Winner(c, e, h) = Winner(c, e, h)
  BY <1>3 DEF S!Winner, Winner
<1>5. \A c, e, h : S!ClaimFor(c, e, h) = ClaimFor(c, e, h)
  BY <1>4 DEF S!ClaimFor, ClaimFor
<1>6. \A c, e, h, phase : S!Rows(c, e, h, phase) = Rows(c, e, h, phase)
  BY <1>4 DEF S!Rows, Rows
<1>7. \A e : S!Hits(e) = Hits(e) /\ S!NewWatermark(e) = NewWatermark(e)
  BY <1>1 DEF S!Hits, Hits, S!RunsBack, RunsBack, S!NewWatermark, NewWatermark
<1>8. \A p : S!Resolved(p) = Resolved(p)
  BY <1>1, <1>6, <1>7 DEF S!Resolved, Resolved
<1> QED
  BY <1>1, <1>5, <1>7, <1>8

\* What a process leaves behind when it ends.
LEMMA StreamEnds ==
  /\ S!NoClaims = NoClaims /\ S!NoWatermark = NoWatermark
  /\ \A f : S!Spend(f) <=> Spend(f)
  /\ \A offsets : S!Forget(offsets) <=> Forget(offsets)
  /\ \A count, offsets : S!Leave(count, offsets) <=> Leave(count, offsets)
  /\ \A count, offsets : S!LeaveBroken(count, offsets) <=> LeaveBroken(count, offsets)
BY DEF S!NoClaims, NoClaims, S!NoWatermark, NoWatermark, S!Spend, Spend, S!Forget, Forget, S!Leave, Leave,
   S!LeaveBroken, LeaveBroken

\* A write of stream rows is the same write to the stream's part of the table.
LEMMA StreamWrites ==
  ASSUME NEW rows, \A f \in rows : f.rule \in StreamRule
  PROVE  /\ Accepted(rows) => S!Accepted(rows)
         /\ \A count : Refused(rows, count) => S!Refused(rows, count)
BY InsertedStreamRows, StreamEnds DEF Accepted, S!Accepted, Refused, S!Refused

\* What the claim engine resolves in the stream phase is of a stream rule.
LEMMA ResolvedRules ==
  ASSUME StreamBuffer, NEW p
  PROVE  \A f \in Resolved(p) : f.rule \in StreamRule
<1>1. \A f \in Rows(claims, Current(p), Hits(Current(p)), "stream") : f.rule \in Hits(Current(p))
  BY DEF Rows
<1>2. Hits(Current(p)) \subseteq StreamRule
  BY DEF Hits, StreamRule
<1> QED
  BY <1>1, <1>2 DEF StreamBuffer, Resolved

\* A step of the stream phase is a step of the instance, on its own rows.
LEMMA StreamSteps ==
  ASSUME StreamBuffer, Next
  PROVE  S!Next
<1> USE DEF topicVars, cursorVars, engineVars, tableVars, S!topicVars, S!cursorVars, S!engineVars,
            S!tableVars
<1>1. ASSUME NEW p \in Partition, Publish(p)
      PROVE  S!Publish(p)
  BY <1>1 DEF Publish, S!Publish
<1>2. ASSUME NEW p \in Partition, Skip(p)
      PROVE  S!Skip(p)
  BY <1>2, StreamOperators DEF Skip, S!Skip
<1>3. ASSUME NEW p \in Partition, Observe(p)
      PROVE  S!Observe(p)
  <2>1. Accepted(Resolved(p)) => S!Accepted(Resolved(p))
    BY ResolvedRules, StreamWrites
  <2>2. UNCHANGED findings => UNCHANGED StreamRows(findings)
    OBVIOUS
  <2>3. /\ S!Current(p) = Current(p) /\ (S!InHand(p) <=> InHand(p)) /\ S!Resolved(p) = Resolved(p)
        /\ S!Hits(Current(p)) = Hits(Current(p))
        /\ S!NewWatermark(Current(p)) = NewWatermark(Current(p))
        /\ S!ClaimFor(claims, Current(p), Hits(Current(p))) = ClaimFor(claims, Current(p), Hits(Current(p)))
        /\ (S!RulesOn(Current(p)) <=> RulesOn(Current(p)))
    BY StreamOperators
  <2> HIDE DEF topicVars, cursorVars, engineVars, tableVars, S!topicVars, S!cursorVars, S!engineVars,
            S!tableVars
  <2>4. UNCHANGED topicVars => UNCHANGED S!topicVars
    BY DEF topicVars, S!topicVars
  <2>5. /\ InHand(p) /\ RulesOn(Current(p))
        /\ seen' = seen + 1
        /\ watermark' = NewWatermark(Current(p))
        /\ claims' = ClaimFor(claims, Current(p), Hits(Current(p)))
        /\ done' = [done EXCEPT ![p] = @ + 1]
        /\ UNCHANGED <<topicVars, upto, owned, pc, inspected, faults>>
    BY <1>3 DEF Observe
  <2>6. \/ /\ S!Cardinality(Resolved(p)) < BufferSize
           /\ buffer' = Resolved(p)
           /\ UNCHANGED StreamRows(findings)
        \/ /\ S!Cardinality(Resolved(p)) >= BufferSize
           /\ S!Accepted(Resolved(p))
           /\ buffer' = {}
    BY <1>3, <2>1, <2>2, SameSize DEF Observe
  <2>7. /\ S!InHand(p) /\ S!RulesOn(S!Current(p))
        /\ watermark' = S!NewWatermark(S!Current(p))
        /\ claims' = S!ClaimFor(claims, S!Current(p), S!Hits(S!Current(p)))
        /\ UNCHANGED <<S!topicVars, upto, owned, pc, inspected, faults>>
    BY <2>3, <2>4, <2>5
  <2>8. \/ /\ S!Cardinality(S!Resolved(p)) < BufferSize
           /\ buffer' = S!Resolved(p)
           /\ UNCHANGED StreamRows(findings)
        \/ /\ S!Cardinality(S!Resolved(p)) >= BufferSize
           /\ S!Accepted(S!Resolved(p))
           /\ buffer' = {}
    BY <2>3, <2>6
  <2> QED
    BY <2>5, <2>7, <2>8 DEF S!Observe
<1>4. ASSUME NEW p \in Partition, ObserveFails(p)
      PROVE  S!ObserveFails(p)
  <2>1. Refused(Resolved(p), seen + 1) => S!Refused(Resolved(p), seen + 1)
    BY ResolvedRules, StreamWrites
  <2>2. /\ S!Current(p) = Current(p) /\ (S!InHand(p) <=> InHand(p)) /\ S!Resolved(p) = Resolved(p)
        /\ (S!RulesOn(Current(p)) <=> RulesOn(Current(p)))
    BY StreamOperators
  <2> QED
    BY <1>4, <2>1, <2>2, SameSize DEF ObserveFails, S!ObserveFails
<1>5. Start => S!Start
  BY DEF Start, S!Start
<1>6. Poll => S!Poll
  BY DEF Poll, S!Poll, Offset, S!Offset
<1>7. FlushBatch => S!FlushBatch
  BY StreamWrites DEF FlushBatch, S!FlushBatch, BatchDone, S!BatchDone, StreamBuffer
<1>8. FlushFails => S!FlushFails
  BY StreamWrites DEF FlushFails, S!FlushFails, BatchDone, S!BatchDone, StreamBuffer
<1>9. Commit => S!Commit
  BY DEF Commit, S!Commit
<1>10. CommitFails => S!CommitFails
  BY StreamEnds DEF CommitFails, S!CommitFails
<1>11. SessionLost => S!SessionLost
  BY StreamEnds DEF SessionLost, S!SessionLost
<1>12. Idle => S!Idle
  BY StreamWrites, StreamEnds DEF Idle, S!Idle, StreamBuffer
<1>13. Interrupted => S!Interrupted
  BY StreamWrites, StreamEnds DEF Interrupted, S!Interrupted, StreamBuffer
<1>14. Crash => S!Crash
  BY StreamEnds DEF Crash, S!Crash
<1> QED
  BY <1>1, <1>2, <1>3, <1>4, <1>5, <1>6, <1>7, <1>8, <1>9, <1>10, <1>11, <1>12, <1>13, <1>14
     DEF Next, S!Next
-----------------------------------------------------------------------------
(* What the two phases share: types, and whose rows are whose.             *)

BatchRule == {Activity, Velocity}

\* The strongest batch rule that may hit the event.
BatchExpected(e) == IF e \in Deviant THEN Activity ELSE Velocity

BatchRows == \A f \in pending : f.rule \in BatchRule

Base ==
  /\ PhasesTypeOK
  /\ S!IInv
  /\ StreamBuffer /\ BatchRows

\* No rule belongs to both phases.
LEMMA PhaseRules ==
  /\ \A r \in BatchRule : r \notin StreamRule
  /\ BatchRule \subseteq EventAnchored /\ StreamRule \subseteq EventAnchored
  /\ None \notin EventAnchored
BY NoneAssumption DEF BatchRule, StreamRule, EventAnchored, Rule, Class, Inventory, TimeOrder, Velocity, Activity

\* The batch phase uses the same engine and the same table.
LEMMA BatchOperators ==
  /\ B!Finding = Finding /\ B!Claims = Claims /\ B!NoClaims = NoClaims
  /\ B!Activity = Activity /\ B!Velocity = Velocity
  /\ \A table, rows : B!Inserted(table, rows) = Inserted(table, rows)
  /\ \A rows : B!Rejected(rows) <=> Rejected(rows)
  /\ \A table, e : B!CanonicalOf(table, e) = CanonicalOf(table, e)
  /\ \A c, e, h : B!Winner(c, e, h) = Winner(c, e, h)
  /\ \A c, e, h, phase : B!Rows(c, e, h, phase) = Rows(c, e, h, phase)
<1>1. /\ B!All = All /\ B!EventAnchored = EventAnchored
      /\ B!Activity = Activity /\ B!Velocity = Velocity
  BY DEF B!All, B!Inventory, B!Activity, B!TimeOrder, B!Velocity, B!Trajectory, All, Inventory, Activity,
     TimeOrder, Velocity, Trajectory, B!EventAnchored, EventAnchored, B!Rule, Rule, B!Class, Class
<1>2. B!Finding = Finding /\ B!Claims = Claims /\ B!NoClaims = NoClaims
  BY <1>1 DEF B!Finding, Finding, B!Claims, Claims, B!NoClaims, NoClaims
<1>3. \A table, rows : B!Inserted(table, rows) = Inserted(table, rows)
  BY DEF B!Inserted, Inserted, B!SameKey, SameKey
<1>4. \A rows : B!Rejected(rows) <=> Rejected(rows)
  BY DEF B!Rejected, Rejected
<1>5. \A table, e : B!CanonicalOf(table, e) = CanonicalOf(table, e)
  BY DEF B!CanonicalOf, CanonicalOf
<1>6. \A r, s : B!StrongerThan(r, s) <=> StrongerThan(r, s)
  BY <1>1 DEF B!StrongerThan, StrongerThan
<1>7. \A h : B!Strongest(h) = Strongest(h)
  BY <1>6 DEF B!Strongest, Strongest
<1>8. \A c, e, h : B!Winner(c, e, h) = Winner(c, e, h)
  BY <1>7 DEF B!Winner, Winner
<1>9. \A c, e, h, phase : B!Rows(c, e, h, phase) = Rows(c, e, h, phase)
  BY <1>8 DEF B!Rows, Rows
<1> QED
  BY <1>1, <1>2, <1>3, <1>4, <1>5, <1>8, <1>9

\* Of two batch hits the stronger is rule 5 (rule.go All).
LEMMA StrongestBatchHit ==
  ASSUME NEW e, B!Hits(e) # {}
  PROVE  /\ B!Hits(e) \subseteq BatchRule
         /\ BatchExpected(e) \in B!Hits(e)
         /\ Strongest(B!Hits(e)) = BatchExpected(e)
         /\ e \in Deviant \cup Impossible
<1>1. /\ B!Hits(e) \subseteq BatchRule /\ BatchExpected(e) \in B!Hits(e)
      /\ e \in Deviant \cup Impossible
      /\ \A r \in B!Hits(e) \ {BatchExpected(e)} : BatchExpected(e) = Activity /\ r = Velocity
  BY BatchOperators DEF B!Hits, BatchRule, BatchExpected, Activity, Velocity
<1>2. StrongerThan(Activity, Velocity) /\ ~StrongerThan(Velocity, Activity)
  <2>1. All[1] = 1 /\ All[2] = 5 /\ All[3] = 3 /\ All[4] = 2 /\ All[5] = 4
    BY DEF All, Inventory, Velocity, TimeOrder, Trajectory, Activity
  <2> QED
    BY <2>1 DEF StrongerThan, Activity, Velocity
<1>3. \A r \in B!Hits(e) :
        (\A s \in B!Hits(e) \ {r} : StrongerThan(r, s)) => r = BatchExpected(e)
  BY <1>1, <1>2
<1>4. \A s \in B!Hits(e) \ {BatchExpected(e)} : StrongerThan(BatchExpected(e), s)
  BY <1>1, <1>2
<1> QED
  BY <1>1, <1>3, <1>4 DEF Strongest

\* A stream step writes rows of its own rules only.
LEMMA StreamTable ==
  ASSUME StreamBuffer, [Next]_vars
  PROVE  /\ StreamBuffer'
         /\ \/ findings' = findings
            \/ \E rows : /\ \A f \in rows : f.rule \in StreamRule
                         /\ findings' = Inserted(findings, rows)
<1>1. \A rows, count : Refused(rows, count) =>
        buffer' = {} /\ (findings' = findings \/ findings' = Inserted(findings, rows))
  BY DEF Refused, Leave, LeaveBroken, Forget
<1>2. ASSUME NEW p \in Partition, Publish(p) \/ Skip(p) \/ Observe(p) \/ ObserveFails(p)
      PROVE  /\ buffer' = {} \/ buffer' = buffer \/ buffer' = Resolved(p)
             /\ findings' = findings \/ findings' = Inserted(findings, Resolved(p))
  BY <1>1, <1>2 DEF Publish, Skip, Observe, ObserveFails, engineVars, tableVars, Accepted
<1>3. CASE \/ Start \/ Poll \/ FlushBatch \/ FlushFails \/ Commit \/ CommitFails
           \/ SessionLost \/ Idle \/ Interrupted \/ Crash \/ UNCHANGED vars
  <2>1. /\ buffer' = {} \/ buffer' = buffer
        /\ findings' = findings \/ findings' = Inserted(findings, buffer)
    BY <1>1, <1>3 DEF Start, Poll, FlushBatch, FlushFails, Commit, CommitFails, SessionLost, Idle,
       Interrupted, Crash, vars, engineVars, tableVars, Accepted, Leave, Forget
  <2> QED
    BY <2>1 DEF StreamBuffer
<1> QED
  BY <1>2, <1>3, ResolvedRules DEF Next, StreamBuffer

\* A batch step writes rows of the batch rules only.
LEMMA BatchResolved ==
  ASSUME BatchRows
  PROVE  \A f \in B!Resolved : f.rule \in BatchRule
<1>1. ASSUME NEW e \in B!Flagged, NEW f \in B!Rows(ledger, e, B!Hits(e), "batch")
      PROVE  f.rule \in BatchRule
  <2>1. f.rule \in B!Hits(e)
    BY <1>1 DEF B!Rows
  <2> QED
    BY <2>1, StrongestBatchHit
<1> QED
  BY <1>1 DEF B!Resolved, BatchRows

\* A step of the batch phase adds rows of its own rules, or none.
LEMMA BatchTable ==
  ASSUME BatchRows, B!BatchNext
  PROVE  /\ BatchRows'
         /\ \/ findings' = findings
            \/ \E rows : /\ \A f \in rows : f.rule \in BatchRule
                         /\ findings' = Inserted(findings, rows)
         /\ UNCHANGED <<published, inspected, stored>>
<1>1. \A rows : B!Refused(rows) =>
        pending' = {} /\ (findings' = findings \/ findings' = Inserted(findings, rows))
  BY BatchOperators DEF B!Refused, B!End
<1>2. CASE B!Evaluate \/ B!EvaluateFails
  <2>1. /\ pending' = {} \/ pending' = B!Resolved
        /\ findings' = findings \/ findings' = Inserted(findings, B!Resolved)
    BY <1>1, <1>2, BatchOperators DEF B!Evaluate, B!EvaluateFails, B!Accepted
  <2> QED
    BY <1>2, <2>1, BatchResolved DEF BatchRows, B!Evaluate, B!EvaluateFails, B!runVars
<1>3. CASE \/ B!LoadClaims \/ B!ReadStatus \/ B!CheckPrecondition \/ B!Finish \/ B!FinishFails
           \/ B!Crash \/ B!Rerun
  <2>1. /\ pending' = {} \/ pending' = pending
        /\ findings' = findings \/ findings' = Inserted(findings, pending)
        /\ UNCHANGED <<published, inspected, stored>>
    BY <1>1, <1>3, BatchOperators DEF B!LoadClaims, B!ReadStatus, B!CheckPrecondition, B!Finish,
       B!FinishFails, B!Crash, B!Rerun, B!Accepted, B!End, B!runVars
  <2> QED
    BY <2>1 DEF BatchRows
<1> QED
  BY <1>2, <1>3 DEF B!BatchNext

\* Whatever the system does, the stream phase sees a step of its own or none.
LEMMA StreamView ==
  ASSUME StreamBuffer, BatchRows, [SystemNext]_systemVars
  PROVE  [S!Next]_S!vars
<1> USE DEF S!vars, S!topicVars, S!cursorVars, S!engineVars, S!tableVars
<1>1. CASE StreamStep
  BY <1>1, StreamSteps DEF StreamStep
<1>2. CASE BatchStep
  <2>1. StreamRows(findings') = StreamRows(findings)
    BY <1>2, BatchTable, InsertedOtherRows, PhaseRules DEF BatchStep
  <2>2. StreamRows(findings)' = StreamRows(findings')
    BY DEF StreamRows
  <2> QED
    BY <1>2, <2>1, <2>2, BatchTable DEF BatchStep, topicVars, cursorVars, engineVars
<1>3. CASE CompleteRun \/ Persist \/ UNCHANGED systemVars
  <2>1. UNCHANGED vars
    BY <1>3 DEF CompleteRun, Persist, systemVars
  <2>2. UNCHANGED StreamRows(findings)
    BY <2>1 DEF vars, tableVars, StreamRows
  <2> QED
    BY <2>1, <2>2 DEF vars, topicVars, cursorVars, engineVars, tableVars
<1> QED
  BY <1>1, <1>2, <1>3 DEF SystemNext

\* What a batch process reads, resolves and writes has the right types.
LEMMA BatchTypes ==
  ASSUME B!BatchTypeOK, BatchRows, NEW rows, rows \subseteq Finding
  PROVE  Inserted(findings, rows) \subseteq Finding
BY BatchOperators DEF Inserted, B!BatchTypeOK

\* What the scan flags is of the trajectories it reads.
LEMMA BatchVerdictTypes ==
  ASSUME B!BatchTypeOK, B!Scanning
  PROVE  /\ Scan[cursor + 1] \subseteq Event
         /\ B!Flagged \subseteq Event
         /\ \A e \in B!Flagged : Winner(ledger, e, B!Hits(e)) \in EventAnchored
         /\ B!Resolved \subseteq Finding
<1>1. cursor \in Nat /\ cursor + 1 \in 1..Len(Scan)
  BY PhasesAssumption DEF B!BatchTypeOK, B!Scanning, B!BatchConstants
<1>2. Scan[cursor + 1] \subseteq Event /\ B!Flagged \subseteq Event
  BY <1>1, PhasesAssumption DEF B!BatchConstants, B!Flagged
<1>3. ASSUME NEW e \in B!Flagged
      PROVE  /\ Winner(ledger, e, B!Hits(e)) \in EventAnchored
             /\ B!Rows(ledger, e, B!Hits(e), "batch") \subseteq Finding
  <2>1. B!Hits(e) # {} /\ e \in Event
    BY <1>2 DEF B!Flagged
  <2>2. ledger[e] \in EventAnchored \cup {None}
    BY <2>1, BatchOperators DEF B!BatchTypeOK, Claims
  <2>3. B!Hits(e) \subseteq EventAnchored /\ BatchExpected(e) \in EventAnchored
    BY <2>1, StrongestBatchHit, PhaseRules
  <2>4. Winner(ledger, e, B!Hits(e)) \in EventAnchored
    BY <2>1, <2>2, <2>3, StrongestBatchHit DEF Winner
  <2>5. Rows(ledger, e, B!Hits(e), "batch") \subseteq Finding
    BY <2>1, <2>3, <2>4 DEF Rows, Finding
  <2> QED
    BY <2>4, <2>5, BatchOperators
<1>4. B!Resolved \subseteq Finding
  BY <1>3, BatchOperators DEF B!Resolved, B!BatchTypeOK
<1> QED
  BY <1>2, <1>3, <1>4

\* A batch process that ends leaves nothing in memory.
LEMMA BatchEnds ==
  ASSUME NEW s, B!End(s), s \in {"down", "done", "refused", "rejected"}
  PROVE  /\ bpc' = s /\ ledger' \in Claims /\ status' \in B!Status
         /\ cursor' = 0 /\ pending' = {}
<1>1. B!NoStatus \in B!Status
  BY DEF B!NoStatus, B!Status
<1>2. NoClaims \in Claims
  BY DEF NoClaims, Claims
<1> QED
  BY <1>1, <1>2, BatchOperators DEF B!End

\* A fault spent leaves a number of faults.
LEMMA BatchSpends ==
  ASSUME bfaults \in [B!BatchFaults -> Nat], NEW f \in B!BatchFaults, B!Spend(f)
  PROVE  bfaults' \in [B!BatchFaults -> Nat]
BY DEF B!Spend

\* A refused insert of the batch phase keeps the types.
LEMMA BatchRefused ==
  ASSUME B!BatchTypeOK, BatchRows, NEW rows, rows \subseteq Finding, B!Refused(rows)
  PROVE  B!BatchTypeOK'
<1>1. bfaults' \in [B!BatchFaults -> Nat]
  BY BatchSpends DEF B!Refused, B!BatchFaults, B!BatchTypeOK
<1>2. findings' \subseteq Finding
  BY BatchTypes, BatchOperators DEF B!Refused, B!BatchTypeOK
<1>3. \E s \in {"down", "rejected"} : B!End(s)
  BY DEF B!Refused
<1>4. 0 \in 0..Len(Scan)
  BY PhasesAssumption DEF B!BatchConstants
<1> QED
  BY <1>1, <1>2, <1>3, <1>4, BatchEnds, BatchOperators DEF B!BatchTypeOK

\* Every step of the batch phase keeps the types.
LEMMA BatchTypesKept ==
  ASSUME B!BatchTypeOK, BatchRows, B!BatchNext,
         published \in Nat \cup {None}, inspected \in Nat \cup {None}
  PROVE  B!BatchTypeOK'
<1> USE BatchOperators
<1>0. 0 \in 0..Len(Scan)
  BY PhasesAssumption DEF B!BatchConstants
<1>1. CASE B!LoadClaims
  BY <1>1 DEF B!LoadClaims, B!BatchTypeOK
<1>2. CASE B!ReadStatus
  <2>1. [published |-> published, inspected |-> inspected] \in B!Status
    BY DEF B!Status
  <2> QED
    BY <1>0, <1>2, <2>1, BatchEnds DEF B!ReadStatus, B!BatchTypeOK
<1>3. CASE B!CheckPrecondition
  BY <1>0, <1>3, BatchEnds DEF B!CheckPrecondition, B!BatchTypeOK
<1>4. CASE B!Evaluate
  <2>1. /\ B!Flagged \subseteq Event /\ B!Resolved \subseteq Finding
        /\ \A e \in B!Flagged : Winner(ledger, e, B!Hits(e)) \in EventAnchored
    BY <1>4, BatchVerdictTypes DEF B!Evaluate
  <2>2. ledger' \in Claims
    BY <1>4, <2>1 DEF B!Evaluate, B!BatchTypeOK, Claims
  <2>3. cursor' \in 0..Len(Scan)
    BY <1>4, PhasesAssumption DEF B!Evaluate, B!Scanning, B!BatchTypeOK, B!BatchConstants
  <2>4. findings' \subseteq Finding /\ pending' \subseteq Finding
    BY <1>4, <2>1, BatchTypes DEF B!Evaluate, B!Accepted, B!BatchTypeOK
  <2> QED
    BY <1>4, <2>2, <2>3, <2>4 DEF B!Evaluate, B!BatchTypeOK
<1>5. CASE B!EvaluateFails
  BY <1>5, BatchVerdictTypes, BatchRefused DEF B!EvaluateFails
<1>6. CASE B!Finish
  <2>1. findings' \subseteq Finding
    BY <1>6, BatchTypes DEF B!Finish, B!Accepted, B!BatchTypeOK
  <2> QED
    BY <1>0, <1>6, <2>1, BatchEnds DEF B!Finish, B!BatchTypeOK
<1>7. CASE B!FinishFails
  BY <1>7, BatchRefused DEF B!FinishFails, B!BatchTypeOK
<1>8. CASE B!Crash
  <2>1. bfaults' \in [B!BatchFaults -> Nat]
    BY <1>8, BatchSpends DEF B!Crash, B!BatchFaults, B!BatchTypeOK
  <2> QED
    BY <1>0, <1>8, <2>1, BatchEnds DEF B!Crash, B!BatchTypeOK
<1>9. CASE B!Rerun
  <2>1. bfaults' \in [B!BatchFaults -> Nat]
    BY <1>9, BatchSpends DEF B!Rerun, B!BatchFaults, B!BatchTypeOK
  <2> QED
    BY <1>9, <2>1 DEF B!Rerun, B!BatchTypeOK
<1> QED
  BY <1>1, <1>2, <1>3, <1>4, <1>5, <1>6, <1>7, <1>8, <1>9 DEF B!BatchNext

-----------------------------------------------------------------------------
(* Type correctness of the composed system.                                *)

\* The instance's finite sets are this module's.
LEMMA SameFinite == \A A : S!IsFiniteSet(A) <=> IsFiniteSet(A)
BY DEF S!IsFiniteSet, IsFiniteSet

\* The stream phase's own invariant is not disturbed by the batch phase.
LEMMA StreamInit == SystemInit => S!IInv /\ S!InOrder /\ S!CountIsTrue
<1> SUFFICES ASSUME SystemInit
             PROVE  S!IInv /\ S!InOrder /\ S!CountIsTrue
  OBVIOUS
<1>1. S!Init
  BY DEF SystemInit, Init, S!Init, StreamRows, NoClaims, S!NoClaims, NoWatermark, S!NoWatermark, Faults, S!Faults
<1> QED
  BY <1>1, S!InitEstablishes, S!InOrderAtFirst, S!CountAtFirst,
     SameFinite, StreamOperators, NoneAssumption, StreamAssumption, KeyAssumption,
     OnceAssumption DEF S!Kinds, S!Faults, Kinds, Faults

\* Every step of the instance keeps its invariants.
LEMMA StreamStepKeeps ==
  ASSUME S!IInv, [S!Next]_S!vars
  PROVE  /\ S!IInv'
         /\ S!InOrder => S!InOrder'
         /\ S!InOrder /\ S!CountIsTrue => S!CountIsTrue'
BY S!StepKeeps, S!InOrderStep, S!CountStep,
   SameFinite, StreamOperators, NoneAssumption, StreamAssumption, KeyAssumption,
   OnceAssumption DEF S!Kinds, S!Faults, Kinds, Faults

\* This run's positions in the topic, and those it has reached.
TopicPositions ==
  {at \in Partition \X Offset :
     /\ at[2] \in 1..Len(Produce[at[1]])
     /\ RulesOn(Produce[at[1]][at[2]])}

Reached(ends) ==
  {at \in Partition \X Offset :
     at[2] \in 1..ends[at[1]] /\ RulesOn(Produce[at[1]][at[2]])}

\* The topic is finite.
LEMMA TopicFinite ==
  IsFiniteSet(TopicPositions)
<1>1. S!PublishedPositions = TopicPositions
  BY StreamOperators DEF TopicPositions, S!PublishedPositions, Offset, S!Offset
<1>2. S!IsFiniteSet(S!PublishedPositions)
  BY S!PublishedFinite, SameFinite, StreamOperators, NoneAssumption, StreamAssumption, KeyAssumption,
     OnceAssumption DEF S!Kinds, S!Faults, Kinds, Faults
<1> QED
  BY <1>1, <1>2, SameFinite

\* The topic holds more of the run's records with every step, up to all of them.
LEMMA TopicGrows ==
  ASSUME hw \in [Partition -> Nat], hw' \in [Partition -> Nat],
         \A p \in Partition : hw[p] <= hw'[p] /\ hw'[p] <= Len(Produce[p])
  PROVE  InTopic \in Nat /\ InTopic' \in Nat /\ InTopic <= InTopic'
<1>1. \A p \in Partition : Len(Produce[p]) \in Nat
  BY StreamAssumption
<1>2. Reached(hw) \subseteq Reached(hw') /\ Reached(hw') \subseteq TopicPositions
  BY <1>1 DEF Reached, TopicPositions
<1>3. IsFiniteSet(Reached(hw)) /\ IsFiniteSet(Reached(hw'))
  BY <1>2, TopicFinite, FS_Subset
<1>4. /\ Cardinality(Reached(hw)) \in Nat /\ Cardinality(Reached(hw')) \in Nat
      /\ Cardinality(Reached(hw)) <= Cardinality(Reached(hw'))
  BY <1>2, <1>3, FS_Subset, FS_CardinalityType
<1>5. InTopic = Cardinality(Reached(hw)) /\ InTopic' = Cardinality(Reached(hw'))
  BY DEF InTopic, Reached
<1> QED
  BY <1>4, <1>5

\* What the simulator declares is the number of the run's records in the whole topic.
LEMMA CompleteCount ==
  ASSUME hw \in [Partition -> Nat], \A p \in Partition : hw[p] = Len(Produce[p])
  PROVE  InTopic = Published
<1>1. Reached(hw) = TopicPositions
  BY DEF Reached, TopicPositions
<1> QED
  BY <1>1 DEF InTopic, Published, Reached, TopicPositions

\* The stream phase's part of the type invariant.
LEMMA StreamTypes ==
  /\ PhasesTypeOK => S!TypeOK
  /\ S!TypeOK /\ findings \subseteq Finding => TypeOK
  /\ S!TypeOK' /\ findings' \subseteq Finding => TypeOK'
<1>1. S!Finding = Finding /\ S!Claims = Claims /\ S!Faults = Faults
  <2>1. S!EventAnchored = EventAnchored
    BY DEF S!EventAnchored, EventAnchored, S!Rule, Rule, S!Class, Class, S!Inventory, S!Activity, S!TimeOrder,
       S!Velocity, Inventory, Activity, TimeOrder, Velocity
  <2> QED
    BY <2>1 DEF S!Finding, Finding, S!Claims, Claims, S!Faults, Faults
<1> QED
  BY <1>1 DEF PhasesTypeOK, TypeOK, S!TypeOK, StreamRows

\* The composed system starts in the invariant.
LEMMA BaseInit == SystemInit => Base
<1> SUFFICES ASSUME SystemInit
             PROVE  Base
  OBVIOUS
<1>1. S!IInv
  BY StreamInit
<1>2. TypeOK
  BY <1>1, StreamTypes DEF SystemInit, Init, S!IInv
<1>3. StreamBuffer /\ BatchRows
  BY DEF SystemInit, Init, B!BatchInit, StreamBuffer, BatchRows
<1>4. B!BatchTypeOK
  <2>1. 0 \in 0..Len(Scan)
    BY PhasesAssumption DEF B!BatchConstants
  <2>2. NoClaims \in Claims /\ B!NoStatus \in B!Status
    BY DEF NoClaims, Claims, B!NoStatus, B!Status
  <2> QED
    BY <2>1, <2>2, BatchOperators DEF SystemInit, Init, B!BatchInit, B!BatchTypeOK
<1>5. stored \in 0..InTopic
  <2>1. hw \in [Partition -> Nat] /\ \A p \in Partition : hw[p] <= Len(Produce[p])
    BY <1>2 DEF TypeOK
  <2>2. IsFiniteSet(Reached(hw))
    BY <2>1, TopicFinite, FS_Subset, StreamAssumption DEF Reached, TopicPositions
  <2>3. InTopic \in Nat
    BY <2>2, FS_CardinalityType DEF InTopic, Reached
  <2> QED
    BY <2>3 DEF SystemInit
<1> QED
  BY <1>1, <1>2, <1>3, <1>4, <1>5 DEF Base, PhasesTypeOK, SystemInit

\* Either phase keeps it.
LEMMA BaseStep ==
  ASSUME Base, [SystemNext]_systemVars
  PROVE  Base'
<1>1. TypeOK /\ B!BatchTypeOK /\ StreamBuffer /\ BatchRows
  BY DEF Base, PhasesTypeOK
<1>2. S!IInv'
  BY <1>1, StreamView, StreamStepKeeps DEF Base
<1>3. hw \in [Partition -> Nat] /\ hw' \in [Partition -> Nat]
      /\ \A p \in Partition : hw'[p] <= Len(Produce[p])
  BY <1>1, <1>2 DEF TypeOK, S!IInv, S!TypeOK
<1>4. \A p \in Partition : hw[p] <= hw'[p]
  <2>1. hw' = hw \/ \E p \in Partition : Publish(p)
    BY DEF systemVars, vars, topicVars, SystemNext, CompleteRun, Persist, BatchStep, StreamStep, Next,
       Skip, Observe, ObserveFails, Start, Poll, FlushBatch, FlushFails, Commit, CommitFails,
       SessionLost, Idle, Interrupted, Crash
  <2> QED
    BY <1>3, <2>1 DEF Publish
<1>5. InTopic \in Nat /\ InTopic' \in Nat /\ InTopic <= InTopic'
  BY <1>3, <1>4, TopicGrows
<1>6. CASE StreamStep
  <2>1. StreamBuffer' /\ findings' \subseteq Finding
    <3>1. \/ findings' = findings
          \/ \E rows : /\ \A f \in rows : f.rule \in StreamRule
                       /\ findings' = Inserted(findings, rows)
      BY <1>1, <1>6, StreamTable DEF StreamStep
    <3>2. StreamRows(findings') \subseteq Finding
      <4>1. StreamRows(findings)' = StreamRows(findings')
        BY DEF StreamRows
      <4>2. S!Finding = Finding
        BY DEF S!Finding, Finding, S!EventAnchored, EventAnchored, S!Rule, Rule, S!Class, Class, S!Inventory,
           S!Activity, S!TimeOrder, S!Velocity, Inventory, Activity, TimeOrder, Velocity
      <4> QED
        BY <1>2, <4>1, <4>2 DEF S!IInv, S!TypeOK
    <3>3. \A f \in findings' : f \in findings \/ f \in StreamRows(findings')
      BY <3>1 DEF Inserted, StreamRows
    <3> QED
      BY <1>1, <1>6, <3>2, <3>3, StreamTable DEF StreamStep, TypeOK
  <2>2. TypeOK'
    BY <1>2, <2>1, StreamTypes DEF S!IInv
  <2>3. B!BatchTypeOK' /\ BatchRows'
    BY <1>1, <1>6, <2>1, BatchOperators DEF StreamStep, batchVars, B!BatchTypeOK, BatchRows
  <2>4. published' = published /\ stored' = stored /\ opened' = opened
        /\ ended' \in {"never", "ok", "error"}
    BY <1>6 DEF StreamStep, Base, PhasesTypeOK
  <2> QED
    BY <1>2, <1>5, <2>1, <2>2, <2>3, <2>4 DEF Base, PhasesTypeOK
<1>7. CASE BatchStep
  <2>1. /\ B!BatchTypeOK' /\ BatchRows'
        /\ UNCHANGED <<published, inspected, stored>>
    BY <1>1, <1>7, BatchTypesKept, BatchTable DEF BatchStep, Base, PhasesTypeOK, TypeOK
  <2>2. TypeOK'
    <3>1. S!TypeOK' /\ findings' \subseteq Finding
      BY <1>2, <2>1, BatchOperators DEF S!IInv, B!BatchTypeOK
    <3> QED
      BY <3>1, StreamTypes
  <2>3. opened' \in BOOLEAN /\ ended' = ended /\ StreamBuffer'
    BY <1>1, <1>7 DEF BatchStep, engineVars, StreamBuffer, Base, PhasesTypeOK
  <2> QED
    BY <1>2, <1>5, <2>1, <2>2, <2>3 DEF Base, PhasesTypeOK
<1>8. CASE CompleteRun \/ Persist \/ UNCHANGED systemVars
  <2>1. UNCHANGED <<vars, batchVars, watchVars>>
    BY <1>8 DEF CompleteRun, Persist, systemVars
  <2>2. TypeOK' /\ B!BatchTypeOK' /\ StreamBuffer' /\ BatchRows'
        /\ ended' \in {"never", "ok", "error"} /\ opened' \in BOOLEAN
    <3>1. S!TypeOK' /\ findings' = findings
      BY <1>2, <2>1 DEF S!IInv, vars, tableVars
    <3>2. TypeOK'
      BY <1>1, <3>1, StreamTypes DEF TypeOK
    <3> QED
      BY <1>1, <2>1, <3>1, <3>2 DEF B!BatchTypeOK, StreamBuffer, BatchRows, vars, engineVars,
         batchVars, watchVars, Base, PhasesTypeOK
  <2>3. published' \in Nat \cup {None}
    BY <1>5, <1>8 DEF CompleteRun, Persist, systemVars, Base, PhasesTypeOK
  <2>4. stored' \in 0..InTopic'
    BY <1>5, <1>8 DEF CompleteRun, Persist, systemVars, Base, PhasesTypeOK
  <2> QED
    BY <1>2, <2>2, <2>3, <2>4 DEF Base, PhasesTypeOK
<1> QED
  BY <1>6, <1>7, <1>8 DEF SystemNext

\* Types, the stream phase's invariant and whose rows are whose, always.
LEMMA BaseInvariant == SystemSpec => []Base
BY BaseInit, BaseStep, PTL DEF SystemSpec

\* Type correctness of the two phases together: the table, the claims, the handover and
\* the declared count, whatever both processes meet.
THEOREM PhasesTypes == SystemSpec => []PhasesTypeOK
<1>1. Base => PhasesTypeOK
  BY DEF Base
<1> QED
  BY <1>1, BaseInvariant, PTL

-----------------------------------------------------------------------------
(* The handover between the phases, when no group session is lost and the  *)
(* phases run one after the other.                                         *)

\* Every record of the run is committed.
Drained ==
  \A p \in Partition : \A i \in 1..Len(Produce[p]) :
    RulesOn(Produce[p][i]) => i <= committed[p]

\* The stream phase between two batches, and how the last process left.
StreamLeft ==
  /\ faults["session"] = 0
  /\ S!InOrder /\ S!CountIsTrue
  /\ pc = "poll" => done = committed
  /\ ended = "ok" /\ inspected = Published => Drained

\* What the batch process knows, and that it found the stream phase through.
LetIn ==
  /\ published # None => published = Published
  /\ BatchRunning => pc = "down" /\ ended = "ok"
  /\ bpc = "counting" =>
       published # None /\ status = [published |-> published, inspected |-> inspected]
  /\ bpc \in {"scan", "done"} => opened
  /\ opened => Drained /\ buffer = {}
  /\ bpc # "scan" => pending = {} /\ cursor = 0

Handover == StreamLeft /\ LetIn

\* The count Complete declares is the instance's.
LEMMA SamePublished ==
  /\ Published = S!Cardinality(S!PublishedPositions)
  /\ S!PublishedPositions = TopicPositions
  /\ TopicPositions = {at \in Partition \X Offset : at[2] \in 1..Len(Produce[at[1]])
                                                    /\ RulesOn(Produce[at[1]][at[2]])}
<1>1. S!PublishedPositions = TopicPositions
  BY StreamOperators DEF TopicPositions, S!PublishedPositions, Offset, S!Offset
<1> QED
  BY <1>1, SameSize DEF TopicPositions, Published

\* Everything was inspected: the process has observed the whole run.
LEMMA FullCountObserved ==
  ASSUME Base, StreamLeft, seen = Published
  PROVE  \A p \in Partition : \A i \in 1..Len(Produce[p]) :
           RulesOn(Produce[p][i]) => i <= done[p]
<1>1. seen <= S!Cardinality(S!ObservedPositions)
  BY DEF StreamLeft, S!CountIsTrue
<1>2. S!ObservedPositions = S!PublishedPositions
  <2>1. /\ S!Cardinality(S!PublishedPositions) \in Nat /\ S!Cardinality(S!ObservedPositions) \in Nat
        /\ S!Cardinality(S!ObservedPositions) <= S!Cardinality(S!PublishedPositions)
        /\ S!Cardinality(S!ObservedPositions) = S!Cardinality(S!PublishedPositions) =>
             S!ObservedPositions = S!PublishedPositions
    BY S!PublishedFinite, S!ObservedFinite, SameFinite, StreamOperators, NoneAssumption, StreamAssumption,
       KeyAssumption, OnceAssumption DEF S!Kinds, S!Faults, Kinds, Faults
  <2> QED
    BY <1>1, <2>1, SamePublished
<1>3. ASSUME NEW p \in Partition, NEW i \in 1..Len(Produce[p]), RulesOn(Produce[p][i])
      PROVE  i <= done[p]
  <2>1. Len(Produce[p]) \in Nat /\ done[p] \in Nat
    BY StreamAssumption DEF Base, PhasesTypeOK, TypeOK
  <2>2. i \in Offset
    BY <2>1 DEF Offset
  <2>3. <<p, i>> \in TopicPositions
    BY <1>3, <2>2 DEF TopicPositions
  <2>4. <<p, i>> \in S!ObservedPositions
    BY <1>2, <2>3, SamePublished
  <2> QED
    BY <2>1, <2>4 DEF S!ObservedPositions
<1> QED
  BY <1>3

\* What is committed stays committed.
LEMMA DrainedStays ==
  ASSUME Base, [Next]_vars, Drained
  PROVE  Drained'
<1>1. \A p \in Partition : committed[p] \in Nat /\ committed'[p] \in Nat /\ committed[p] <= committed'[p]
  <2>1. TypeOK /\ StreamBuffer
    BY DEF Base, PhasesTypeOK
  <2>2. committed' = committed \/ committed' = upto
    BY DEF vars, topicVars, Next, Publish, Skip, Observe, ObserveFails, Start, Poll, FlushBatch, FlushFails,
       Commit, CommitFails, SessionLost, Idle, Interrupted, Crash
  <2> QED
    BY <2>1, <2>2 DEF TypeOK
<1>2. \A p \in Partition : Len(Produce[p]) \in Nat
  BY StreamAssumption
<1> QED
  BY <1>1, <1>2 DEF Drained

\* No group session is lost where none may be.
LEMMA SessionsStay ==
  ASSUME Base, [Next]_vars, faults["session"] = 0, Limit["session"] = 0
  PROVE  faults'["session"] = 0 /\ ~SessionLost
<1>1. faults \in [Faults -> Nat]
  BY DEF Base, PhasesTypeOK, TypeOK
<1>2. \A f \in Faults \ {"session"} : Spend(f) => faults'["session"] = 0
  BY <1>1 DEF Spend, Faults
<1>3. ~SessionLost
  BY DEF SessionLost, Spend
<1>4. faults' = faults \/ \E f \in Faults \ {"session"} : Spend(f)
  <2>1. \A rows, count : Refused(rows, count) => faults' = faults \/ Spend("sink")
    BY DEF Refused
  <2>2. CASE \E p \in Partition : Publish(p) \/ Skip(p) \/ Observe(p) \/ ObserveFails(p)
    BY <2>1, <2>2 DEF Publish, Skip, Observe, ObserveFails, Faults
  <2>3. CASE \/ Start \/ Poll \/ FlushBatch \/ FlushFails \/ Commit \/ CommitFails
             \/ Idle \/ Interrupted \/ Crash \/ UNCHANGED vars
    BY <2>1, <2>3 DEF Start, Poll, FlushBatch, FlushFails, Commit, CommitFails,
       Idle, Interrupted, Crash, Faults, vars
  <2> QED
    BY <1>3, <2>2, <2>3 DEF Next
<1> QED
  BY <1>2, <1>3, <1>4

\* A process that ends between two batches with exit code 0 and a full count has
\* committed the whole run.
LEMMA CleanExitDrained ==
  ASSUME Base, StreamLeft, [Next]_vars, pc = "poll", pc' = "down", CleanExit,
         inspected' = Published
  PROVE  Drained'
<1>1. faults \in [Faults -> Nat]
  BY DEF Base, PhasesTypeOK, TypeOK
<1>2. \A f \in Faults \ {"signal"} : ~Spend(f)
  BY <1>1 DEF Spend, CleanExit
<1>3. inspected' = seen /\ committed' = committed
  <2>1. Idle \/ Interrupted
    BY <1>2 DEF Next, Publish, Skip, Observe, ObserveFails, Start, Poll, FlushBatch, FlushFails, Commit, CommitFails,
       SessionLost, Crash, vars, InHand, BatchDone, Faults
  <2> QED
    BY <1>2, <2>1 DEF Idle, Interrupted, Leave, topicVars, Faults
<1>4. done = committed
  BY DEF StreamLeft
<1> QED
  BY <1>3, <1>4, FullCountObserved DEF Drained

\* Without a lost session every step keeps it.
LEMMA StreamLeftStep ==
  ASSUME Base, StreamLeft, [SystemNext]_systemVars, Limit["session"] = 0
  PROVE  StreamLeft'
<1>1. S!InOrder' /\ S!CountIsTrue'
  BY StreamView, StreamStepKeeps DEF Base, StreamLeft
<1>2. CASE StreamStep
  <2>1. [Next]_vars /\ Next
    BY <1>2 DEF StreamStep
  <2>2. faults'["session"] = 0 /\ ~SessionLost
    BY <2>1, SessionsStay DEF StreamLeft
  <2>3. /\ pc \in {"poll", "commit", "down"} => done = upto
        /\ pc = "down" => done = committed
        /\ owned
    BY DEF Base, S!IInv, S!NothingInHand, StreamLeft, S!InOrder
  <2>4. ASSUME pc' = "poll"
        PROVE  done' = committed'
    <3>1. (\E p \in Partition : Publish(p)) \/ Start \/ Commit
      BY <2>1, <2>2, <2>4 DEF Next, Skip, Observe, ObserveFails, Poll, FlushBatch, FlushFails,
         CommitFails, Idle, Interrupted, Crash, Refused, Leave, LeaveBroken, Forget, InHand
    <3> QED
      BY <2>3, <2>4, <3>1 DEF Publish, Start, Commit, topicVars, cursorVars, StreamLeft
  <2>5. ASSUME ended' = "ok", inspected' = Published
        PROVE  Drained'
    <3>1. CASE pc = "down" \/ pc' # "down"
      <4>1. ended = "ok"
        BY <1>2, <2>5, <3>1 DEF StreamStep
      <4>2. inspected' = inspected
        BY <2>1, <3>1 DEF Next, Publish, Skip, Observe, ObserveFails, Start, Poll, FlushBatch, FlushFails, Commit,
           CommitFails, SessionLost, Idle, Interrupted, Crash, Refused, Leave, LeaveBroken, Forget,
           InHand, BatchDone, tableVars
      <4> QED
        BY <2>1, <2>5, <4>1, <4>2, DrainedStays DEF StreamLeft
    <3>2. CASE pc # "down" /\ pc' = "down"
      <4>1. CleanExit
        BY <1>2, <2>5, <3>2 DEF StreamStep
      <4> QED
        BY <2>1, <2>5, <3>2, <4>1, CleanExitDrained DEF CleanExit
    <3> QED
      BY <3>1, <3>2
  <2> QED
    BY <1>1, <2>2, <2>4, <2>5 DEF StreamLeft
<1>3. CASE BatchStep \/ CompleteRun \/ Persist \/ UNCHANGED systemVars
  <2>1. UNCHANGED <<topicVars, cursorVars, pc, faults, ended, inspected>>
    BY <1>3, BatchTable DEF BatchStep, CompleteRun, Persist, systemVars, vars, tableVars, watchVars,
       Base
  <2> QED
    BY <1>1, <2>1 DEF StreamLeft, topicVars, cursorVars, Drained
<1> QED
  BY <1>2, <1>3 DEF SystemNext

\* Once the run is drained there is nothing left to observe.
LEMMA NothingToObserve ==
  ASSUME Base, Drained, NEW p \in Partition, InHand(p)
  PROVE  ~RulesOn(Current(p))
<1>1. /\ done[p] \in Nat /\ upto[p] \in Nat /\ committed[p] \in Nat
      /\ committed[p] <= done[p] /\ upto[p] <= hw[p] /\ hw[p] <= Len(Produce[p]) /\ hw[p] \in Nat
      /\ Len(Produce[p]) \in Nat
  BY StreamAssumption DEF Base, PhasesTypeOK, TypeOK
<1>2. done[p] + 1 \in 1..Len(Produce[p]) /\ ~(done[p] + 1 <= committed[p])
  BY <1>1 DEF InHand
<1> QED
  BY <1>2 DEF Drained, Current

\* A stream phase with nothing left to read changes no row.
LEMMA DrainedIdle ==
  ASSUME Base, Drained, buffer = {}, [Next]_vars
  PROVE  findings' = findings /\ buffer' = {}
<1>1. Inserted(findings, {}) = findings
  BY DEF Inserted
<1>2. \A count : Refused({}, count) => findings' = findings
  BY <1>1 DEF Refused
<1>3. CASE \E p \in Partition : Publish(p) \/ Skip(p) \/ Observe(p) \/ ObserveFails(p)
  BY <1>3, NothingToObserve DEF Publish, Skip, Observe, ObserveFails, engineVars, tableVars
<1>4. CASE \/ Start \/ Poll \/ FlushBatch \/ FlushFails \/ Commit \/ CommitFails
           \/ SessionLost \/ Idle \/ Interrupted \/ Crash \/ UNCHANGED vars
  BY <1>1, <1>2, <1>4 DEF Start, Poll, FlushBatch, FlushFails, Commit, CommitFails, SessionLost, Idle,
     Interrupted, Crash, vars, engineVars, tableVars, Accepted, Leave, Forget, Refused, LeaveBroken
<1> QED
  BY <1>3, <1>4 DEF Next

\* The batch phase is let in when the stream phase has left, and only then.
LEMMA LetInStep ==
  ASSUME Base, Handover, [SystemNext]_systemVars, Limit["session"] = 0, ~Overlap
  PROVE  LetIn'
<1>1. CASE StreamStep
  <2>1. Next /\ [Next]_vars
    BY <1>1 DEF StreamStep
  <2>2. UNCHANGED <<published, stored, bpc, ledger, status, cursor, pending, opened>>
    BY <1>1 DEF StreamStep, batchVars
  <2>3. BatchRunning => pc = "down" /\ ended = "ok"
    BY DEF Handover, LetIn
  <2>4. ASSUME BatchRunning
        PROVE  pc' = "down" /\ ended' = "ok" /\ inspected' = inspected
    <3>1. \E p \in Partition : Publish(p)
      BY <1>1, <2>1, <2>3, <2>4 DEF StreamStep, Next, Skip, Observe, ObserveFails, Poll, FlushBatch, FlushFails,
         Commit, CommitFails, SessionLost, Idle, Interrupted, Crash, InHand, BatchDone
    <3> QED
      BY <1>1, <2>3, <2>4, <3>1 DEF Publish, StreamStep, tableVars
  <2>5. BatchRunning' <=> BatchRunning
    BY <2>2 DEF BatchRunning
  <2>6. bpc = "counting" => BatchRunning
    BY DEF BatchRunning
  <2>7. opened => Drained' /\ buffer' = {}
    BY <2>1, DrainedStays, DrainedIdle DEF Handover, LetIn
  <2> QED
    BY <2>2, <2>4, <2>5, <2>6, <2>7 DEF Handover, LetIn
<1>2. CASE BatchStep
  <2>1. /\ UNCHANGED <<hw, committed, pc, buffer, ended, published, inspected>>
        /\ opened' = (opened \/ bpc' = "scan") /\ B!BatchNext
    BY <1>2, BatchTable DEF BatchStep, topicVars, engineVars, Base
  <2>2. UNCHANGED Drained
    BY <2>1 DEF Drained
  <2>3. CASE B!LoadClaims
    BY <1>2, <2>1, <2>2, <2>3 DEF BatchStep, B!LoadClaims, Handover, LetIn, BatchRunning
  <2>4. CASE B!ReadStatus
    BY <2>1, <2>2, <2>4 DEF B!ReadStatus, B!End, Handover, LetIn, BatchRunning
  <2>5. CASE B!CheckPrecondition
    <3>1. bpc' = "scan" => inspected = Published
      BY <2>5 DEF B!CheckPrecondition, B!End, Handover, LetIn
    <3>2. buffer = {} /\ ended = "ok" /\ pc = "down"
      BY <2>5 DEF B!CheckPrecondition, Handover, LetIn, BatchRunning, Base, S!IInv, S!NothingInHand
    <3>3. bpc' = "scan" => Drained
      BY <3>1, <3>2 DEF Handover, StreamLeft
    <3> QED
      BY <2>1, <2>2, <2>5, <3>2, <3>3 DEF B!CheckPrecondition, B!End, Handover, LetIn, BatchRunning
  <2>6. CASE B!Evaluate \/ B!EvaluateFails \/ B!Finish \/ B!FinishFails
    BY <2>1, <2>2, <2>6 DEF B!Evaluate, B!EvaluateFails, B!Finish, B!FinishFails, B!Refused, B!End,
       B!Scanning, Handover, LetIn, BatchRunning
  <2>7. CASE B!Crash \/ B!Rerun
    BY <2>1, <2>2, <2>7 DEF B!Crash, B!Rerun, B!End, Handover, LetIn, BatchRunning
  <2> QED
    BY <2>1, <2>3, <2>4, <2>5, <2>6, <2>7 DEF B!BatchNext
<1>3. CASE CompleteRun
  <2>1. TypeOK
    BY DEF Base, PhasesTypeOK
  <2>2. published = None /\ published' = Published
        /\ UNCHANGED <<hw, committed, pc, buffer, ended, inspected, bpc, status, cursor, pending, opened>>
    BY <1>3, <2>1, CompleteCount DEF CompleteRun, TypeOK, vars, topicVars, engineVars, tableVars,
       batchVars, watchVars
  <2> QED
    BY <2>2 DEF Handover, LetIn, BatchRunning, Drained
<1>4. CASE Persist \/ UNCHANGED systemVars
  <2>1. UNCHANGED <<hw, committed, pc, buffer, ended, inspected, published, bpc, status, cursor, pending,
                    opened>>
    BY <1>4 DEF Persist, systemVars, vars, topicVars, engineVars, tableVars, batchVars, watchVars
  <2> QED
    BY <2>1 DEF Handover, LetIn, BatchRunning, Drained
<1> QED
  BY <1>1, <1>2, <1>3, <1>4 DEF SystemNext

\* So it is at every step of a run without a lost session and without overlap.
LEMMA HandoverInvariant ==
  ASSUME Limit["session"] = 0, ~Overlap
  PROVE  SystemSpec => []Handover
<1>1. SystemInit => Handover
  <2> SUFFICES ASSUME SystemInit
               PROVE  Handover
    OBVIOUS
  <2>1. S!InOrder /\ S!CountIsTrue
    BY StreamInit
  <2> QED
    BY <2>1 DEF SystemInit, Init, B!BatchInit, Handover, StreamLeft, LetIn, BatchRunning, Faults
<1>2. Base /\ Handover /\ [SystemNext]_systemVars => Handover'
  BY StreamLeftStep, LetInStep DEF Handover
<1> QED
  BY <1>1, <1>2, BaseInvariant, PTL DEF SystemSpec

-----------------------------------------------------------------------------
(* Who owns an event once both phases have written.                        *)

\* The stream phase has written a finding of the event.
Early(table, e) == \E f \in table : f.event = e /\ f.rule \in StreamRule

\* The only rule that can own the event from here on.
Owning(table, e) == IF Early(table, e) THEN S!Expected(e) ELSE BatchExpected(e)

Owns(table, rows, e) ==
  \E f \in rows : f.event = e /\ f.rule = Owning(table, e) /\ f.by = None

HasRow(rows, e, r) == \E f \in rows : f.event = e /\ f.rule = r

\* The batch rows of the table name the owner, and the owner's row is there.
BatchSound(table) ==
  \A f \in table : f.rule \in BatchRule =>
    /\ f.by = IF f.rule = Owning(table, f.event) THEN None ELSE Owning(table, f.event)
    /\ Owns(table, table, f.event)

\* Batch rows on their way to the table: one found again may name itself.
BatchBacked(table, rows) ==
  \A f \in rows :
    /\ f.by = None => f.rule = Owning(table, f.event)
    /\ f.by # None => f.by = Owning(table, f.event)
    /\ Owns(table, table \cup rows, f.event)

\* The batch phase accuses events its rules hit, and none that rule 1 should own.
Lawful(table, rows) ==
  \A f \in rows : f.rule \in BatchRule =>
    /\ f.event \in Deviant \cup Impossible
    /\ f.event \in Unknown => Early(table, f.event)

\* The ledger in memory says what the rows say.
LedgerIs(table, rows, c) ==
  \A e \in Event :
    IF c[e] = None
    THEN \A f \in table \cup rows : f.event # e
    ELSE c[e] = Owning(table, e) /\ Owns(table, table \cup rows, e)

\* Every hit of the first n subscribers has its row.
HitsIn(n, rows) ==
  \A i \in 1..n : \A e \in Scan[i] : \A r \in B!Hits(e) : HasRow(rows, e, r)

Verdicts ==
  /\ BatchSound(findings)
  /\ BatchBacked(findings, pending)
  /\ Lawful(findings, findings \cup pending)
  /\ ~opened => \A f \in findings : f.rule \in StreamRule
  /\ BatchRunning => LedgerIs(findings, pending, ledger)
  /\ bpc = "scan" => HitsIn(cursor, findings \cup pending)
  /\ bpc = "done" => HitsIn(Len(Scan), findings)

\* Every row is a stream row or a batch row.
LEMMA RowRules ==
  ASSUME NEW rows, rows \subseteq Finding, NEW f \in rows
  PROVE  (f.rule \in StreamRule \/ f.rule \in BatchRule) /\ f.event \in Event
BY DEF Finding, EventAnchored, Rule, Class, StreamRule, BatchRule, Inventory, Activity, TimeOrder, Velocity

\* The instance's rules are this module's.
LEMMA StreamRules == S!Inventory = Inventory /\ S!TimeOrder = TimeOrder
BY DEF S!Inventory, Inventory, S!TimeOrder, TimeOrder

\* A stream row of the table is the owner's or names the owner (the stream phase's
\* invariant, seen from the composed system).
LEMMA StreamSound ==
  ASSUME Base, NEW f \in findings, f.rule \in StreamRule
  PROVE  /\ f.by = IF f.rule = Owning(findings, f.event) THEN None ELSE Owning(findings, f.event)
         /\ Owns(findings, findings, f.event)
<1>1. f \in StreamRows(findings)
  BY DEF StreamRows
<1>2. /\ f.by = IF f.rule = S!Expected(f.event) THEN None ELSE S!Expected(f.event)
      /\ S!Settled(StreamRows(findings), f.event)
  BY <1>1 DEF Base, S!IInv, S!TableSound, S!Sound
<1>3. Owning(findings, f.event) = S!Expected(f.event)
  BY DEF Owning, Early
<1> QED
  BY <1>2, <1>3 DEF S!Settled, Owns, StreamRows

\* The canonical rule of an event in the table.
LEMMA CanonicalIsOwning ==
  ASSUME Base, BatchSound(findings), NEW e
  PROVE  CanonicalOf(findings, e) = IF \E f \in findings : f.event = e
                                    THEN {Owning(findings, e)} ELSE {}
<1>1. findings \subseteq Finding
  BY DEF Base, PhasesTypeOK, TypeOK
<1>2. ASSUME NEW f \in findings, f.event = e
      PROVE  /\ f.by = None => f.rule = Owning(findings, e)
             /\ Owns(findings, findings, e)
  <2>1. Owning(findings, e) # None
    BY NoneAssumption, BatchOperators, StreamRules DEF Owning, S!Expected, BatchExpected, Inventory, TimeOrder, Activity, Velocity
  <2>2. CASE f.rule \in StreamRule
    BY <1>2, <2>1, <2>2, StreamSound
  <2>3. CASE f.rule \in BatchRule
    BY <1>2, <2>1, <2>3 DEF BatchSound
  <2> QED
    BY <1>1, <2>2, <2>3, RowRules
<1>3. ASSUME \E f \in findings : f.event = e
      PROVE  Owning(findings, e) \in CanonicalOf(findings, e)
  <2>1. Owns(findings, findings, e)
    BY <1>2, <1>3
  <2> QED
    BY <2>1 DEF Owns, CanonicalOf
<1>4. \A r \in CanonicalOf(findings, e) : r = Owning(findings, e) /\ \E f \in findings : f.event = e
  BY <1>2 DEF CanonicalOf
<1> QED
  BY <1>3, <1>4

\* Inserting batch rows does not change whose an event is.
LEMMA OwningStays ==
  ASSUME NEW table, NEW rows, \A f \in rows : f.rule \in BatchRule
  PROVE  \A e : /\ Early(Inserted(table, rows), e) <=> Early(table, e)
                /\ Owning(Inserted(table, rows), e) = Owning(table, e)
BY PhaseRules DEF Inserted, Early, Owning

\* A rule's row in what is inserted is in the table, or another of the same key is.
LEMMA InsertKeepsRow ==
  ASSUME NEW table, NEW rows, NEW e, NEW r, HasRow(table \cup rows, e, r)
  PROVE  HasRow(Inserted(table, rows), e, r)
<1>1. PICK f \in table \cup rows : f.event = e /\ f.rule = r
  BY DEF HasRow
<1>2. f \in Inserted(table, rows) \/ \E g \in table : SameKey(f, g)
  BY <1>1 DEF Inserted
<1> QED
  BY <1>1, <1>2 DEF Inserted, SameKey, HasRow

\* The owner's row stays the owner's.
LEMMA InsertKeepsOwner ==
  ASSUME NEW table, NEW rows, NEW e, \A f \in rows : f.rule \in BatchRule,
         BatchSound(table), Owns(table, table \cup rows, e)
  PROVE  Owns(table, Inserted(table, rows), e)
<1>1. PICK g \in table \cup rows : g.event = e /\ g.rule = Owning(table, e) /\ g.by = None
  BY DEF Owns
<1>2. CASE g \in Inserted(table, rows)
  BY <1>1, <1>2 DEF Owns
<1>3. CASE g \notin Inserted(table, rows)
  <2>1. g \in rows /\ \E h \in table : SameKey(g, h)
    BY <1>1, <1>3 DEF Inserted
  <2>2. PICK h \in table : h.event = e /\ h.rule = Owning(table, e) /\ h.rule \in BatchRule
    BY <1>1, <2>1 DEF SameKey
  <2>3. h.by = None
    BY <2>2 DEF BatchSound
  <2> QED
    BY <2>2, <2>3 DEF Owns, Inserted
<1> QED
  BY <1>2, <1>3

\* A write of the batch phase that row validation lets pass.
LEMMA BatchWriteSound ==
  ASSUME NEW table, NEW rows, \A f \in rows : f.rule \in BatchRule,
         BatchSound(table), BatchBacked(table, rows), Lawful(table, table \cup rows),
         ~Rejected(rows), NEW T, T = Inserted(table, rows)
  PROVE  BatchSound(T) /\ Lawful(T, T)
<1>1. \A e : (Early(T, e) <=> Early(table, e)) /\ Owning(T, e) = Owning(table, e)
  BY OwningStays
<1>2. \A e : Owns(table, table \cup rows, e) => Owns(T, T, e)
  BY <1>1, InsertKeepsOwner DEF Owns
<1>3. Lawful(T, T)
  BY <1>1 DEF Lawful, Inserted
<1>4. ASSUME NEW f \in T, f.rule \in BatchRule
      PROVE  /\ f.by = IF f.rule = Owning(T, f.event) THEN None ELSE Owning(T, f.event)
             /\ Owns(T, T, f.event)
  <2>1. CASE f \in table
    BY <1>1, <1>2, <1>4, <2>1 DEF BatchSound, Owns
  <2>2. CASE f \in rows
    BY <1>1, <1>2, <2>2 DEF BatchBacked, Rejected
  <2> QED
    BY <2>1, <2>2 DEF Inserted
<1> QED
  BY <1>3, <1>4 DEF BatchSound

\* Every hit has its row; the winner's is canonical if the event had no owner.
LEMMA RowOfHit ==
  ASSUME NEW c, NEW e, NEW hits, NEW phase
  PROVE  \A h \in hits : \E f \in Rows(c, e, hits, phase) :
           /\ f.event = e /\ f.rule = h
           /\ h = Winner(c, e, hits) /\ c[e] = None => f.by = None
<1> TAKE h \in hits
<1> DEFINE row == [event |-> e, rule |-> h,
                   by |-> IF h = Winner(c, e, hits) /\ c[e] = None THEN None ELSE Winner(c, e, hits),
                   phase |-> phase]
<1>1. row \in Rows(c, e, hits, phase)
  BY DEF Rows
<1>2. /\ row.event = e /\ row.rule = h
      /\ h = Winner(c, e, hits) /\ c[e] = None => row.by = None
  OBVIOUS
<1> HIDE DEF row
<1> QED
  BY <1>1, <1>2

\* One subscriber's hits, resolved against the ledger (Engine.Evaluate).
LEMMA EvaluateSound ==
  ASSUME Base, Handover, Verdicts, B!Scanning,
         NEW R, R = B!Resolved,
         NEW c, c = [e \in Event |-> IF e \in B!Flagged THEN Winner(ledger, e, B!Hits(e)) ELSE ledger[e]]
  PROVE  /\ \A f \in R : f.rule \in BatchRule
         /\ BatchBacked(findings, R)
         /\ Lawful(findings, findings \cup R)
         /\ LedgerIs(findings, R, c)
         /\ HitsIn(cursor + 1, findings \cup R)
<1>1. /\ opened /\ Drained
      /\ LedgerIs(findings, pending, ledger)
      /\ HitsIn(cursor, findings \cup pending)
  BY DEF B!Scanning, Handover, LetIn, Verdicts, BatchRunning
<1>2. /\ B!Flagged \subseteq Event /\ Scan[cursor + 1] \subseteq Event
      /\ cursor \in Nat /\ cursor + 1 \in 1..Len(Scan) /\ Len(Scan) \in Nat
  BY BatchVerdictTypes, PhasesAssumption DEF Base, PhasesTypeOK, B!BatchTypeOK, B!Scanning, B!BatchConstants
<1>3. \A f \in R : f.rule \in BatchRule
  BY BatchResolved DEF Base
<1>4. pending \subseteq R
  BY DEF B!Resolved
<1>5. \A e : Owning(findings, e) # None
  BY NoneAssumption, BatchOperators, StreamRules
     DEF Owning, S!Expected, BatchExpected, Inventory, TimeOrder, Activity, Velocity
<1>6. ASSUME NEW e \in B!Flagged
      PROVE  /\ B!Hits(e) # {} /\ e \in Scan[cursor + 1] /\ e \in Event
             /\ Winner(ledger, e, B!Hits(e)) = Owning(findings, e)
  <2>1. B!Hits(e) # {} /\ e \in Scan[cursor + 1] /\ e \in Event
    BY <1>2 DEF B!Flagged
  <2>2. CASE ledger[e] = None
    <3>1. ~Early(findings, e)
      BY <1>1, <2>1, <2>2 DEF LedgerIs, Early
    <3> QED
      BY <2>1, <2>2, <3>1, StrongestBatchHit DEF Winner, Owning
  <2>3. CASE ledger[e] # None
    BY <1>1, <2>1, <2>3 DEF Winner, LedgerIs
  <2> QED
    BY <2>1, <2>2, <2>3
<1>7. ASSUME NEW e \in B!Flagged
      PROVE  /\ Rows(ledger, e, B!Hits(e), "batch") \subseteq R
             /\ Owns(findings, findings \cup R, e)
             /\ \A r \in B!Hits(e) : HasRow(findings \cup R, e, r)
  <2>1. Rows(ledger, e, B!Hits(e), "batch") \subseteq R
    BY BatchOperators DEF B!Resolved
  <2>2. \A r \in B!Hits(e) : \E f \in Rows(ledger, e, B!Hits(e), "batch") :
          f.event = e /\ f.rule = r
    BY RowOfHit
  <2>3. Owns(findings, findings \cup R, e)
    <3>1. CASE ledger[e] = None
      <4>1. Owning(findings, e) \in B!Hits(e)
        BY <1>6, <3>1, StrongestBatchHit DEF Winner
      <4>2. \E f \in Rows(ledger, e, B!Hits(e), "batch") :
              f.event = e /\ f.rule = Owning(findings, e) /\ f.by = None
        BY <1>6, <3>1, <4>1, RowOfHit
      <4> QED
        BY <2>1, <4>2 DEF Owns
    <3>2. CASE ledger[e] # None
      BY <1>1, <1>4, <1>6, <3>2 DEF LedgerIs, Owns
    <3> QED
      BY <3>1, <3>2
  <2> QED
    BY <2>1, <2>2, <2>3 DEF HasRow
<1>8. ASSUME NEW e \in B!Flagged, NEW f \in Rows(ledger, e, B!Hits(e), "batch")
      PROVE  /\ f.event = e
             /\ f.by = None => f.rule = Owning(findings, e)
             /\ f.by # None => f.by = Owning(findings, e)
             /\ e \in Deviant \cup Impossible
             /\ e \in Unknown => Early(findings, e)
  <2>1. /\ f.event = e
        /\ f.by = None => f.rule = Owning(findings, e)
        /\ f.by # None => f.by = Owning(findings, e)
    BY <1>5, <1>6 DEF Rows
  <2>2. e \in Deviant \cup Impossible
    BY <1>6, StrongestBatchHit
  <2>3. ASSUME e \in Unknown
        PROVE  Early(findings, e)
    <3>1. PICK p \in Partition : \E j \in 1..Len(Produce[p]) : Produce[p][j] = e /\ RulesOn(e)
      BY <1>2, <1>6, ScanAssumption, PhasesAssumption DEF B!BatchConstants
    <3>2. PICK j \in 1..Len(Produce[p]) : Produce[p][j] = e /\ RulesOn(e)
      BY <3>1
    <3>3. j \in 1..committed[p]
      BY <1>1, <3>2, StreamAssumption DEF Drained, Base, PhasesTypeOK, TypeOK
    <3>4. S!Settled(StreamRows(findings), e)
      BY <2>2, <2>3, <3>2, <3>3, ScanAssumption DEF Base, S!IInv, S!CommittedSafe, S!SafeUpTo
    <3> QED
      BY <3>4 DEF S!Settled, StreamRows, Early
  <2> QED
    BY <2>1, <2>2, <2>3
<1>9. R = pending \cup UNION {Rows(ledger, e, B!Hits(e), "batch") : e \in B!Flagged}
  BY BatchOperators DEF B!Resolved
<1>10. BatchBacked(findings, R)
  <2>1. ASSUME NEW f \in pending
        PROVE  /\ f.by = None => f.rule = Owning(findings, f.event)
               /\ f.by # None => f.by = Owning(findings, f.event)
               /\ Owns(findings, findings \cup R, f.event)
    BY <1>4 DEF Verdicts, BatchBacked, Owns
  <2>2. ASSUME NEW e \in B!Flagged, NEW f \in Rows(ledger, e, B!Hits(e), "batch")
        PROVE  /\ f.by = None => f.rule = Owning(findings, f.event)
               /\ f.by # None => f.by = Owning(findings, f.event)
               /\ Owns(findings, findings \cup R, f.event)
    BY <1>7, <1>8
  <2> QED
    BY <1>9, <2>1, <2>2 DEF BatchBacked
<1>11. Lawful(findings, findings \cup R)
  <2>1. Lawful(findings, findings \cup pending)
    BY DEF Verdicts
  <2>2. \A e \in B!Flagged : \A f \in Rows(ledger, e, B!Hits(e), "batch") :
          f.event \in Deviant \cup Impossible /\ (f.event \in Unknown => Early(findings, f.event))
    BY <1>8
  <2> QED
    BY <1>9, <2>1, <2>2 DEF Lawful
<1>12. LedgerIs(findings, R, c)
  <2>1. ASSUME NEW e \in Event, e \in B!Flagged
        PROVE  c[e] # None /\ c[e] = Owning(findings, e) /\ Owns(findings, findings \cup R, e)
    BY <1>5, <1>6, <1>7, <2>1
  <2>2. ASSUME NEW e \in Event, e \notin B!Flagged
        PROVE  IF c[e] = None
               THEN \A f \in findings \cup R : f.event # e
               ELSE c[e] = Owning(findings, e) /\ Owns(findings, findings \cup R, e)
    <3>1. c[e] = ledger[e]
      BY <2>2
    <3>2. \A f \in R : f \in pending \/ f.event # e
      BY <1>8, <1>9, <2>2
    <3>3. Owns(findings, findings \cup pending, e) => Owns(findings, findings \cup R, e)
      BY <1>4 DEF Owns
    <3> QED
      BY <1>1, <3>1, <3>2, <3>3 DEF LedgerIs
  <2> QED
    BY <2>1, <2>2 DEF LedgerIs
<1>13. HitsIn(cursor + 1, findings \cup R)
  <2>1. ASSUME NEW i \in 1..(cursor + 1), NEW e \in Scan[i], NEW r \in B!Hits(e)
        PROVE  HasRow(findings \cup R, e, r)
    <3>1. CASE i \in 1..cursor
      BY <1>1, <1>4, <2>1, <3>1 DEF HitsIn, HasRow
    <3>2. CASE i = cursor + 1
      <4>1. e \in B!Flagged
        BY <2>1, <3>2 DEF B!Flagged
      <4> QED
        BY <1>7, <2>1, <4>1
    <3> QED
      BY <1>2, <2>1, <3>1, <3>2
  <2> QED
    BY <2>1 DEF HitsIn
<1> QED
  BY <1>3, <1>10, <1>11, <1>12, <1>13

\* While the batch process is at work, the stream phase is quiet.
LEMMA StreamQuiet ==
  ASSUME Base, Handover, StreamStep, ~Overlap, BatchRunning
  PROVE  findings' = findings
<1>1. pc = "down"
  BY DEF Handover, LetIn
<1>2. \E p \in Partition : Publish(p)
  BY <1>1 DEF StreamStep, Next, Skip, Observe, ObserveFails, Poll, FlushBatch, FlushFails,
     Commit, CommitFails, SessionLost, Idle, Interrupted, Crash, InHand, BatchDone
<1> QED
  BY <1>2 DEF Publish, tableVars

\* A step of the stream phase keeps the verdicts of the batch phase.
LEMMA VerdictsByStream ==
  ASSUME Base, Handover, Verdicts, StreamStep, ~Overlap
  PROVE  Verdicts'
<1>1. UNCHANGED <<bpc, ledger, cursor, pending, opened>>
  BY DEF StreamStep, batchVars
<1>2. [Next]_vars /\ StreamBuffer
  BY DEF StreamStep, Base
<1>3. CASE findings' = findings
  BY <1>1, <1>3 DEF Verdicts, BatchRunning
<1>4. CASE findings' # findings
  <2>1. ~opened /\ ~BatchRunning
    BY <1>2, <1>4, DrainedIdle, StreamQuiet DEF Handover, LetIn
  <2>2. bpc # "scan" /\ bpc # "done" /\ pending = {}
    BY <2>1 DEF Handover, LetIn
  <2>3. \A f \in findings' : f.rule \in StreamRule
    BY <1>2, <2>1, StreamTable DEF Verdicts, Inserted
  <2>4. \A f \in findings' \cup {} : f.rule \notin BatchRule
    BY <2>3, PhaseRules
  <2>5. BatchSound(findings') /\ Lawful(findings', findings' \cup {})
    BY <2>4 DEF BatchSound, Lawful
  <2>6. BatchBacked(findings', {})
    BY DEF BatchBacked
  <2> QED
    BY <1>1, <2>1, <2>2, <2>3, <2>5, <2>6 DEF Verdicts, BatchRunning
<1> QED
  BY <1>3, <1>4

\* A write that fails, done or undone, ends the process.
LEMMA VerdictsByRefusal ==
  ASSUME Base, Handover, Verdicts, opened, opened',
         NEW rows, \A f \in rows : f.rule \in BatchRule,
         BatchBacked(findings, rows), Lawful(findings, findings \cup rows), B!Refused(rows)
  PROVE  Verdicts'
<1>1. bpc' \in {"down", "rejected"} /\ pending' = {}
  BY DEF B!Refused, B!End
<1>2. BatchSound(findings') /\ Lawful(findings', findings')
  <2>1. CASE findings' = findings
    BY <2>1 DEF Verdicts, Lawful
  <2>2. CASE ~Rejected(rows) /\ findings' = Inserted(findings, rows)
    <3>1. BatchSound(findings)
      BY DEF Verdicts
    <3> QED
      BY <2>2, <3>1, BatchWriteSound
  <2> QED
    BY <2>1, <2>2, BatchOperators DEF B!Refused
<1>3. BatchBacked(findings', {}) /\ findings' \cup {} = findings'
  BY DEF BatchBacked
<1> QED
  BY <1>1, <1>2, <1>3 DEF Verdicts, BatchRunning

\* A step of the batch phase keeps its verdicts.
LEMMA VerdictsByBatch ==
  ASSUME Base, Handover, Verdicts, BatchStep
  PROVE  Verdicts'
<1>1. B!BatchNext /\ opened' = (opened \/ bpc' = "scan")
  BY DEF BatchStep
<1>2. opened \in BOOLEAN /\ findings \subseteq Finding /\ ledger \in Claims
  BY BatchOperators DEF Base, PhasesTypeOK, TypeOK, B!BatchTypeOK
<1>3. BatchSound(findings) /\ BatchBacked(findings, pending) /\ Lawful(findings, findings \cup pending)
  BY DEF Verdicts
<1>4. BatchBacked(findings, {}) /\ findings \cup {} = findings /\ Lawful(findings, findings)
  BY <1>3 DEF BatchBacked, Lawful
<1>5. bpc \in {"scan", "done"} => opened
  BY DEF Handover, LetIn
<1>6. bpc # "scan" => pending = {} /\ cursor = 0
  BY DEF Handover, LetIn
<1>7. CASE B!LoadClaims
  <2>1. /\ bpc' = "loaded" /\ findings' = findings /\ pending' = {} /\ pending = {}
        /\ ledger' \in Claims
        /\ \A e \in Event : IF CanonicalOf(findings, e) = {} THEN ledger'[e] = None
                            ELSE ledger'[e] \in CanonicalOf(findings, e)
    BY <1>6, <1>7, BatchOperators DEF B!LoadClaims
  <2>2. ASSUME NEW e \in Event
        PROVE  IF ledger'[e] = None
               THEN \A f \in findings : f.event # e
               ELSE ledger'[e] = Owning(findings, e) /\ Owns(findings, findings, e)
    <3>1. Owning(findings, e) # None
      BY NoneAssumption, BatchOperators, StreamRules
         DEF Owning, S!Expected, BatchExpected, Inventory, TimeOrder, Activity, Velocity
    <3>2. CASE \E f \in findings : f.event = e
      <4>1. ledger'[e] = Owning(findings, e) /\ Owning(findings, e) \in CanonicalOf(findings, e)
        BY <1>3, <2>1, <3>2, CanonicalIsOwning
      <4>2. Owns(findings, findings, e)
        BY <4>1 DEF CanonicalOf, Owns
      <4> QED
        BY <3>1, <4>1, <4>2
    <3>3. CASE ~\E f \in findings : f.event = e
      BY <1>3, <2>1, <3>3, CanonicalIsOwning
    <3> QED
      BY <3>2, <3>3
  <2>3. LedgerIs(findings, {}, ledger')
    BY <1>4, <2>2 DEF LedgerIs
  <2>4. ~opened' => ~opened
    BY <1>1
  <2> QED
    BY <1>3, <1>4, <2>1, <2>3, <2>4 DEF Verdicts
<1>8. CASE B!ReadStatus \/ B!CheckPrecondition \/ B!Crash \/ B!Rerun
  <2>1. /\ findings' = findings /\ (pending' = {} \/ pending' = pending)
        /\ bpc' # "done"
        /\ bpc' \in {"counting", "scan"} => bpc \in {"loaded", "counting"} /\ UNCHANGED <<ledger, cursor, pending>>
        /\ bpc' # "loaded"
    BY <1>8 DEF B!ReadStatus, B!CheckPrecondition, B!Crash, B!Rerun, B!End
  <2>2. BatchBacked(findings, pending') /\ Lawful(findings, findings \cup pending')
    BY <1>3, <1>4, <2>1
  <2>3. bpc \in {"loaded", "counting"} => LedgerIs(findings, pending, ledger)
    BY DEF Verdicts, BatchRunning
  <2>4. bpc' = "scan" => cursor' = 0
    BY <1>6, <2>1
  <2>5. HitsIn(0, findings \cup pending')
    BY DEF HitsIn
  <2> QED
    BY <1>1, <1>3, <2>1, <2>2, <2>3, <2>4, <2>5 DEF Verdicts, BatchRunning
<1>9. CASE B!Evaluate \/ B!EvaluateFails
  <2> DEFINE R == B!Resolved
             c == [e \in Event |-> IF e \in B!Flagged THEN Winner(ledger, e, B!Hits(e)) ELSE ledger[e]]
  <2>1. B!Scanning /\ opened /\ opened'
    BY <1>1, <1>5, <1>9 DEF B!Evaluate, B!EvaluateFails, B!Scanning
  <2>2. /\ \A f \in R : f.rule \in BatchRule
        /\ BatchBacked(findings, R) /\ Lawful(findings, findings \cup R)
        /\ LedgerIs(findings, R, c) /\ HitsIn(cursor + 1, findings \cup R)
    BY <2>1, EvaluateSound
  <2>3. CASE B!EvaluateFails
    <3>1. B!Refused(R)
      BY <2>3 DEF B!EvaluateFails
    <3> HIDE DEF R
    <3> QED
      BY <2>1, <2>2, <3>1, VerdictsByRefusal
  <2>4. CASE B!Evaluate
    <3>1. ledger' = c /\ cursor' = cursor + 1 /\ bpc' = "scan"
      BY <2>1, <2>4, BatchOperators DEF B!Evaluate, B!Scanning
    <3>2. \/ pending' = R /\ findings' = findings
          \/ ~Rejected(R) /\ findings' = Inserted(findings, R) /\ pending' = {}
      BY <2>4, BatchOperators DEF B!Evaluate, B!Accepted
    <3> HIDE DEF R, c
    <3>3. CASE pending' = R /\ findings' = findings
      BY <1>3, <2>1, <2>2, <3>1, <3>3 DEF Verdicts
    <3>4. CASE ~Rejected(R) /\ findings' = Inserted(findings, R) /\ pending' = {}
      <4>1. BatchSound(findings') /\ Lawful(findings', findings')
        BY <1>3, <2>2, <3>4, BatchWriteSound
      <4>2. LedgerIs(findings', {}, c)
        <5>1. ASSUME NEW e \in Event
              PROVE  IF c[e] = None
                     THEN \A f \in findings' \cup {} : f.event # e
                     ELSE c[e] = Owning(findings', e) /\ Owns(findings', findings' \cup {}, e)
          <6>1. Owning(findings', e) = Owning(findings, e)
            BY <2>2, <3>4, OwningStays
          <6>2. Owns(findings, findings \cup R, e) => Owns(findings', findings' \cup {}, e)
            BY <1>3, <2>2, <3>4, <6>1, InsertKeepsOwner DEF Owns
          <6>3. findings' \subseteq findings \cup R
            BY <3>4 DEF Inserted
          <6> QED
            BY <2>2, <6>1, <6>2, <6>3 DEF LedgerIs
        <5> QED
          BY <5>1 DEF LedgerIs
      <4>3. HitsIn(cursor + 1, findings' \cup {})
        <5>1. \A e, r : HasRow(findings \cup R, e, r) => HasRow(findings' \cup {}, e, r)
          BY <3>4, InsertKeepsRow
        <5> QED
          BY <2>2, <5>1 DEF HitsIn
      <4>4. BatchBacked(findings', {}) /\ findings' \cup {} = findings'
        BY DEF BatchBacked
      <4> QED
        BY <2>1, <3>1, <3>4, <4>1, <4>2, <4>3, <4>4 DEF Verdicts
    <3> QED
      BY <3>2, <3>3, <3>4
  <2> QED
    BY <1>9, <2>3, <2>4
<1>10. CASE B!Finish \/ B!FinishFails
  <2>1. bpc = "scan" /\ cursor = Len(Scan) /\ opened /\ opened'
    BY <1>1, <1>5, <1>10 DEF B!Finish, B!FinishFails
  <2>2. \A f \in pending : f.rule \in BatchRule
    BY DEF Base, BatchRows
  <2>3. CASE B!FinishFails
    BY <1>3, <2>1, <2>2, <2>3, VerdictsByRefusal DEF B!FinishFails
  <2>4. CASE B!Finish
    <3>1. ~Rejected(pending) /\ findings' = Inserted(findings, pending) /\ pending' = {} /\ bpc' = "done"
      BY <2>4, BatchOperators DEF B!Finish, B!Accepted, B!End
    <3>2. BatchSound(findings') /\ Lawful(findings', findings')
      BY <1>3, <2>2, <3>1, BatchWriteSound
    <3>3. HitsIn(Len(Scan), findings')
      <4>1. HitsIn(Len(Scan), findings \cup pending)
        BY <2>1 DEF Verdicts
      <4>2. \A e, r : HasRow(findings \cup pending, e, r) => HasRow(findings', e, r)
        BY <3>1, InsertKeepsRow
      <4> QED
        BY <4>1, <4>2 DEF HitsIn
    <3>4. BatchBacked(findings', {}) /\ findings' \cup {} = findings'
      BY DEF BatchBacked
    <3> QED
      BY <2>1, <3>1, <3>2, <3>3, <3>4 DEF Verdicts, BatchRunning
  <2> QED
    BY <1>10, <2>3, <2>4
<1> QED
  BY <1>1, <1>7, <1>8, <1>9, <1>10 DEF B!BatchNext

\* Every step keeps them.
LEMMA VerdictsStep ==
  ASSUME Base, Handover, Verdicts, [SystemNext]_systemVars, ~Overlap
  PROVE  Verdicts'
<1>1. CASE CompleteRun \/ Persist \/ UNCHANGED systemVars
  <2>1. UNCHANGED <<findings, pending, ledger, cursor, bpc, opened>>
    BY <1>1 DEF CompleteRun, Persist, systemVars, vars, tableVars, batchVars, watchVars
  <2> QED
    BY <2>1 DEF Verdicts, BatchRunning
<1> QED
  BY <1>1, VerdictsByStream, VerdictsByBatch DEF SystemNext

\* The verdicts hold at every step of such a run.
LEMMA VerdictsInvariant ==
  ASSUME Limit["session"] = 0, ~Overlap
  PROVE  SystemSpec => []Verdicts
<1>1. SystemInit => Verdicts
  BY DEF SystemInit, Init, B!BatchInit, Verdicts, BatchSound, BatchBacked, Lawful, BatchRunning
<1>2. Base /\ Handover /\ Verdicts /\ [SystemNext]_systemVars => Verdicts'
  BY VerdictsStep
<1> QED
  BY <1>1, <1>2, BaseInvariant, HandoverInvariant, PTL DEF SystemSpec

\* Records with an unknown cell are rule 1's once the run is drained.
LEMMA InventoryOwns ==
  ASSUME Base, Drained, BatchSound(findings), NEW i \in DOMAIN Scan, NEW e \in Scan[i],
         e \in Unknown, Kind[e] = "own"
  PROVE  CanonicalOf(findings, e) = {Inventory}
<1>1. PICK p \in Partition : \E j \in 1..Len(Produce[p]) : Produce[p][j] = e /\ RulesOn(e)
  BY ScanAssumption
<1>2. PICK j \in 1..Len(Produce[p]) : Produce[p][j] = e /\ RulesOn(e)
  BY <1>1
<1>3. j \in 1..committed[p]
  BY <1>2, StreamAssumption DEF Drained, Base, PhasesTypeOK, TypeOK
<1>4. S!Settled(StreamRows(findings), e)
  BY <1>2, <1>3 DEF Base, S!IInv, S!CommittedSafe, S!SafeUpTo
<1>5. \E f \in findings : f.event = e /\ f.rule \in StreamRule
  BY <1>4 DEF S!Settled, StreamRows
<1>6. Owning(findings, e) = Inventory
  BY <1>5, StreamRules DEF Owning, Early, S!Expected
<1> QED
  BY <1>5, <1>6, CanonicalIsOwning

\* A batch phase that reports success has judged the complete run
\* (cmd/integrity/main.go runBatch, internal/integrity/source/batch.go).
THEOREM VerdictIsComplete ==
  ASSUME Limit["session"] = 0, ~Overlap
  PROVE  SystemSpec => []VerdictComplete
<1>1. Base /\ Handover /\ Verdicts => VerdictComplete
  <2> SUFFICES ASSUME Base, Handover, Verdicts, bpc = "done",
                      NEW i \in DOMAIN Scan, NEW e \in Scan[i]
               PROVE  /\ e \in Unknown /\ Kind[e] = "own" => CanonicalOf(findings, e) = {Inventory}
                      /\ \A r \in B!Hits(e) : \E f \in findings : f.event = e /\ f.rule = r
    BY DEF VerdictComplete
  <2>1. e \in Unknown /\ Kind[e] = "own" => CanonicalOf(findings, e) = {Inventory}
    BY InventoryOwns DEF Handover, LetIn, Verdicts
  <2>2. i \in 1..Len(Scan)
    BY PhasesAssumption DEF B!BatchConstants
  <2>3. HitsIn(Len(Scan), findings)
    BY DEF Verdicts
  <2> QED
    BY <2>1, <2>2, <2>3 DEF HitsIn, HasRow
<1> QED
  BY <1>1, BaseInvariant, HandoverInvariant, VerdictsInvariant, PTL

-----------------------------------------------------------------------------
(* The two phases implement the claim ledger, step by step.                *)

\* The events with a finding, and their owner.
LEMMA OwnerIs ==
  ASSUME Base, BatchSound(findings), NEW e \in Event
  PROVE  Owner[e] = IF \E f \in findings : f.event = e THEN Owning(findings, e) ELSE None
<1>1. CASE \E f \in findings : f.event = e
  <2>1. CanonicalOf(findings, e) = {Owning(findings, e)}
    BY <1>1, CanonicalIsOwning
  <2>2. \A x : (CHOOSE r \in {x} : TRUE) = x
    OBVIOUS
  <2>3. Owner[e] = CHOOSE r \in {Owning(findings, e)} : TRUE
    BY <2>1 DEF Owner
  <2> QED
    BY <1>1, <2>2, <2>3
<1>2. CASE ~\E f \in findings : f.event = e
  <2>1. CanonicalOf(findings, e) = {}
    BY <1>2, CanonicalIsOwning
  <2> QED
    BY <1>2, <2>1 DEF Owner
<1> QED
  BY <1>1, <1>2

\* The ledger's rules are this module's.
LEMMA LedgerRules ==
  /\ L!Inventory = Inventory /\ L!TimeOrder = TimeOrder
  /\ L!Activity = Activity /\ L!Velocity = Velocity
BY DEF L!Inventory, Inventory, L!TimeOrder, TimeOrder, L!Activity, Activity, L!Velocity, Velocity

OwnerTrue ==
  \A e \in Event :
    Owner[e] = IF \E f \in findings : f.event = e THEN Owning(findings, e) ELSE None

\* The owner of an event is a rule anchored on it.
LEMMA OwningAnchored ==
  \A table, e : Owning(table, e) \in EventAnchored /\ Owning(table, e) # None
<1>1. \A table, e : Owning(table, e) \in {1, 2, 3, 5}
  BY BatchOperators, StreamRules DEF Owning, S!Expected, BatchExpected, Inventory, TimeOrder, Activity, Velocity
<1>2. {1, 2, 3, 5} \subseteq EventAnchored
  BY DEF EventAnchored, Rule, Class, Inventory, TimeOrder, Activity, Velocity
<1> QED
  BY <1>1, <1>2, NoneAssumption

\* The owner is a rule or nobody.
LEMMA OwnerTyped ==
  /\ OwnerTrue => Owner \in [Event -> EventAnchored \cup {None}]
  /\ OwnerTrue' => Owner' \in [Event -> EventAnchored \cup {None}]
<1>1. Owner = [e \in Event |-> Owner[e]] /\ Owner' = [e \in Event |-> Owner'[e]]
  BY DEF Owner
<1> HIDE DEF Owner
<1>2. ASSUME OwnerTrue
      PROVE  \A e \in Event : Owner[e] \in EventAnchored \cup {None}
  BY <1>2, OwningAnchored DEF OwnerTrue
<1>3. ASSUME OwnerTrue'
      PROVE  \A e \in Event : Owner'[e] \in EventAnchored \cup {None}
  BY <1>3, OwningAnchored DEF OwnerTrue
<1> QED
  BY <1>1, <1>2, <1>3

Stage == IF opened THEN "batch" ELSE "stream"

\* A change of the table changes owners as the open phase may.
LEMMA StreamSettling ==
  ASSUME Verdicts, Verdicts', OwnerTrue, OwnerTrue', ~opened, ~opened',
         findings \subseteq findings'
  PROVE  L!StreamSettles \/ UNCHANGED <<Owner, Stage>>
<1> DEFINE E == {e \in Event : Owner'[e] # Owner[e]}
<1>1. /\ Owner \in [Event -> EventAnchored \cup {None}]
      /\ Owner' \in [Event -> EventAnchored \cup {None}]
  BY OwnerTyped
<1>2. (\A f \in findings : f.rule \in StreamRule) /\ (\A f \in findings' : f.rule \in StreamRule)
  BY DEF Verdicts
<1>3. ASSUME NEW e \in E
      PROVE  Owner[e] = None /\ Owner'[e] = L!StreamVerdict[e]
  <2>1. /\ Owner[e] = IF \E f \in findings : f.event = e THEN Owning(findings, e) ELSE None
        /\ Owner'[e] = IF \E f \in findings' : f.event = e THEN Owning(findings', e) ELSE None
    BY DEF OwnerTrue
  <2>2. /\ (\E f \in findings : f.event = e) => Owning(findings, e) = S!Expected(e)
        /\ (\E f \in findings' : f.event = e) => Owning(findings', e) = S!Expected(e)
    BY <1>2 DEF Owning, Early
  <2>3. ~\E f \in findings : f.event = e
    BY <2>1, <2>2
  <2>4. \E f \in findings' : f.event = e
    BY <2>1, <2>3
  <2>5. S!Expected(e) = L!StreamVerdict[e]
    BY StreamRules, LedgerRules DEF S!Expected, L!StreamVerdict
  <2> QED
    BY <2>1, <2>2, <2>3, <2>4, <2>5
<1>4. CASE E = {}
  <2>1. Owner' = Owner
    BY <1>1, <1>4
  <2> QED
    BY <2>1 DEF Stage
<1>5. CASE E # {}
  <2>1. E \in SUBSET (L!Unowned \cap Event)
    BY <1>3 DEF L!Unowned
  <2>2. Owner' = [e \in Event |-> IF e \in E THEN L!StreamVerdict[e] ELSE Owner[e]]
    BY <1>1, <1>3
  <2> HIDE DEF E
  <2> QED
    BY <1>5, <2>1, <2>2 DEF L!StreamSettles, L!Settle
<1> QED
  BY <1>4, <1>5

\* A step of the batch phase settles events nobody owned.
LEMMA BatchSettling ==
  ASSUME Verdicts, Verdicts', OwnerTrue, OwnerTrue', opened, opened',
         NEW rows, \A f \in rows : f.rule \in BatchRule, findings' = Inserted(findings, rows)
  PROVE  L!BatchSettles \/ UNCHANGED <<Owner, Stage>>
<1> DEFINE E == {e \in Event : Owner'[e] # Owner[e]}
           could == (Deviant \cup Impossible) \ Unknown
<1>1. /\ Owner \in [Event -> EventAnchored \cup {None}]
      /\ Owner' \in [Event -> EventAnchored \cup {None}]
  BY OwnerTyped
<1>2. \A e : (Early(findings', e) <=> Early(findings, e)) /\ Owning(findings', e) = Owning(findings, e)
  BY OwningStays
<1>3. ASSUME NEW e \in E
      PROVE  Owner[e] = None /\ Owner'[e] = L!BatchVerdict[e] /\ e \in could
  <2>1. /\ Owner[e] = IF \E f \in findings : f.event = e THEN Owning(findings, e) ELSE None
        /\ Owner'[e] = IF \E f \in findings' : f.event = e THEN Owning(findings', e) ELSE None
    BY DEF OwnerTrue
  <2>2. ~\E f \in findings : f.event = e
    BY <1>2, <2>1 DEF Inserted
  <2>3. PICK f \in findings' : f.event = e
    BY <2>1, <2>2
  <2>4. f.rule \in BatchRule
    BY <2>2, <2>3 DEF Inserted
  <2>5. ~Early(findings, e)
    BY <2>2 DEF Early
  <2>6. e \in could
    BY <1>2, <2>3, <2>4, <2>5 DEF Verdicts, Lawful
  <2>7. BatchExpected(e) = L!BatchVerdict[e]
    BY LedgerRules DEF BatchExpected, L!BatchVerdict
  <2> QED
    BY <1>2, <2>1, <2>2, <2>3, <2>5, <2>6, <2>7 DEF Owning
<1>4. CASE E = {}
  <2>1. Owner' = Owner
    BY <1>1, <1>4
  <2> QED
    BY <2>1 DEF Stage
<1>5. CASE E # {}
  <2>1. E \in SUBSET (L!Unowned \cap could)
    BY <1>3 DEF L!Unowned
  <2>2. Owner' = [e \in Event |-> IF e \in E THEN L!BatchVerdict[e] ELSE Owner[e]]
    BY <1>1, <1>3
  <2> HIDE DEF E
  <2> QED
    BY <1>5, <2>1, <2>2 DEF L!BatchSettles, L!Settle
<1> QED
  BY <1>4, <1>5

\* A batch step that writes was let in before.
LEMMA WritesOpened ==
  ASSUME Handover, BatchStep, findings' # findings
  PROVE  opened
<1>1. bpc = "scan"
  BY DEF BatchStep, B!BatchNext, B!LoadClaims, B!ReadStatus, B!CheckPrecondition, B!Evaluate,
     B!EvaluateFails, B!Finish, B!FinishFails, B!Crash, B!Rerun, B!Scanning
<1> QED
  BY <1>1 DEF Handover, LetIn

\* Every step of the phases is a step of the ledger, or a stutter.
LEMMA LedgerStep ==
  ASSUME Base, Base', Handover, Verdicts, Verdicts', OwnerTrue, OwnerTrue', [SystemNext]_systemVars, ~Overlap
  PROVE  [L!LedgerNext]_<<Owner, Stage>>
<1>0. opened \in BOOLEAN /\ opened' \in BOOLEAN
  BY DEF Base, PhasesTypeOK
<1>1. CASE findings' = findings
  <2>1. Owner' = Owner
    BY <1>1 DEF Owner, CanonicalOf
  <2>2. opened => opened'
    BY DEF SystemNext, StreamStep, BatchStep, CompleteRun, Persist, systemVars, watchVars
  <2>3. CASE opened' = opened
    BY <2>1, <2>3 DEF Stage
  <2>4. CASE ~opened /\ opened'
    BY <2>1, <2>4 DEF L!LedgerNext, L!Close
  <2> QED
    BY <1>0, <2>2, <2>3, <2>4
<1>2. CASE findings' # findings
  <2>1. StreamStep \/ BatchStep
    BY <1>2 DEF SystemNext, CompleteRun, Persist, systemVars, vars, tableVars
  <2>2. CASE StreamStep
    <3>1. [Next]_vars /\ StreamBuffer /\ opened' = opened
      BY <2>2 DEF StreamStep, Base
    <3>2. ~opened /\ ~opened'
      BY <1>2, <3>1, DrainedIdle DEF Handover, LetIn
    <3>3. findings \subseteq findings'
      BY <3>1, StreamTable DEF Inserted
    <3>4. L!StreamSettles \/ UNCHANGED <<Owner, Stage>>
      BY <3>2, <3>3, StreamSettling
    <3> QED
      BY <3>4 DEF L!LedgerNext
  <2>3. CASE BatchStep
    <3>1. opened /\ opened'
      BY <1>2, <2>3, WritesOpened DEF BatchStep
    <3>2. \E rows : (\A f \in rows : f.rule \in BatchRule) /\ findings' = Inserted(findings, rows)
      BY <1>2, <2>3, BatchTable DEF BatchStep, Base
    <3>3. L!BatchSettles \/ UNCHANGED <<Owner, Stage>>
      BY <3>1, <3>2, BatchSettling
    <3> QED
      BY <3>3 DEF L!LedgerNext
  <2> QED
    BY <2>1, <2>2, <2>3
<1> QED
  BY <1>1, <1>2

\* ADR-28/2, 28/6, 28/7: the stream phase claims first and by rule strength; once a
\* batch process was let in it never claims again; the batch phase claims only events
\* nobody owns, and no owner is ever replaced (detector/engine.go, cmd/integrity/main.go).
THEOREM PhasesImplementLedger ==
  ASSUME Limit["session"] = 0, ~Overlap
  PROVE  SystemSpec => ImplementsLedger
<1>1. SystemInit => L!LedgerInit
  BY DEF SystemInit, Init, L!LedgerInit, Owner, CanonicalOf
<1>2. Base /\ Verdicts => OwnerTrue
  BY OwnerIs DEF OwnerTrue, Verdicts
<1>3. /\ Base /\ Base' /\ Handover /\ Verdicts /\ Verdicts' /\ OwnerTrue /\ OwnerTrue'
      /\ [SystemNext]_systemVars
      => [L!LedgerNext]_<<Owner, Stage>>
  BY LedgerStep
<1>4. [L!LedgerNext]_<<Owner, Stage>> =>
        [L!LedgerNext]_<<Owner, IF opened THEN "batch" ELSE "stream">>
  BY DEF Stage
<1> QED
  BY <1>1, <1>2, <1>3, <1>4, BaseInvariant, HandoverInvariant, VerdictsInvariant, PTL
     DEF SystemSpec, ImplementsLedger, L!Ledger
====
