--------------------------- MODULE IntegrityPhases ---------------------------
(***************************************************************************)
(* The two phases of the integrity service together, with the two other    *)
(* writers their handover depends on: the simulator, which completes the   *)
(* run (published_events), and the records persister, which fills          *)
(* hts_records. They meet only in the database: the findings table carries *)
(* the claims from the stream phase to the batch phase, and the counters   *)
(* tell the batch phase that the stream phase is through.                  *)
(***************************************************************************)
EXTENDS IntegrityStream

CONSTANTS
  Scan, Deviant, Impossible, BatchLimit,
  Overlap   \* may the phases run at the same time? FALSE: the order of
            \* scripts/run-integrity.sh and of HTS_INTEGRITY_MODE=all

VARIABLES
  published, stored,                              \* shared counters
  bpc, ledger, status, cursor, pending, bfaults,  \* the batch process
  ended,   \* how the last stream process ended: "never", "ok", "error"
  opened   \* history: a batch process has passed its preconditions

B == INSTANCE IntegrityBatch

ASSUME PhasesAssumption == B!BatchConstants /\ Overlap \in BOOLEAN

\* The batch phase reads hts_records, which the persister fills from the same
\* topic; and like the stream rules', its hits are those that survive normalise.
ASSUME ScanAssumption ==
  /\ \A i \in DOMAIN Scan : \A e \in Scan[i] :
       \E p \in Partition : \E j \in 1..Len(Produce[p]) :
         Produce[p][j] = e /\ RulesOn(e)
  /\ \A e \in Deviant \cup Impossible : Kind[e] = "own"

batchVars == <<bpc, ledger, status, cursor, pending, bfaults>>
watchVars == <<ended, opened>>
systemVars == <<vars, published, stored, batchVars, watchVars>>

-----------------------------------------------------------------------------
SystemInit ==
  /\ Init
  /\ B!BatchInit
  /\ published = None
  /\ stored = 0
  /\ ended = "never"
  /\ opened = FALSE

\* This run's records in the topic so far.
InTopic ==
  Cardinality({at \in Partition \X Offset :
                 at[2] \in 1..hw[at[1]] /\ RulesOn(Produce[at[1]][at[2]])})

\* simulator: the tick loop is over and CompleteRun declares the count.
CompleteRun ==
  /\ published = None
  /\ \A p \in Partition : hw[p] = Len(Produce[p])
  /\ published' = InTopic
  /\ UNCHANGED <<vars, stored, batchVars, watchVars>>

\* records persister: one more chunk is in hts_records.
Persist ==
  /\ stored < InTopic
  /\ stored' \in (stored + 1)..InTopic
  /\ UNCHANGED <<vars, published, batchVars, watchVars>>

\* Exit code 0: the loop ended by itself, or by SIGTERM between two batches.
CleanExit ==
  pc = "poll" /\ \A f \in Faults \ {"signal"} : faults'[f] = faults[f]

BatchRunning == bpc \in {"loaded", "counting", "scan"}

StreamStep ==
  /\ Next
  /\ Start => Overlap \/ ~BatchRunning
  /\ ended' = IF pc = "down" \/ pc' # "down" THEN ended
              ELSE IF CleanExit THEN "ok" ELSE "error"
  /\ UNCHANGED <<published, stored, batchVars, opened>>

BatchStep ==
  /\ B!BatchNext
  /\ B!LoadClaims => Overlap \/ (pc = "down" /\ ended = "ok")
  /\ opened' = (opened \/ bpc' = "scan")
  /\ UNCHANGED <<topicVars, cursorVars, pc, engineVars, faults, ended>>

SystemNext == CompleteRun \/ Persist \/ StreamStep \/ BatchStep

SystemSpec == SystemInit /\ [][SystemNext]_systemVars

-----------------------------------------------------------------------------
PhasesTypeOK ==
  /\ TypeOK /\ B!BatchTypeOK
  /\ published \in Nat \cup {None}
  /\ stored \in 0..InTopic
  /\ ended \in {"never", "ok", "error"}
  /\ opened \in BOOLEAN

\* The canonical rule of each event, as the tables hold it.
Owner == [e \in Event |->
            IF CanonicalOf(findings, e) = {} THEN None
            ELSE CHOOSE r \in CanonicalOf(findings, e) : TRUE]

L == INSTANCE ClaimLedger
       WITH owner <- Owner, stage <- IF opened THEN "batch" ELSE "stream"

\* The two phases implement the claim ledger: stream claims first and by rule
\* strength, no stream claim once the batch phase was let in, batch claims only
\* on events nobody owns (ADR-28/2, 28/6, 28/7).
ImplementsLedger == L!Ledger

\* A batch phase that reports success has judged the complete run: every hit of
\* both phases that a single pass over the topic must raise is stored, and the
\* canonical finding is the first phase's if it had one.
VerdictComplete ==
  bpc = "done" =>
    \A i \in DOMAIN Scan : \A e \in Scan[i] :
      /\ e \in Unknown /\ Kind[e] = "own" => CanonicalOf(findings, e) = {Inventory}
      /\ \A r \in B!Hits(e) : \E f \in findings : f.event = e /\ f.rule = r

\* cmd/integrity/main.go:293-294, ADR-28/6: the batch phase can be run again on
\* its own; a process let in by its preconditions is never turned away.
BatchRerunAccepted == B!RerunAccepted
=============================================================================
