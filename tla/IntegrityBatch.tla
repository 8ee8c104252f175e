--------------------------- MODULE IntegrityBatch ----------------------------
(***************************************************************************)
(* The batch phase of the integrity service: one process that loads the    *)
(* claim ledger from the findings table (cmd/integrity/main.go runBatch),  *)
(* checks the preconditions and walks hts_records subscriber by subscriber *)
(* (internal/integrity/source/batch.go) with rules 5 and 2.                *)
(*                                                                         *)
(* The findings table and the run's counters belong to other components as *)
(* well: they are variables here and their other writers are given by      *)
(* whoever instantiates the module. What the two rules say of a record is  *)
(* a function of the stored records, so it is a constant of the run.       *)
(***************************************************************************)
EXTENDS FindingEngine

CONSTANTS
  Scan,        \* Scan[i]: the set of events of the i-th subscriber, in
               \* ORDER BY pseudo_msisdn
  Deviant,     \* events rule 5 (device activity) hits
  Impossible,  \* events rule 2 (velocity) is attributed to
  BufferSize,  \* findings buffered before Evaluate writes them itself
  BatchLimit   \* how often each fault may happen (a bound of the model)

BatchFaults == {"crash", "sink", "rerun"}

\* What the module assumes of its constants (an ASSUME of IntegrityPhases).
BatchConstants ==
  /\ Scan \in Seq(SUBSET Event)
  /\ Deviant \subseteq Event
  /\ Impossible \subseteq Event
  /\ BufferSize \in Nat \ {0}
  /\ BatchLimit \in [BatchFaults -> Nat]

VARIABLES
  findings,   \* the integrity_findings table
  published,  \* run_config.published_events
  inspected,  \* run_config.inspected_records
  stored,     \* count(hts_records) of the run
  bpc,        \* "down", "loaded", "counting", "scan", "done", "refused",
              \* "rejected"
  ledger,     \* the engine's claims
  status,     \* counters as RunStatusOf read them
  cursor,     \* subscribers evaluated so far
  pending,    \* findings not yet written
  bfaults     \* faults spent so far

batchVars == <<bpc, ledger, status, cursor, pending, bfaults>>
runVars   == <<published, inspected, stored>>
vars      == <<findings, runVars, batchVars>>

NoStatus == [published |-> None, inspected |-> None]
Status   == [published : Nat \cup {None}, inspected : Nat \cup {None}]

\* What rules 5 and 2 say of an event; rule order is precedence order.
Hits(e) == {r \in {Activity, Velocity} :
              IF r = Activity THEN e \in Deviant ELSE e \in Impossible}

-----------------------------------------------------------------------------
BatchInit ==
  /\ bpc = "down"
  /\ ledger = NoClaims
  /\ status = NoStatus
  /\ cursor = 0
  /\ pending = {}
  /\ bfaults = [f \in BatchFaults |-> 0]

Spend(f) == /\ bfaults[f] < BatchLimit[f]
            /\ bfaults' = [bfaults EXCEPT ![f] = @ + 1]

\* The process ends in state s and its memory is gone.
End(s) ==
  /\ bpc' = s
  /\ ledger' = NoClaims
  /\ status' = NoStatus
  /\ cursor' = 0
  /\ pending' = {}

\* LoadClaims reads the canonical rows once. If an event had two, the one read
\* last would stay.
LoadClaims ==
  /\ bpc = "down"
  /\ bpc' = "loaded"
  /\ ledger' \in {c \in Claims :
       \A e \in Event :
         IF CanonicalOf(findings, e) = {} THEN c[e] = None
         ELSE c[e] \in CanonicalOf(findings, e)}
  /\ UNCHANGED <<findings, runVars, status, cursor, pending, bfaults>>

\* CheckPrecondition, first query: the run's two counters in one row.
ReadStatus ==
  /\ bpc = "loaded"
  /\ IF published = None
     THEN End("refused")
     ELSE /\ bpc' = "counting"
          /\ status' = [published |-> published, inspected |-> inspected]
          /\ UNCHANGED <<ledger, cursor, pending>>
  /\ UNCHANGED <<findings, runVars, bfaults>>

\* Mutant: precondition (b) is not checked.
CheckStoredOnly ==
  /\ bpc = "counting"
  /\ IF stored = status.published
     THEN bpc' = "scan" /\ UNCHANGED <<ledger, status, cursor, pending>>
     ELSE End("refused")
  /\ UNCHANGED <<findings, runVars, bfaults>>

\* Second query, count(hts_records), and the verdict.
CheckPrecondition ==
  /\ bpc = "counting"
  /\ IF /\ stored = status.published
        /\ status.inspected # None
        /\ status.inspected = status.published
     THEN bpc' = "scan" /\ UNCHANGED <<ledger, status, cursor, pending>>
     ELSE End("refused")
  /\ UNCHANGED <<findings, runVars, bfaults>>

-----------------------------------------------------------------------------
Accepted(rows) ==
  /\ ~Rejected(rows)
  /\ findings' = Inserted(findings, rows)

\* The statement fails and Run returns the error: by row validation, or by the
\* database with the statement done or undone.
Refused(rows) ==
  \/ /\ Rejected(rows)
     /\ End("rejected")
     /\ UNCHANGED <<findings, bfaults>>
  \/ /\ rows # {}
     /\ ~Rejected(rows)
     /\ Spend("sink")
     /\ findings' \in {findings, Inserted(findings, rows)}
     /\ End("down")

Scanning == bpc = "scan" /\ cursor < Len(Scan)

\* Events of the next subscriber that some rule hits. Events differ, so
\* resolving them one by one or together is the same.
Flagged == {e \in Scan[cursor + 1] : Hits(e) # {}}

Resolved ==
  pending \cup UNION {Rows(ledger, e, Hits(e), "batch") : e \in Flagged}

\* Engine.Evaluate on one subscriber's sequence: resolve every hit event, then
\* write when the buffer is full.
Evaluate ==
  /\ Scanning
  /\ ledger' = [e \in Event |->
                  IF e \in Flagged THEN Winner(ledger, e, Hits(e)) ELSE ledger[e]]
  /\ cursor' = cursor + 1
  /\ \/ /\ Cardinality(Resolved) < BufferSize
        /\ pending' = Resolved
        /\ UNCHANGED findings
     \/ /\ Cardinality(Resolved) >= BufferSize
        /\ Accepted(Resolved)
        /\ pending' = {}
  /\ UNCHANGED <<runVars, bpc, status, bfaults>>

EvaluateFails ==
  /\ Scanning
  /\ Cardinality(Resolved) >= BufferSize
  /\ Refused(Resolved)
  /\ UNCHANGED runVars

\* Mutant: the rows below a full buffer are not written.
FinishUnwritten ==
  /\ bpc = "scan"
  /\ cursor = Len(Scan)
  /\ End("done")
  /\ UNCHANGED <<findings, runVars, bfaults>>

\* The scan is over: the last write, and the process reports success.
Finish ==
  /\ bpc = "scan"
  /\ cursor = Len(Scan)
  /\ Accepted(pending)
  /\ End("done")
  /\ UNCHANGED <<runVars, bfaults>>

FinishFails ==
  /\ bpc = "scan"
  /\ cursor = Len(Scan)
  /\ Refused(pending)
  /\ UNCHANGED runVars

\* Killed, cancelled between two subscribers, or the scan query broke off.
Crash ==
  /\ bpc \in {"loaded", "counting", "scan"}
  /\ Spend("crash")
  /\ End("down")
  /\ UNCHANGED <<findings, runVars>>

\* An operator runs the phase again after it ended. (After a crash or a failed
\* write bpc is "down" and LoadClaims is simply enabled again.)
Rerun ==
  /\ bpc \in {"done", "refused", "rejected"}
  /\ Spend("rerun")
  /\ bpc' = "down"
  /\ UNCHANGED <<findings, runVars, ledger, status, cursor, pending>>

BatchNext ==
  \/ LoadClaims \/ ReadStatus \/ CheckPrecondition
  \/ Evaluate \/ EvaluateFails
  \/ Finish \/ FinishFails
  \/ Crash \/ Rerun

BatchTypeOK ==
  /\ findings \subseteq Finding
  /\ bpc \in {"down", "loaded", "counting", "scan", "done", "refused", "rejected"}
  /\ ledger \in Claims
  /\ status \in Status
  /\ cursor \in 0..Len(Scan)
  /\ pending \subseteq Finding
  /\ bfaults \in [BatchFaults -> Nat]

\* cmd/integrity/main.go runBatch and ADR-28/6: the ledger comes from the
\* database so that the batch phase can be run again on its own. A process
\* whose preconditions hold is never turned away by row validation.
RerunAccepted == bpc # "rejected"
=============================================================================
