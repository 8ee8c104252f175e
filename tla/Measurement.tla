---------------------------- MODULE Measurement ----------------------------
(***************************************************************************)
(* A run being measured and looked at: the writers of its tables, the      *)
(* calibration's search, the validation jobs and the gateway, interleaved  *)
(* statement by statement.  A behaviour's budget says who takes part; the  *)
(* tables of a writer that does not are full from the start.               *)
(***************************************************************************)
EXTENDS Gateway

CONSTANT Budgets    \* the casts considered, see BudgetOK

BudgetOK(b) ==
    b \in [writers : SUBSET Writers, jobs : SUBSET Job, launches : 0..Launches,
           losses : Nat,        \* statements of the engine that fail
           faults : Nat,        \* all other faults
           requests : Nat,      \* requests to the gateway
           leaves : BOOLEAN,    \* clients may leave
           curves : SUBSET Curves, modes : SUBSET Modes]

ASSUME MeasurementAssumption == \A b \in Budgets : BudgetOK(b)

vars == <<validationVars, bisectionVars, gatewayVars>>

Init ==
    /\ budget \in Budgets
    /\ ValidationInit
    /\ BisectionInit /\ curve \in budget.curves
    /\ GatewayInit

Writes(w) == w \in budget.writers

\* What the next batch may be, on a topic of one partition.
Batches(rest) == {{e \in rest : Id[e] <= Id[last]} : last \in rest}

Write ==
    /\ \/ Writes("run") /\ CompleteRun
       \/ Writes("records") /\ \E b \in Batches(Recorded \ records) : PersistRecords(b)
       \/ Writes("truths") /\ \E b \in Batches(Event \ truths) : PersistTruths(b)
       \/ \E l \in EngineLambda, m \in budget.modes : EngineStart(m, l)
       \/ \E b \in Batches(Pending) : \/ EngineFlush(b) \/ EngineLoses(b)
                                      \/ EngineMisjudges(b) \/ EngineBreaks(b)
       \/ \E b \in Batches(Pending) \cup {{}} : EngineCrash(b)
       \/ EngineEnds
       \/ Writes("findings") /\ \/ \E f \in Finding : StreamFlush(f)
                                \/ \E n \in 0..Cardinality(Recorded) : StreamDeclare(n)
                                \/ BatchFlush
    /\ UNCHANGED <<bisectionVars, server, answer, counters>>
    /\ Noticed

Measure ==
    /\ \E j \in Job :
         \/ Start(j) \/ Load(j) \/ Calibrated(j)
         \/ ReadStatus(j) \/ CountRecords(j) \/ CountTruths(j) \/ CheckPreconditions(j)
         \/ DeleteRun(j) \/ ComputeCoverage(j) \/ ComputeAreas(j) \/ Compare(j)
         \/ WriteRow(j) \/ CountK7Truths(j) \/ checkIntegrityPrecondition(j)
         \/ PrecisionByRule(j) \/ RecallByRule(j) \/ UpsertRule(j) \/ JobFails(j)
    /\ UNCHANGED <<server, answer, counters>>
    /\ Noticed

Search ==
    /\ Iterate \/ TakeMiddle \/ SearchFails \/ SetLambda
    /\ UNCHANGED <<validationVars, gatewayVars>>

Ask ==
    /\ GatewayStep
    /\ UNCHANGED <<tables, results, engineVars, job, history, bisectionVars>>

Next == Write \/ Measure \/ Search \/ Ask

Spec == Init /\ [][Next]_vars

TypeOK == /\ BudgetOK(budget)
          /\ ValidationTypeOK /\ BisectionTypeOK /\ GatewayTypeOK
=============================================================================
