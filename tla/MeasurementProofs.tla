-------------------------- MODULE MeasurementProofs --------------------------
(***************************************************************************)
(* Proofs about a run being measured and looked at, whatever the run, the  *)
(* casts, the requests and the faults.                                     *)
(*                                                                         *)
(* The search. The middle of two points of the interval is between them.   *)
(* An end moves there only when the middle missed the target, and so it    *)
(* misses it by the tolerance, on its own side. That is all the properties *)
(* need: on an increasing curve what lies beyond such an end misses, too.  *)
(* Among writers, jobs and requests the search is still the search: what   *)
(* it promises alone it promises here.                                     *)
(*                                                                         *)
(* The books. The gateway's books balance because a request is counted     *)
(* before it is served, audited once on every way to its answer, and       *)
(* answered or cut off once.                                               *)
(*                                                                         *)
(* The answers. What a request in flight carries (Served) says why it will *)
(* be answered as it is: a class is set only by the check that earns it,   *)
(* and what a map counted is what the table holds until a writer moves it, *)
(* which the request notices.                                              *)
(*                                                                         *)
(* The table without a key. A job deletes its run's rows before it writes  *)
(* its own, key by key, the sample first and the complement after it. So   *)
(* while no two jobs overlap, the rows of a partition and the rows still   *)
(* to write make up the keys, each once (Progress), and a partition not    *)
(* yet reached holds no row of this job (RowInv).                          *)
(*                                                                         *)
(* The gate. While no second engine process starts, nothing of the run is  *)
(* taken back (Forward): what a job saw at the gate is still so when it    *)
(* measures. The engine declares what it counted: one event less than it   *)
(* stored for a write of a full buffer that was executed and reported an   *)
(* error, all events but one more for a buffer lost (CountOK). So where    *)
(* the first do not hide the second, a run whose gate opened has rows for  *)
(* every event with a mass, and what is computed from it is what all of    *)
(* them give (EngineExact, GateInv).                                       *)
(***************************************************************************)
EXTENDS Measurement, FiniteSetTheorems, TLAPS

-----------------------------------------------------------------------------
(* The search alone, for every interval, target, tolerance, number of      *)
(* iterations and curve.                                                   *)

LEMMA CurveIsInteger ==
  ASSUME BisectionTypeOK
  PROVE  \A l \in Lambda : l \in Int /\ curve[l] \in Int
<1>1. curve \in [Lambda -> Level] /\ Level \subseteq Int
  BY BisectionAssumption DEF BisectionTypeOK
<1>2. Lambda \subseteq Int
  BY BisectionAssumption DEF Lambda
<1> QED
  BY <1>1, <1>2

\* The middle of two points is between them.
LEMMA MidBetween ==
  ASSUME NEW a \in Lambda, NEW b \in Lambda, a <= b
  PROVE  Mid(a, b) \in Lambda /\ a <= Mid(a, b) /\ Mid(a, b) <= b
<1>1. a \in Int /\ b \in Int
  BY BisectionAssumption DEF Lambda
<1>2. (a + b) \div 2 \in Int /\ a <= (a + b) \div 2 /\ (a + b) \div 2 <= b
  BY <1>1
<1> QED
  BY <1>1, <1>2, BisectionAssumption DEF Mid, Lambda

\* Both ends bracket the target.
Bracket ==
  /\ lo <= hi
  /\ lo = LambdaMin \/ curve[lo] + Tolerance <= TargetCoverage
  /\ hi = LambdaMax \/ curve[hi] - Tolerance >= TargetCoverage

\* What is reported and stored is what was evaluated last.
Reported ==
  /\ search = "converged" => lambda \in Lambda /\ Within(curve[lambda])
  /\ written # 0 => written = lambda /\ search \in {"converged", "exhausted"}

BisectionInv == BisectionTypeOK /\ Bracket /\ Reported

LEMMA BisectionInitially == BisectionInit => BisectionInv
BY BisectionAssumption
   DEF BisectionInit, BisectionInv, BisectionTypeOK, Bracket, Reported, Lambda

LEMMA IterateKeeps == BisectionInv /\ Iterate => BisectionInv'
<1> SUFFICES ASSUME BisectionInv, Iterate PROVE BisectionInv'
  OBVIOUS
<1> DEFINE mid == Mid(lo, hi)
<1>1. lo \in Lambda /\ hi \in Lambda /\ lo <= hi /\ BisectionTypeOK
  BY DEF BisectionInv, BisectionTypeOK, Bracket
<1>2. mid \in Lambda /\ lo <= mid /\ mid <= hi
  BY <1>1, MidBetween
<1>3. curve[mid] \in Int /\ lo \in Int /\ hi \in Int /\ mid \in Int
  BY <1>1, <1>2, CurveIsInteger
<1>4. curve' = curve /\ written' = written /\ lambda' = mid
  BY DEF Iterate
<1> HIDE DEF mid
<1>5. written = 0
  BY DEF Iterate, BisectionInv, Reported
<1>6. CASE Within(curve[mid])
  <2>1. search' = "converged" /\ lo' = lo /\ hi' = hi
    BY <1>6 DEF Iterate, coverageAt, mid
  <2>2. BisectionTypeOK'
    BY <1>1, <1>2, <1>4, <2>1, BisectionAssumption DEF Iterate, BisectionTypeOK
  <2>3. Bracket'
    BY <1>4, <2>1 DEF BisectionInv, Bracket
  <2>4. Reported'
    BY <1>2, <1>4, <1>5, <1>6, <2>1 DEF Reported, Within
  <2> QED
    BY <2>2, <2>3, <2>4 DEF BisectionInv
<1>7. CASE ~Within(curve[mid])
  <2>1. search' = "running" /\ Narrowed(mid)
    BY <1>7 DEF Iterate, coverageAt, mid
  <2>2. \/ lo' = mid /\ hi' = hi /\ curve[mid] + Tolerance <= TargetCoverage
        \/ lo' = lo /\ hi' = mid /\ curve[mid] - Tolerance >= TargetCoverage
    BY <1>3, <1>7, <2>1, BisectionAssumption DEF Narrowed, Within, coverageAt
  <2>3. BisectionTypeOK'
    BY <1>1, <1>2, <1>4, <2>1, <2>2, BisectionAssumption DEF Iterate, BisectionTypeOK
  <2>4. Bracket'
    BY <1>2, <1>4, <2>2 DEF BisectionInv, Bracket
  <2>5. Reported'
    BY <1>4, <1>5, <2>1 DEF Reported
  <2> QED
    BY <2>3, <2>4, <2>5 DEF BisectionInv
<1> QED
  BY <1>6, <1>7

LEMMA OthersKeep ==
  BisectionInv /\ (StartSearch \/ TakeMiddle \/ SearchFails \/ SetLambda)
    => BisectionInv'
<1> SUFFICES ASSUME BisectionInv,
                    StartSearch \/ TakeMiddle \/ SearchFails \/ SetLambda
             PROVE  BisectionInv'
  OBVIOUS
<1>1. CASE StartSearch
  BY <1>1, BisectionAssumption
     DEF BisectionInv, BisectionTypeOK, Bracket, Reported, StartSearch, Lambda
<1>2. CASE ~StartSearch
  <2>1. curve' = curve /\ lo' = lo /\ hi' = hi /\ iteration' = iteration
    BY <1>2 DEF TakeMiddle, SearchFails, SetLambda
  <2>2. Bracket'
    BY <2>1 DEF BisectionInv, Bracket
  <2>3. CASE TakeMiddle
    <3>1. Mid(lo, hi) \in Lambda
      BY MidBetween DEF BisectionInv, BisectionTypeOK, Bracket
    <3> QED
      BY <2>1, <2>2, <2>3, <3>1
         DEF BisectionInv, BisectionTypeOK, Reported, Within, TakeMiddle
  <2>4. CASE SearchFails
    BY <2>1, <2>2, <2>4
       DEF BisectionInv, BisectionTypeOK, Reported, Within, SearchFails
  <2>5. CASE SetLambda
    BY <2>1, <2>2, <2>5
       DEF BisectionInv, BisectionTypeOK, Reported, Within, SetLambda
  <2> QED
    BY <1>2, <2>3, <2>4, <2>5
<1> QED
  BY <1>1, <1>2

LEMMA BisectionStutters == BisectionInv /\ UNCHANGED bisectionVars => BisectionInv'
BY DEF BisectionInv, BisectionTypeOK, Bracket, Reported, Within, bisectionVars

LEMMA BisectionStep == BisectionInv /\ [BisectionNext]_bisectionVars => BisectionInv'
BY IterateKeeps, OthersKeep, BisectionStutters DEF BisectionNext

\* On an increasing curve no answer lies beyond an end.
LEMMA NothingBeyond ==
  ASSUME BisectionTypeOK, Bracket, Increasing,
         NEW l \in Lambda, Within(curve[l])
  PROVE  l \in lo..hi
<1>1. /\ lo \in Lambda /\ hi \in Lambda
      /\ lo \in Int /\ hi \in Int /\ l \in Int
      /\ curve[lo] \in Int /\ curve[hi] \in Int /\ curve[l] \in Int
  BY CurveIsInteger DEF BisectionTypeOK
<1>2. LambdaMin <= l /\ l <= LambdaMax
  BY BisectionAssumption DEF Lambda
<1>3. lo <= l
  <2> SUFFICES ASSUME ~(lo <= l) PROVE FALSE
    OBVIOUS
  <2>1. curve[l] <= curve[lo]
    BY <1>1 DEF Increasing
  <2>2. curve[lo] + Tolerance <= TargetCoverage
    BY <1>1, <1>2, BisectionAssumption DEF Bracket
  <2> QED
    BY <1>1, <2>1, <2>2, BisectionAssumption DEF Within
<1>4. l <= hi
  <2> SUFFICES ASSUME ~(l <= hi) PROVE FALSE
    OBVIOUS
  <2>1. curve[hi] <= curve[l]
    BY <1>1 DEF Increasing
  <2>2. curve[hi] - Tolerance >= TargetCoverage
    BY <1>1, <1>2, BisectionAssumption DEF Bracket
  <2> QED
    BY <1>1, <2>1, <2>2, BisectionAssumption DEF Within
<1> QED
  BY <1>1, <1>3, <1>4

LEMMA InvImpliesSound == BisectionInv => BisectionSound
BY NothingBeyond DEF BisectionInv, Bracket, Reported, BisectionSound

\* The interval, the iterations and what is stored stay in their ranges.
THEOREM BisectionTypeCorrect == BisectionSpec => []BisectionTypeOK
<1>1. BisectionInv => BisectionTypeOK
  BY DEF BisectionInv
<1> QED
  BY BisectionInitially, BisectionStep, <1>1, PTL DEF BisectionSpec

\* The search loses no answer and claims none it does not have: bisect and
\* its use in Runner.Run, whatever the coverage curve.
THEOREM SearchIsSound == BisectionSpec => []BisectionSound
BY BisectionInitially, BisectionStep, InvImpliesSound, PTL DEF BisectionSpec

-----------------------------------------------------------------------------
(* The search inside the whole.                                            *)

\* Every step of the whole is a step of the search, or leaves it alone.
LEMMA SearchMoves == [Next]_vars => [BisectionNext]_bisectionVars
<1> SUFFICES ASSUME [Next]_vars PROVE [BisectionNext]_bisectionVars
  OBVIOUS
<1>1. CASE Write
  BY <1>1 DEF Write
<1>2. CASE Measure
  <2> PICK j \in Job :
         \/ Start(j) \/ Load(j) \/ Calibrated(j)
         \/ ReadStatus(j) \/ CountRecords(j) \/ CountTruths(j) \/ CheckPreconditions(j)
         \/ DeleteRun(j) \/ ComputeCoverage(j) \/ ComputeAreas(j) \/ Compare(j)
         \/ WriteRow(j) \/ CountK7Truths(j) \/ checkIntegrityPrecondition(j)
         \/ PrecisionByRule(j) \/ RecallByRule(j) \/ UpsertRule(j) \/ JobFails(j)
    BY <1>2 DEF Measure
  <2>1. CASE Load(j)
    BY <2>1 DEF Load, BisectionNext
  <2>2. CASE Start(j) \/ Calibrated(j) \/ JobFails(j)
    BY <2>2 DEF Start, Calibrated, JobFails
  <2>3. CASE ReadStatus(j) \/ CountRecords(j) \/ CountTruths(j) \/ CheckPreconditions(j)
    BY <2>3 DEF ReadStatus, CountRecords, CountTruths, CheckPreconditions
  <2>4. CASE DeleteRun(j) \/ ComputeCoverage(j) \/ ComputeAreas(j) \/ Compare(j)
    BY <2>4 DEF DeleteRun, ComputeCoverage, ComputeAreas, Compare
  <2>5. CASE WriteRow(j) \/ UpsertRule(j) \/ PrecisionByRule(j) \/ RecallByRule(j)
    BY <2>5 DEF WriteRow, UpsertRule, PrecisionByRule, RecallByRule
  <2>6. CASE CountK7Truths(j) \/ checkIntegrityPrecondition(j)
    BY <2>6 DEF CountK7Truths, checkIntegrityPrecondition
  <2> QED
    BY <2>1, <2>2, <2>3, <2>4, <2>5, <2>6
<1>3. CASE Search
  BY <1>3 DEF Search, BisectionNext
<1>4. CASE Ask
  BY <1>4 DEF Ask
<1>5. CASE UNCHANGED vars
  BY <1>5 DEF vars
<1> QED
  BY <1>1, <1>2, <1>3, <1>4, <1>5 DEF Next

\* The calibration search of a job is the search of module Bisection, whoever
\* else is at work (Runner.Run inside execute).
THEOREM SearchIsBisection == Spec => BisectionSpec
<1>1. Init => BisectionInit
  BY DEF Init
<1> QED
  BY <1>1, SearchMoves, PTL DEF Spec, BisectionSpec

\* And so it loses no answer and claims none it does not have there either.
THEOREM SearchIsSoundHere == Spec => []BisectionSound
BY SearchIsBisection, SearchIsSound, PTL

-----------------------------------------------------------------------------
(* The books of the gateway.                                               *)

\* What the proof needs of a request in flight: it is a record with a step.
RequestOK ==
  \/ request = NoRequest
  \/ /\ request = [f \in DOMAIN request |-> request[f]]
     /\ {"step", "class", "count", "features", "moved", "gone", "failed"}
          \subseteq DOMAIN request

CountersOK == counters \in [arrived : Nat, answered : Nat, written : Nat,
                            dropped : Nat, refused : Nat, cut : Nat]

\* A request that is served has been counted; one with its audit row written
\* or lost is one more than those answered.
Booked ==
  /\ request.step = "none" => /\ counters.arrived = counters.answered + counters.cut
                              /\ counters.written + counters.dropped <= counters.arrived
  /\ request.step # "none" => counters.arrived = counters.answered + counters.cut + 1
  /\ request.step \notin {"none", "answer"} =>
       counters.written + counters.dropped < counters.arrived
  /\ request.step = "answer" =>
       counters.answered < counters.written + counters.dropped
  /\ counters.written + counters.dropped <= counters.arrived
  /\ counters.answered <= counters.written + counters.dropped
  /\ counters.dropped = counters.refused

BooksInv == RequestOK /\ CountersOK /\ Booked

\* Nothing has arrived, and nothing is booked.
LEMMA BooksInitially == GatewayInit => BooksInv
BY DEF GatewayInit, BooksInv, RequestOK, CountersOK, Booked, NoRequest

\* A step that leaves the counters alone and the request's step, or moves it
\* between two steps before the answer.
SameStage(s, t) == s = t \/ {s, t} \subseteq {"count", "collect", "read", "audit"}

\* A step that changes neither the counters nor the stage keeps the books.
LEMMA BooksStay ==
  ASSUME BooksInv, counters' = counters, RequestOK',
         SameStage(request.step, request'.step)
  PROVE  BooksInv'
BY DEF BooksInv, CountersOK, Booked, SameStage

\* A writer noticed by a request in flight changes neither.
LEMMA NoticedKeeps ==
  ASSUME BooksInv, counters' = counters, Noticed
  PROVE  BooksInv'
<1>1. RequestOK' /\ request'.step = request.step
  BY DEF BooksInv, RequestOK, NoRequest, Noticed
<1> QED
  BY <1>1, BooksStay DEF SameStage

\* One lemma per action of the gateway.
LEMMA ArriveKeeps == \A q \in Request : BooksInv /\ Arrive(q) => BooksInv'
<1> SUFFICES ASSUME NEW q \in Request, BooksInv, Arrive(q) PROVE BooksInv'
  OBVIOUS
<1>1. request.step = "none" /\ counters' = [counters EXCEPT !.arrived = @ + 1]
  BY DEF Arrive
<1>2. RequestOK' /\ request'.step \in {"audit", "count", "read"}
  BY DEF Arrive, RequestOK, InFlight, FirstQuery
<1> QED
  BY <1>1, <1>2 DEF BooksInv, CountersOK, Booked

LEMMA QueryKeeps ==
  BooksInv /\ (Count \/ Collect \/ Read \/ QueryFails \/ ClientLeaves) => BooksInv'
<1> SUFFICES ASSUME BooksInv, Count \/ Collect \/ Read \/ QueryFails \/ ClientLeaves
             PROVE  BooksInv'
  OBVIOUS
<1>1. counters' = counters
  BY DEF Count, Collect, Read, QueryFails, ClientLeaves
<1>2. RequestOK' /\ SameStage(request.step, request'.step)
  <2>1. CASE Count
    <3>1. request.step \in {"count", "collect", "read"} /\ request # NoRequest
      BY <2>1 DEF Count, NoRequest
    <3>2. RequestOK'
      BY <2>1, <3>1 DEF BooksInv, RequestOK, Count
    <3>3. request'.step \in {"collect", "audit"}
      BY <2>1, <3>1 DEF BooksInv, RequestOK, Count
    <3> QED
      BY <3>1, <3>2, <3>3 DEF SameStage
  <2>2. CASE Collect
    <3>1. request.step \in {"count", "collect", "read"} /\ request # NoRequest
      BY <2>2 DEF Collect, NoRequest
    <3>2. RequestOK'
      BY <2>2, <3>1 DEF BooksInv, RequestOK, Collect
    <3>3. request'.step \in {"audit"}
      BY <2>2, <3>1 DEF BooksInv, RequestOK, Collect
    <3> QED
      BY <3>1, <3>2, <3>3 DEF SameStage
  <2>3. CASE Read
    <3>1. request.step \in {"count", "collect", "read"} /\ request # NoRequest
      BY <2>3 DEF Read, NoRequest
    <3>2. RequestOK'
      BY <2>3, <3>1 DEF BooksInv, RequestOK, Read
    <3>3. request'.step \in {"audit"}
      BY <2>3, <3>1 DEF BooksInv, RequestOK, Read
    <3> QED
      BY <3>1, <3>2, <3>3 DEF SameStage
  <2>4. CASE QueryFails
    <3>1. request.step \in {"count", "collect", "read"} /\ request # NoRequest
      BY <2>4 DEF QueryFails, NoRequest
    <3>2. RequestOK'
      BY <2>4, <3>1 DEF BooksInv, RequestOK, QueryFails
    <3>3. request'.step \in {"audit"}
      BY <2>4, <3>1 DEF BooksInv, RequestOK, QueryFails
    <3> QED
      BY <3>1, <3>2, <3>3 DEF SameStage
  <2>5. CASE ClientLeaves
    BY <2>5 DEF BooksInv, RequestOK, NoRequest, SameStage, ClientLeaves
  <2> QED
    BY <2>1, <2>2, <2>3, <2>4, <2>5
<1> QED
  BY <1>1, <1>2, BooksStay

LEMMA RecordKeeps == BooksInv /\ Record => BooksInv'
<1> SUFFICES ASSUME BooksInv, Record PROVE BooksInv'
  OBVIOUS
<1>1. request.step = "audit"
  BY DEF Record
<1>2. RequestOK' /\ request'.step = "answer"
  BY <1>1 DEF BooksInv, RequestOK, NoRequest, Record
<1>3. \/ counters' = [counters EXCEPT !.written = @ + 1]
      \/ counters' = [counters EXCEPT !.dropped = @ + 1, !.refused = @ + 1]
  BY DEF Record
<1>4. CASE counters' = [counters EXCEPT !.written = @ + 1]
  BY <1>1, <1>2, <1>4 DEF BooksInv, CountersOK, Booked
<1>5. CASE counters' = [counters EXCEPT !.dropped = @ + 1, !.refused = @ + 1]
  <2>1. counters' = [arrived |-> counters.arrived, answered |-> counters.answered,
                     written |-> counters.written, dropped |-> counters.dropped + 1,
                     refused |-> counters.refused + 1, cut |-> counters.cut]
    BY <1>5 DEF BooksInv, CountersOK
  <2>2. CountersOK'
    BY <2>1 DEF BooksInv, CountersOK
  <2>3. Booked'
    BY <1>1, <1>2, <2>1 DEF BooksInv, CountersOK, Booked
  <2> QED
    BY <1>2, <2>2, <2>3 DEF BooksInv
<1> QED
  BY <1>3, <1>4, <1>5

LEMMA ReplyKeeps == BooksInv /\ Reply => BooksInv'
<1> SUFFICES ASSUME BooksInv, Reply PROVE BooksInv'
  OBVIOUS
<1>1. request.step = "answer" /\ request' = NoRequest
      /\ counters' = [counters EXCEPT !.answered = @ + 1]
  BY DEF Reply
<1>2. RequestOK' /\ request'.step = "none"
  BY <1>1 DEF RequestOK, NoRequest
<1>3. CountersOK'
  BY <1>1 DEF BooksInv, CountersOK
<1>4. Booked'
  BY <1>1, <1>2 DEF BooksInv, CountersOK, Booked
<1> QED
  BY <1>2, <1>3, <1>4 DEF BooksInv

LEMMA ShutdownKeeps == BooksInv /\ Shutdown => BooksInv'
BY DEF BooksInv, RequestOK, CountersOK, Booked, Shutdown

LEMMA StopKeeps == BooksInv /\ Stop => BooksInv'
<1> SUFFICES ASSUME BooksInv, Stop PROVE BooksInv'
  OBVIOUS
<1>1. request' = NoRequest
  BY DEF Stop
<1>2. CASE request.step = "none"
  BY <1>1, <1>2 DEF BooksInv, RequestOK, CountersOK, Booked, NoRequest, Stop
<1>3. CASE request.step # "none"
  BY <1>1, <1>3 DEF BooksInv, RequestOK, CountersOK, Booked, NoRequest, Stop
<1> QED
  BY <1>2, <1>3

\* No step of the whole unbalances the books.
LEMMA BooksStep == BooksInv /\ [Next]_vars => BooksInv'
<1> SUFFICES ASSUME BooksInv, [Next]_vars PROVE BooksInv'
  OBVIOUS
<1>1. CASE Write
  BY <1>1, NoticedKeeps DEF Write
<1>2. CASE Measure
  BY <1>2, NoticedKeeps DEF Measure
<1>3. CASE Search
  BY <1>3 DEF Search, gatewayVars, BooksInv, RequestOK, CountersOK, Booked
<1>4. CASE Ask
  BY <1>4, ArriveKeeps, QueryKeeps, RecordKeeps, ReplyKeeps, ShutdownKeeps, StopKeeps
     DEF Ask, GatewayStep
<1>5. CASE UNCHANGED vars
  BY <1>5 DEF vars, gatewayVars, BooksInv, RequestOK, CountersOK, Booked
<1> QED
  BY <1>1, <1>2, <1>3, <1>4, <1>5 DEF Next

\* Every request leaves exactly one trace, before its answer, also when its
\* client has gone; only a shutdown cuts a handler off (audit.Record, fail).
THEOREM EveryRequestAccounted == Spec => []AnswersAccounted
<1>1. Init => BooksInv
  BY BooksInitially DEF Init
<1>2. BooksInv => AnswersAccounted
  BY DEF BooksInv, Booked, CountersOK, AnswersAccounted
<1> QED
  BY <1>1, <1>2, BooksStep, PTL DEF Spec
-----------------------------------------------------------------------------
(* Types.                                                                  *)

\* A run and its tables are finite.
LEMMA FiniteRun ==
  /\ IsFiniteSet(Event) /\ IsFiniteSet(Recorded) /\ IsFiniteSet(Key)
  /\ Recorded \subseteq Event /\ Cardinality(Recorded) \in Nat
  /\ \A S : S \subseteq Event => IsFiniteSet(S) /\ Cardinality(S) \in Nat
  /\ \A S : S \subseteq Recorded => IsFiniteSet(S) /\ Cardinality(S) \in Nat
<1>1. /\ IsFiniteSet(Event) /\ IsFiniteSet(Key) /\ Recorded \subseteq Event
  BY SamplingAssumption, MeasuresAssumption
<1>2. \A S : S \subseteq Event => IsFiniteSet(S)
  BY <1>1, FS_Subset
<1>3. \A S : S \subseteq Event => Cardinality(S) \in Nat
  BY <1>2, FS_CardinalityType
<1> QED
  BY <1>1, <1>2, <1>3

\* A row that may be written: at least one event, and no more hits than events.
RowOK(row) ==
  /\ row = [f \in DOMAIN row |-> row[f]]
  /\ {"key", "partition", "n", "hits", "reduction"} \subseteq DOMAIN row
  /\ row.n \in Nat /\ row.n > 0 /\ row.hits \in 0..row.n

\* An answer to F.1: all keys or none.
CoverageOK(f1) ==
  /\ DOMAIN f1 \in {{}, Key}
  /\ \A k \in DOMAIN f1 : f1[k].n \in Nat /\ f1[k].hits \in 0..f1[k].n

\* What F.1 returns: a row of at least one event, with no more hits than events.
LEMMA CoverageType ==
  ASSUME NEW est, DOMAIN est = Event, NEW seen, NEW p
  PROVE  CoverageOK(Coverage(est, seen, p))
<1> DEFINE m == Measured(est, seen, p)
           hits(k) == {e \in m : est[e] >= HitFrom[k][e]}
<1>1. m \subseteq Event
  BY DEF Measured, Joined, Estimated
<1>2. IsFiniteSet(m) /\ Cardinality(m) \in Nat
  BY <1>1, FiniteRun
<1>3. \A k : Cardinality(hits(k)) \in Nat /\ Cardinality(hits(k)) <= Cardinality(m)
  BY <1>2, FS_Subset, FS_CardinalityType
<1> HIDE DEF m
<1>4. Coverage(est, seen, p) = [k \in IF m = {} THEN {} ELSE Key |->
                                  [n |-> Cardinality(m), hits |-> Cardinality(hits(k))]]
  BY DEF Coverage, m
<1> HIDE DEF hits
<1> QED
  BY <1>2, <1>3, <1>4 DEF CoverageOK

JobFields == {"pc", "seen", "partition", "f1", "f2", "todo", "complete", "whole"}

\* The record of a job, and what it holds at the steps that use it.
RecordOK(r) ==
  /\ r = [f \in JobFields |-> r[f]]
  /\ r.pc \in Steps
  /\ r.partition \in {"V", "C"}
  /\ r.seen = [status |-> r.seen.status, records |-> r.seen.records, truths |-> r.seen.truths]
  /\ r.pc = "areas" => CoverageOK(r.f1)
  /\ r.pc \in {"reduction", "write"} => \A row \in r.todo : RowOK(row)
  /\ r.pc \in {"reduction", "write", "upsert"} => r.todo # {}
  /\ r.pc = "upsert" => r.todo \subseteq Rule

JobsOK == job = [j \in Job |-> job[j]] /\ \A j \in Job : RecordOK(job[j])

HistoryOK ==
  /\ history = [lost |-> history.lost, misjudged |-> history.misjudged,
                launches |-> history.launches, stopped |-> history.stopped,
                overlap |-> history.overlap, mode |-> history.mode,
                lambda |-> history.lambda, last |-> history.last]
  /\ history.lost \subseteq Recorded /\ history.launches \in Nat /\ history.misjudged \in Nat

Typed == BudgetOK(budget) /\ ValidationTypeOK /\ JobsOK /\ HistoryOK

\* A batch of the engine.
LEMMA PendingFinite ==
  ASSUME NEW batch, batch \subseteq Pending
  PROVE  batch \subseteq Recorded /\ batch \subseteq Event /\ Cardinality(batch) \in Nat
BY FiniteRun DEF Pending, Estimable

\* The tables start empty, or as the services leave a whole run, and the jobs wait.
LEMMA TypedInitially == Init => Typed
<1> SUFFICES ASSUME Init PROVE Typed
  OBVIOUS
<1> DEFINE total == Cardinality(Recorded)
           mode == CHOOSE m \in budget.modes : TRUE
           sample == Estimable(mode, total)
<1>1. BudgetOK(budget)
  BY MeasurementAssumption DEF Init
<1>2. sample \subseteq Recorded /\ Cardinality(sample) \in Nat /\ total \in Nat
  BY FiniteRun DEF Estimable
<1>3. JobsOK
  <2>1. RecordOK(Waiting)
    BY DEF RecordOK, JobFields, Waiting, NothingSeen, Steps
  <2> QED
    BY <2>1 DEF Init, ValidationInit, JobsOK
<1>4. HistoryOK
  BY DEF Init, ValidationInit, HistoryOK, Loaded
<1>5. ValidationTypeOK
  <2> HIDE DEF sample, mode, total
  <2>1. /\ run = [published |-> Loaded("run", total, Null),
                  analyzed |-> Loaded("engine", Cardinality(sample), Null),
                  inspected |-> Loaded("findings", total, Null)]
        /\ estimate = [e \in Event |-> Loaded("engine", IF e \in sample THEN 1 ELSE 0, 0)]
    BY DEF Init, ValidationInit, sample, mode, total
  <2>2. run \in [published : Nat \cup {Null}, analyzed : Nat \cup {Null},
                 inspected : Nat \cup {Null}]
    BY <1>2, <2>1 DEF Loaded
  <2>3. estimate \in [Event -> EngineLambda \cup {0}]
    BY <2>1, ValidationAssumption DEF Loaded
  <2>4. records \subseteq Recorded /\ truths \subseteq Event /\ findings \subseteq Finding
    BY DEF Init, ValidationInit, Loaded
  <2>5. engine \in [on : BOOLEAN, mode : Modes, lambda : EngineLambda, count : Nat]
        /\ handled \subseteq Recorded
    BY ValidationAssumption DEF Init, ValidationInit, Loaded, EngineOff, Modes
  <2>6. metrics = {} /\ DOMAIN measures = {}
    BY DEF Init, ValidationInit
  <2>7. \A j \in Job : job[j].pc \in Steps
    BY <1>3 DEF JobsOK, RecordOK
  <2> QED
    BY <2>2, <2>3, <2>4, <2>5, <2>6, <2>7 DEF ValidationTypeOK
<1> QED
  BY <1>1, <1>3, <1>4, <1>5 DEF Typed

\* Spending a fault keeps the budget in its type.
LEMMA BudgetStays ==
  ASSUME BudgetOK(budget), NEW n \in Nat
  PROVE  BudgetOK([budget EXCEPT !.losses = n]) /\ BudgetOK([budget EXCEPT !.faults = n])
BY DEF BudgetOK

\* The run and its tables, the engine, and what else a step changes, one step of
\* a writer at a time.
TablesOK ==
  /\ run \in [published : Nat \cup {Null}, analyzed : Nat \cup {Null},
              inspected : Nat \cup {Null}]
  /\ records \subseteq Recorded /\ truths \subseteq Event
  /\ estimate \in [Event -> EngineLambda \cup {0}]
  /\ findings \subseteq Finding
  /\ engine \in [on : BOOLEAN, mode : Modes, lambda : EngineLambda, count : Nat]
  /\ handled \subseteq Recorded
  /\ BudgetOK(budget) /\ HistoryOK

\* The records gone past are records of the topic.
LEMMA GonePastRecorded ==
  ASSUME handled \subseteq Recorded, NEW batch
  PROVE  GonePast(batch) \subseteq Recorded
BY DEF GonePast

\* A statement leaves the estimates in their type, a failure the budget.
LEMMA InsertTyped ==
  ASSUME TablesOK, NEW batch, Insert(batch)
  PROVE  estimate' \in [Event -> EngineLambda \cup {0}]
BY DEF TablesOK, Insert

LEMMA FailureTyped ==
  ASSUME TablesOK, NEW batch, StatementFails(batch)
  PROVE  BudgetOK(budget')
<1> DEFINE n == IF batch \cap Estimated(estimate) = {} THEN budget.losses - 1
                ELSE budget.losses
<1>1. budget.losses \in Nat /\ BudgetOK(budget)
  BY DEF TablesOK, BudgetOK
<1>2. n \in Nat /\ budget' = [budget EXCEPT !.losses = n]
  BY <1>1 DEF StatementFails
<1> HIDE DEF n
<1> QED
  BY <1>1, <1>2, BudgetStays

\* The engine process writes estimates of its lambda and a count.
LEMMA EngineTyped ==
  ASSUME TablesOK,
         \/ \E l \in EngineLambda, m \in budget.modes : EngineStart(m, l)
         \/ \E b \in Batches(Pending) : \/ EngineFlush(b) \/ EngineLoses(b)
                                        \/ EngineMisjudges(b) \/ EngineBreaks(b)
         \/ \E b \in Batches(Pending) \cup {{}} : EngineCrash(b)
         \/ EngineEnds
  PROVE  TablesOK'
<1> USE DEF TablesOK, tables, results, engineVars
<1>1. ASSUME NEW l \in EngineLambda, NEW m \in budget.modes, EngineStart(m, l)
      PROVE  TablesOK'
  <2>1. m \in Modes
    BY DEF BudgetOK
  <2>2. HistoryOK'
    <3>1. history' = [history EXCEPT !.launches = @ + 1, !.mode = m, !.lambda = l]
      BY <1>1 DEF EngineStart
    <3>2. history' = [lost |-> history.lost, misjudged |-> history.misjudged,
                      launches |-> history.launches + 1, stopped |-> history.stopped,
                      overlap |-> history.overlap, mode |-> m, lambda |-> l,
                      last |-> history.last]
      BY <3>1 DEF HistoryOK
    <3>3. /\ history.lost \subseteq Recorded /\ history.launches \in Nat
          /\ history.misjudged \in Nat
      BY DEF HistoryOK
    <3> HIDE DEF TablesOK
    <3> QED
      BY <3>2, <3>3 DEF HistoryOK
  <2> QED
    BY <1>1, <2>1, <2>2 DEF EngineStart
<1>2. ASSUME NEW b, EngineFlush(b)
      PROVE  TablesOK'
  <2>1. b \subseteq Pending /\ b \subseteq Event /\ Cardinality(b) \in Nat
    BY <1>2, PendingFinite DEF EngineFlush
  <2>2. estimate' \in [Event -> EngineLambda \cup {0}]
    BY <1>2, InsertTyped DEF EngineFlush
  <2>3. engine' \in [on : BOOLEAN, mode : Modes, lambda : EngineLambda, count : Nat]
    BY <1>2, <2>1 DEF EngineFlush
  <2> QED
    BY <1>2, <2>2, <2>3, GonePastRecorded DEF EngineFlush, HistoryOK
<1>3. ASSUME NEW b, EngineLoses(b) \/ EngineMisjudges(b)
      PROVE  TablesOK'
  <2>1. b \subseteq Recorded /\ Cardinality(b) \in Nat /\ Cardinality(b) > 1
    BY <1>3, PendingFinite, ValidationAssumption DEF EngineLoses, EngineMisjudges
  <2>2. engine.count + Cardinality(b) - 1 \in Nat
    BY <2>1
  <2>3. /\ engine' = [engine EXCEPT !.count = engine.count + Cardinality(b) - 1]
        /\ handled' = GonePast(b) /\ StatementFails(b)
        /\ UNCHANGED <<run, records, truths, findings>>
    BY <1>3 DEF EngineLoses, EngineMisjudges
  <2>4. engine' \in [on : BOOLEAN, mode : Modes, lambda : EngineLambda, count : Nat]
    BY <2>2, <2>3
  <2>5. HistoryOK'
    BY <1>3, <2>1 DEF EngineLoses, EngineMisjudges, HistoryOK
  <2>6. estimate' \in [Event -> EngineLambda \cup {0}]
    BY <1>3, InsertTyped DEF EngineLoses, EngineMisjudges
  <2> QED
    BY <2>3, <2>4, <2>5, <2>6, FailureTyped, GonePastRecorded
<1>4. ASSUME NEW b, EngineBreaks(b)
      PROVE  TablesOK'
  <2>1. Cardinality(b) \in Nat
    BY <1>4, PendingFinite DEF EngineBreaks
  <2>2. run' = [run EXCEPT !.analyzed = engine.count + Cardinality(b)]
    BY <1>4 DEF EngineBreaks
  <2>3. run' \in [published : Nat \cup {Null}, analyzed : Nat \cup {Null},
                  inspected : Nat \cup {Null}]
    BY <2>1, <2>2
  <2>4. HistoryOK'
    BY <1>4 DEF EngineBreaks, HistoryOK
  <2>5. BudgetOK(budget')
    BY <1>4, FailureTyped DEF EngineBreaks
  <2>6. engine' \in [on : BOOLEAN, mode : Modes, lambda : EngineLambda, count : Nat]
    BY <1>4, ValidationAssumption DEF EngineBreaks, EngineOff, Modes
  <2>7. estimate' \in [Event -> EngineLambda \cup {0}]
    BY <1>4, InsertTyped DEF EngineBreaks
  <2> QED
    BY <1>4, <2>3, <2>4, <2>5, <2>6, <2>7 DEF EngineBreaks
<1>5. ASSUME NEW b, EngineCrash(b)
      PROVE  TablesOK'
  <2>1. estimate' \in [Event -> EngineLambda \cup {0}]
    BY <1>5, InsertTyped DEF EngineCrash
  <2>2. HistoryOK'
    BY <1>5 DEF EngineCrash, HistoryOK
  <2>3. BudgetOK(budget')
    <3>1. \E n \in Nat : budget' = [budget EXCEPT !.faults = n]
      BY <1>5 DEF EngineCrash, BudgetOK
    <3> QED
      BY <3>1, BudgetStays
  <2>4. engine' \in [on : BOOLEAN, mode : Modes, lambda : EngineLambda, count : Nat]
    BY <1>5, ValidationAssumption DEF EngineCrash, EngineOff, Modes
  <2> QED
    BY <1>5, <2>1, <2>2, <2>3, <2>4 DEF EngineCrash
<1>6. CASE EngineEnds
  <2>1. run' \in [published : Nat \cup {Null}, analyzed : Nat \cup {Null},
                  inspected : Nat \cup {Null}]
    BY <1>6 DEF EngineEnds
  <2>2. HistoryOK'
    BY <1>6 DEF EngineEnds, HistoryOK
  <2>3. BudgetOK(budget')
    <3>1. budget.faults \in Nat
      BY DEF BudgetOK
    <3> DEFINE n == IF Pending = {} THEN budget.faults ELSE budget.faults - 1
    <3>2. n \in Nat /\ budget' = [budget EXCEPT !.faults = n]
      BY <1>6, <3>1 DEF EngineEnds
    <3> HIDE DEF n
    <3> QED
      BY <3>2, BudgetStays
  <2>4. engine' \in [on : BOOLEAN, mode : Modes, lambda : EngineLambda, count : Nat]
    BY <1>6, ValidationAssumption DEF EngineEnds, EngineOff, Modes
  <2> QED
    BY <1>6, <2>1, <2>2, <2>3, <2>4 DEF EngineEnds
<1> QED
  BY <1>1, <1>2, <1>3, <1>4, <1>5, <1>6

\* The other writers: the persister, the stream and the batch phase, Complete.
LEMMA ServicesTyped ==
  ASSUME TablesOK,
         \/ CompleteRun
         \/ \E b \in Batches(Recorded \ records) : PersistRecords(b)
         \/ \E b \in Batches(Event \ truths) : PersistTruths(b)
         \/ \E f \in Finding : StreamFlush(f)
         \/ \E n \in 0..Cardinality(Recorded) : StreamDeclare(n)
         \/ BatchFlush
  PROVE  TablesOK'
<1> USE DEF TablesOK, tables, results, engineVars
<1>1. CASE CompleteRun
  BY <1>1, FiniteRun DEF CompleteRun, HistoryOK
<1>2. ASSUME NEW b, PersistRecords(b) \/ PersistTruths(b)
      PROVE  TablesOK'
  BY <1>2 DEF PersistRecords, PersistTruths, HistoryOK
<1>3. ASSUME NEW f, StreamFlush(f)
      PROVE  TablesOK'
  BY <1>3 DEF StreamFlush, StreamFindings, HistoryOK
<1>4. ASSUME NEW n \in 0..Cardinality(Recorded), StreamDeclare(n)
      PROVE  TablesOK'
  <2>1. n \in Nat
    BY FiniteRun
  <2>2. BudgetOK(budget')
    <3>1. \E k \in Nat : budget' = [budget EXCEPT !.faults = k]
      BY <1>4, <2>1, FiniteRun DEF StreamDeclare, BudgetOK
    <3> QED
      BY <3>1, BudgetStays
  <2> QED
    BY <1>4, <2>1, <2>2 DEF StreamDeclare, HistoryOK
<1>5. CASE BatchFlush
  BY <1>5 DEF BatchFlush, HistoryOK
<1> QED
  BY <1>1, <1>2, <1>3, <1>4, <1>5

\* A step of a writer touches no job and no result.
LEMMA WriteMoves ==
  ASSUME Write
  PROVE  UNCHANGED <<job, metrics, measures, bisectionVars, server, answer, counters>> /\ Noticed
BY DEF Write, CompleteRun, PersistRecords, PersistTruths, EngineStart, EngineFlush,
       EngineLoses, EngineMisjudges, EngineBreaks, EngineCrash, EngineEnds, StreamFlush,
       StreamDeclare, BatchFlush, results, engineVars, tables

LEMMA WriteTyped ==
  ASSUME Typed, Write
  PROVE  Typed'
<1>1. TablesOK'
  BY EngineTyped, ServicesTyped DEF Typed, TablesOK, ValidationTypeOK, Write
<1> QED
  BY <1>1, WriteMoves DEF Typed, TablesOK, ValidationTypeOK, JobsOK

\* A step of a job, and what the other steps leave alone.
MeasureStep(j) ==
  \/ Start(j) \/ Load(j) \/ Calibrated(j)
  \/ ReadStatus(j) \/ CountRecords(j) \/ CountTruths(j) \/ CheckPreconditions(j)
  \/ DeleteRun(j) \/ ComputeCoverage(j) \/ ComputeAreas(j) \/ Compare(j)
  \/ WriteRow(j) \/ CountK7Truths(j) \/ checkIntegrityPrecondition(j)
  \/ PrecisionByRule(j) \/ RecallByRule(j) \/ UpsertRule(j) \/ JobFails(j)

\* A step of a job is one of one job, and leaves tables, engine and gateway alone.
LEMMA MeasureMoves ==
  ASSUME Measure
  PROVE  /\ \E j \in Job : MeasureStep(j)
         /\ UNCHANGED <<tables, engineVars, server, answer, counters>> /\ Noticed
BY DEF Measure, MeasureStep, Start, Load, Calibrated, ReadStatus, CountRecords, CountTruths,
       CheckPreconditions, DeleteRun, ComputeCoverage, ComputeAreas, Compare, WriteRow,
       CountK7Truths, checkIntegrityPrecondition, PrecisionByRule, RecallByRule, UpsertRule,
       JobFails, Still, engineVars

\* The record of the one job that moved.
LEMMA RecordMoves ==
  ASSUME JobsOK, NEW j \in Job, NEW r, job' = [job EXCEPT ![j] = r]
  PROVE  /\ job'[j] = r /\ \A i \in Job \ {j} : job'[i] = job[i]
         /\ RecordOK(r) => JobsOK'
BY DEF JobsOK

\* Going to a step that asks nothing of the record.
PlainSteps == Steps \ {"areas", "reduction", "write", "upsert"}

\* A job moved to a step that needs nothing of its record is still a record.
LEMMA AtPlain ==
  ASSUME JobsOK, NEW j \in Job, NEW s \in PlainSteps
  PROVE  /\ RecordOK(At(j, s)) /\ At(j, s).pc = s
         /\ RecordOK([job[j] EXCEPT !.pc = s])
         /\ \A f \in JobFields \ {"pc"} : At(j, s)[f] = job[j][f]
<1>1. /\ job[j] = [f \in JobFields |-> job[j][f]]
      /\ job[j].partition \in {"V", "C"}
      /\ job[j].seen = [status |-> job[j].seen.status, records |-> job[j].seen.records,
                        truths |-> job[j].seen.truths]
  BY DEF JobsOK, RecordOK
<1>2. At(j, s) = [pc |-> s, seen |-> job[j].seen, partition |-> job[j].partition,
                  f1 |-> job[j].f1, f2 |-> job[j].f2, todo |-> job[j].todo,
                  complete |-> job[j].complete, whole |-> job[j].whole]
  BY <1>1 DEF At, JobFields
<1>3. s \in Steps /\ s \notin {"areas", "reduction", "write", "upsert"}
  BY DEF PlainSteps
<1> QED
  BY <1>1, <1>2, <1>3 DEF RecordOK, JobFields, At

\* The gate's own steps, and the steps that only move on.
LEMMA GateTyped ==
  ASSUME JobsOK, NEW j \in Job,
         \/ Start(j) \/ Load(j) \/ Calibrated(j)
         \/ ReadStatus(j) \/ CountRecords(j) \/ CountTruths(j) \/ CheckPreconditions(j)
         \/ CountK7Truths(j) \/ checkIntegrityPrecondition(j) \/ DeleteRun(j)
         \/ PrecisionByRule(j) \/ JobFails(j)
  PROVE  JobsOK'
<1> SUFFICES \E r : RecordOK(r) /\ job' = [job EXCEPT ![j] = r]
  BY RecordMoves
<1>1. \A s \in PlainSteps : RecordOK(At(j, s)) /\ RecordOK([job[j] EXCEPT !.pc = s])
  BY AtPlain
<1>2. {"load", "search", "status", "records", "truths", "gate", "delete", "coverage",
       "k7 truths", "k7 status", "precision", "recall", "refused", "failed"} \subseteq PlainSteps
  BY DEF PlainSteps, Steps
<1>3. CASE Start(j) \/ Load(j) \/ Calibrated(j) \/ CheckPreconditions(j) \/ DeleteRun(j)
  BY <1>1, <1>2, <1>3 DEF Start, Load, Calibrated, CheckPreconditions, DeleteRun, Goes, FirstStep
<1>4. CASE ReadStatus(j)
  <2>1. RecordOK(At(j, "records"))
    BY <1>1, <1>2
  <2>2. RecordOK([At(j, "records") EXCEPT !.seen.status = run, !.complete = Complete])
    BY <2>1, AtPlain DEF RecordOK, JobFields
  <2> QED
    BY <1>4, <2>2 DEF ReadStatus, Goes
<1>5. CASE CountRecords(j)
  <2>1. RecordOK(At(j, "truths"))
    BY <1>1, <1>2
  <2>2. RecordOK([At(j, "truths") EXCEPT !.seen.records = Cardinality(records)])
    BY <2>1, AtPlain DEF RecordOK, JobFields
  <2> QED
    BY <1>5, <2>2 DEF CountRecords, Goes
<1>6. CASE CountTruths(j)
  <2>1. RecordOK(At(j, "gate"))
    BY <1>1, <1>2
  <2>2. RecordOK([At(j, "gate") EXCEPT !.seen.truths = Cardinality(truths),
                                       !.whole = truths = Event])
    BY <2>1, AtPlain DEF RecordOK, JobFields
  <2> QED
    BY <1>6, <2>2 DEF CountTruths, Goes
<1>7. CASE CountK7Truths(j) \/ checkIntegrityPrecondition(j)
  <2>1. RecordOK(At(j, "k7 status")) /\ RecordOK(At(j, "precision")) /\ RecordOK(At(j, "refused"))
    BY <1>1, <1>2
  <2>2. /\ RecordOK([At(j, "k7 status") EXCEPT !.whole = truths = Event])
        /\ RecordOK([At(j, "precision") EXCEPT !.whole = @ /\ Finished])
    BY <2>1, AtPlain DEF RecordOK, JobFields
  <2> QED
    BY <1>7, <2>1, <2>2 DEF CountK7Truths, checkIntegrityPrecondition, Goes
<1>8. CASE PrecisionByRule(j)
  <2>1. RecordOK(At(j, "recall"))
    BY <1>1, <1>2
  <2>2. At(j, "recall").pc = "recall"
    BY <1>2, AtPlain
  <2>3. \A x : RecordOK([At(j, "recall") EXCEPT !.f1 = x])
    BY <2>1, <2>2 DEF RecordOK, JobFields
  <2> QED
    BY <1>8, <2>3 DEF PrecisionByRule, Goes
<1>9. CASE JobFails(j)
  <2>1. job' = [job EXCEPT ![j] = [job[j] EXCEPT !.pc = "failed"]]
    BY <1>9 DEF JobFails
  <2> QED
    BY <1>1, <1>2, <2>1
<1> QED
  BY <1>3, <1>4, <1>5, <1>6, <1>7, <1>8, <1>9

\* A row made of what F.1 and F.2 computed is a row of some events.
LEMMA MetricRowOK ==
  ASSUME NEW f1, CoverageOK(f1), NEW f2, Computable(f1, f2), NEW k \in DOMAIN f1, NEW p, NEW red
  PROVE  RowOK(MetricRow(k, p, f1, f2, red))
BY DEF CoverageOK, Computable, RowOK, MetricRow

\* The reduction F.4 adds to a row leaves its counts alone.
LEMMA ReducedRowOK ==
  ASSUME NEW row, RowOK(row), NEW red
  PROVE  RowOK([row EXCEPT !.reduction = red])
BY DEF RowOK

\* F.1 to F.4 and the rows they give.
LEMMA ComputeTyped ==
  ASSUME Typed, NEW j \in Job,
         ComputeCoverage(j) \/ ComputeAreas(j) \/ Compare(j) \/ RecallByRule(j)
  PROVE  JobsOK'
<1> SUFFICES \E r : RecordOK(r) /\ job' = [job EXCEPT ![j] = r]
  BY RecordMoves DEF Typed
<1>1. /\ job[j] = [f \in JobFields |-> job[j][f]] /\ RecordOK(job[j])
      /\ job[j].partition \in {"V", "C"}
      /\ job[j].seen = [status |-> job[j].seen.status, records |-> job[j].seen.records,
                        truths |-> job[j].seen.truths]
  BY DEF Typed, JobsOK, RecordOK
<1>2. RecordOK(At(j, "failed"))
  BY AtPlain DEF Typed, PlainSteps, Steps
<1>3. CASE ComputeCoverage(j)
  <2> DEFINE f1 == Coverage(estimate, truths, job[j].partition)
  <2>1. CoverageOK(f1)
    BY CoverageType DEF Typed, ValidationTypeOK
  <2> HIDE DEF f1
  <2>2. RecordOK([At(j, "areas") EXCEPT !.f1 = f1])
    BY <1>1, <2>1 DEF RecordOK, JobFields, At, Steps
  <2> QED
    BY <1>2, <1>3, <2>2 DEF ComputeCoverage, Goes, f1
<1>4. CASE ComputeAreas(j)
  <2> DEFINE f1 == job[j].f1
             f2 == AreaStats(estimate, truths, job[j].partition)
             rows == {MetricRow(k, job[j].partition, f1, f2, NoReduction) : k \in DOMAIN f1}
             next == IF job[j].partition = "V" THEN "reduction" ELSE "write"
             moved == [At(j, next) EXCEPT !.f1 = <<>>, !.todo = rows]
  <2>1. CoverageOK(f1) /\ job[j].pc = "areas"
    BY <1>1, <1>4 DEF RecordOK, ComputeAreas, Goes
  <2>2. job' = [job EXCEPT ![j] = IF ~Computable(f1, f2) THEN At(j, "failed") ELSE moved]
    BY <1>4 DEF ComputeAreas, Goes
  <2> HIDE DEF f2, f1
  <2>3. ASSUME Computable(f1, f2)
        PROVE  (\A row \in rows : RowOK(row)) /\ rows # {}
    BY <2>1, <2>3, MetricRowOK DEF Computable
  <2>4. next \in {"reduction", "write"}
    OBVIOUS
  <2> HIDE DEF rows, next
  <2>5. ASSUME Computable(f1, f2)
        PROVE  RecordOK(moved)
    BY <1>1, <2>3, <2>4, <2>5 DEF RecordOK, JobFields, At, Steps
  <2> QED
    BY <1>2, <2>2, <2>5
<1>5. CASE Compare(j)
  <2> DEFINE f4 == Reductions(estimate, truths)
             rows == {[r EXCEPT !.reduction = IF r.key = "M90" THEN ReductionOf(f4) ELSE @] :
                      r \in job[j].todo}
             moved == [At(j, "write") EXCEPT !.todo = rows]
  <2>1. /\ \A row \in job[j].todo : RowOK(row)
        /\ job[j].todo # {}
    BY <1>1, <1>5 DEF RecordOK, Compare, Goes
  <2>2. job' = [job EXCEPT ![j] = IF ~Reducible(f4) THEN At(j, "failed") ELSE moved]
    BY <1>5 DEF Compare, Goes
  <2>3. \A r \in job[j].todo :
          RowOK([r EXCEPT !.reduction = IF r.key = "M90" THEN ReductionOf(f4) ELSE @])
    BY <2>1, ReducedRowOK
  <2>4. (\A row \in rows : RowOK(row)) /\ rows # {}
    BY <2>1, <2>3
  <2> HIDE DEF rows
  <2>5. RecordOK(moved)
    BY <1>1, <2>4 DEF RecordOK, JobFields, At, Steps
  <2> QED
    BY <1>2, <2>2, <2>5
<1>6. CASE RecallByRule(j)
  <2>1. Rule # {}
    BY DEF Rule
  <2>2. RecordOK([At(j, "upsert") EXCEPT !.f2 = Recall(findings, truths), !.todo = Rule])
    BY <1>1, <2>1 DEF RecordOK, JobFields, At, Steps
  <2> QED
    BY <1>6, <2>2 DEF RecallByRule, Goes
<1> QED
  BY <1>3, <1>4, <1>5, <1>6

\* The rule an upsert takes is one of those left, the first.
LEMMA LeastRule ==
  ASSUME NEW S, S \subseteq Rule, S # {}
  PROVE  \E r \in S : \A s \in S : r <= s
<1>1. \A s \in S : s \in 1..5
  BY DEF Rule
<1>2. CASE 1 \in S
  BY <1>1, <1>2
<1>3. CASE 1 \notin S /\ 2 \in S
  BY <1>1, <1>3
<1>4. CASE 1 \notin S /\ 2 \notin S /\ 3 \in S
  BY <1>1, <1>4
<1>5. CASE 1 \notin S /\ 2 \notin S /\ 3 \notin S
  <2>1. \A s \in S : s = 4 \/ s = 5
    BY <1>1, <1>5
  <2> QED
    BY <2>1
<1> QED
  BY <1>2, <1>3, <1>4, <1>5

\* The row an INSERT takes is one of those left.
LEMMA WriteTakes ==
  ASSUME JobsOK, NEW j \in Job, WriteRow(j)
  PROVE  \E row \in job[j].todo :
           /\ metrics' = metrics \cup {[job |-> j, whole |-> job[j].whole, row |-> row]}
           /\ job' = [job EXCEPT ![j] =
                        IF job[j].todo \ {row} = {}
                        THEN [AfterRows(j) EXCEPT !.todo = {}]
                        ELSE [job[j] EXCEPT !.todo = job[j].todo \ {row}]]
<1>1. job[j].pc = "write" /\ job[j].todo # {}
  BY DEF WriteRow, JobsOK, RecordOK
<1>2. (CHOOSE r \in job[j].todo : TRUE) \in job[j].todo
  BY <1>1
<1> QED
  BY <1>1, <1>2 DEF WriteRow, Goes

LEMMA WriteRowTyped ==
  ASSUME Typed, NEW j \in Job, WriteRow(j)
  PROVE  /\ JobsOK'
         /\ \A m \in metrics' : m.job \in Job /\ m.row.n > 0 /\ m.row.hits \in 0..m.row.n
<1>1. PICK row \in job[j].todo :
           /\ metrics' = metrics \cup {[job |-> j, whole |-> job[j].whole, row |-> row]}
           /\ job' = [job EXCEPT ![j] =
                        IF job[j].todo \ {row} = {}
                        THEN [AfterRows(j) EXCEPT !.todo = {}]
                        ELSE [job[j] EXCEPT !.todo = job[j].todo \ {row}]]
  BY WriteTakes DEF Typed
<1>2. /\ job[j] = [f \in JobFields |-> job[j][f]] /\ RecordOK(job[j])
      /\ job[j].partition \in {"V", "C"} /\ job[j].pc = "write"
      /\ \A r \in job[j].todo : RowOK(r)
  BY DEF Typed, JobsOK, RecordOK, WriteRow
<1>3. RecordOK([AfterRows(j) EXCEPT !.todo = {}])
  <2>1. RecordOK(At(j, "coverage")) /\ RecordOK(At(j, "ok")) /\ RecordOK(At(j, "precision"))
        /\ At(j, "coverage").pc = "coverage" /\ At(j, "ok").pc = "ok"
        /\ At(j, "precision").pc = "precision"
    BY AtPlain DEF Typed, PlainSteps, Steps
  <2>2. AfterRows(j) \in {[At(j, "coverage") EXCEPT !.partition = "C"], At(j, "ok"),
                          At(j, "precision")}
    BY DEF AfterRows
  <2> QED
    BY <2>1, <2>2 DEF RecordOK, JobFields
<1>4. ASSUME NEW m \in metrics'
      PROVE  m.job \in Job /\ m.row.n > 0 /\ m.row.hits \in 0..m.row.n
  <2>1. CASE m \in metrics
    BY <2>1 DEF Typed, ValidationTypeOK
  <2>2. CASE m \notin metrics
    <3>1. m.job = j /\ m.row = row /\ RowOK(row)
      BY <1>1, <1>2, <2>2
    <3> QED
      BY <3>1 DEF RowOK
  <2> QED
    BY <2>1, <2>2
<1>5. CASE job[j].todo \ {row} = {}
  BY <1>1, <1>3, <1>4, <1>5, RecordMoves DEF Typed
<1>6. CASE job[j].todo \ {row} # {}
  <2>1. RecordOK([job[j] EXCEPT !.todo = job[j].todo \ {row}])
    BY <1>2, <1>6 DEF RecordOK, JobFields
  <2> QED
    BY <1>1, <1>4, <1>6, <2>1, RecordMoves DEF Typed
<1> QED
  BY <1>5, <1>6

\* What an upsert writes, and where it leaves the job.
LEMMA UpsertTakes ==
  ASSUME JobsOK, NEW j \in Job, UpsertRule(j)
  PROVE  \E r \in job[j].todo \cap Rule :
           /\ measures' = [s \in DOMAIN measures \cup {r} |->
                 IF s # r THEN measures[s] ELSE
                 [gated |-> Option[j].integrity = "only" /\ job[j].whole,
                  row |-> IntegrityRow(r, job[j].f1, job[j].f2, MinFindings)]]
           /\ job' = [job EXCEPT ![j] =
                        IF job[j].todo \ {r} = {}
                        THEN [At(j, "ok") EXCEPT !.f1 = <<>>, !.f2 = <<>>, !.todo = {}]
                        ELSE [job[j] EXCEPT !.todo = job[j].todo \ {r}]]
<1>1. job[j].pc = "upsert" /\ job[j].todo # {} /\ job[j].todo \subseteq Rule
  BY DEF UpsertRule, JobsOK, RecordOK
<1> DEFINE least == CHOOSE r \in job[j].todo : \A s \in job[j].todo : r <= s
<1>2. least \in job[j].todo
  BY <1>1, LeastRule
<1>3. /\ measures' = [s \in DOMAIN measures \cup {least} |->
            IF s # least THEN measures[s] ELSE
            [gated |-> Option[j].integrity = "only" /\ job[j].whole,
             row |-> IntegrityRow(least, job[j].f1, job[j].f2, MinFindings)]]
      /\ job' = [job EXCEPT ![j] =
                   IF job[j].todo \ {least} = {}
                   THEN [At(j, "ok") EXCEPT !.f1 = <<>>, !.f2 = <<>>, !.todo = {}]
                   ELSE [job[j] EXCEPT !.todo = job[j].todo \ {least}]]
  BY DEF UpsertRule, Goes
<1> HIDE DEF least
<1> QED
  BY <1>1, <1>2, <1>3

LEMMA UpsertTyped ==
  ASSUME Typed, NEW j \in Job, UpsertRule(j)
  PROVE  JobsOK' /\ DOMAIN measures' \subseteq Rule
<1>1. PICK r \in job[j].todo \cap Rule :
           /\ measures' = [s \in DOMAIN measures \cup {r} |->
                 IF s # r THEN measures[s] ELSE
                 [gated |-> Option[j].integrity = "only" /\ job[j].whole,
                  row |-> IntegrityRow(r, job[j].f1, job[j].f2, MinFindings)]]
           /\ job' = [job EXCEPT ![j] =
                        IF job[j].todo \ {r} = {}
                        THEN [At(j, "ok") EXCEPT !.f1 = <<>>, !.f2 = <<>>, !.todo = {}]
                        ELSE [job[j] EXCEPT !.todo = job[j].todo \ {r}]]
  BY UpsertTakes DEF Typed
<1>2. DOMAIN measures' \subseteq Rule
  BY <1>1 DEF Typed, ValidationTypeOK
<1>3. RecordOK([At(j, "ok") EXCEPT !.f1 = <<>>, !.f2 = <<>>, !.todo = {}])
  <2>1. RecordOK(At(j, "ok")) /\ At(j, "ok").pc = "ok"
    BY AtPlain DEF Typed, PlainSteps, Steps
  <2> QED
    BY <2>1 DEF RecordOK, JobFields
<1>4. /\ RecordOK(job[j]) /\ job[j].pc = "upsert"
  BY DEF Typed, JobsOK, UpsertRule
<1>5. ASSUME job[j].todo \ {r} # {}
      PROVE  RecordOK([job[j] EXCEPT !.todo = job[j].todo \ {r}])
  BY <1>4, <1>5 DEF RecordOK, JobFields
<1> QED
  BY <1>1, <1>2, <1>3, <1>5, RecordMoves DEF Typed

\* All the steps of a job.
LEMMA MeasureTyped ==
  ASSUME Typed, Measure
  PROVE  Typed'
<1>1. PICK j \in Job : MeasureStep(j)
  BY MeasureMoves
<1>2. UNCHANGED <<run, records, truths, estimate, findings, engine, handled>>
  BY MeasureMoves DEF tables, engineVars
<1>3. JobsOK'
  BY <1>1, GateTyped, ComputeTyped, WriteRowTyped, UpsertTyped DEF MeasureStep, Typed
<1>4. HistoryOK' /\ BudgetOK(budget')
  <2>1. CASE Start(j)
    BY <2>1 DEF Start, Typed, HistoryOK
  <2>2. CASE JobFails(j)
    <3>1. \E n \in Nat : budget' = [budget EXCEPT !.faults = n]
      BY <2>2 DEF JobFails, Typed, BudgetOK
    <3> QED
      BY <2>2, <3>1, BudgetStays DEF JobFails, Typed, HistoryOK
  <2>3. CASE ~Start(j) /\ ~JobFails(j)
    <3>1. UNCHANGED <<history, budget>>
      BY <1>1, <2>3
         DEF MeasureStep, Load, Calibrated, ReadStatus, CountRecords, CountTruths,
             CheckPreconditions, DeleteRun, ComputeCoverage, ComputeAreas, Compare, WriteRow,
             CountK7Truths, checkIntegrityPrecondition, PrecisionByRule, RecallByRule,
             UpsertRule, Still
    <3> QED
      BY <3>1 DEF Typed, HistoryOK
  <2> QED
    BY <2>1, <2>2, <2>3
<1>5. (\A m \in metrics' : m.job \in Job /\ m.row.n > 0 /\ m.row.hits \in 0..m.row.n)
      /\ DOMAIN measures' \subseteq Rule
  <2>1. CASE WriteRow(j)
    BY <2>1, WriteRowTyped DEF WriteRow, Typed, ValidationTypeOK
  <2>2. CASE UpsertRule(j)
    BY <2>2, UpsertTyped DEF UpsertRule, Typed, ValidationTypeOK
  <2>3. CASE ~WriteRow(j) /\ ~UpsertRule(j)
    <3>1. (metrics' = metrics \/ metrics' = {}) /\ measures' = measures
      BY <1>1, <2>3
         DEF MeasureStep, Start, Load, Calibrated, ReadStatus, CountRecords, CountTruths,
             CheckPreconditions, DeleteRun, ComputeCoverage, ComputeAreas, Compare,
             CountK7Truths, checkIntegrityPrecondition, PrecisionByRule, RecallByRule,
             JobFails, Still, results
    <3> QED
      BY <3>1 DEF Typed, ValidationTypeOK
  <2> QED
    BY <2>1, <2>2, <2>3
<1>6. ValidationTypeOK'
  BY <1>2, <1>3, <1>5 DEF Typed, ValidationTypeOK, JobsOK, RecordOK
<1> QED
  BY <1>3, <1>4, <1>6 DEF Typed

\* The gateway writes no table of the run.
LEMMA AskTyped ==
  ASSUME Typed, Ask
  PROVE  Typed'
<1>1. BudgetOK(budget')
  <2>1. budget' = budget \/ \E n \in Nat : budget' = [budget EXCEPT !.faults = n]
    <3>1. \/ budget' = budget
          \/ budget' = [budget EXCEPT !.faults = @]
          \/ budget.faults > 0 /\ budget' = [budget EXCEPT !.faults = @ - 1]
      BY DEF Ask, GatewayStep, Arrive, Count, Collect, Read, QueryFails, ClientLeaves, Record,
             Reply, Shutdown, Stop
    <3>2. budget.faults \in Nat
      BY DEF Typed, BudgetOK
    <3> QED
      BY <3>1, <3>2
  <2> QED
    BY <2>1, BudgetStays DEF Typed
<1> QED
  BY <1>1 DEF Ask, Typed, ValidationTypeOK, JobsOK, HistoryOK, tables, results, engineVars

\* Every step of the whole keeps the types.
LEMMA TypedStep == Typed /\ [Next]_vars => Typed'
<1> SUFFICES ASSUME Typed, [Next]_vars PROVE Typed'
  OBVIOUS
<1>1. CASE Search \/ UNCHANGED vars
  BY <1>1 DEF Search, vars, validationVars, tables, results, engineVars, Typed,
              ValidationTypeOK, JobsOK, HistoryOK
<1> QED
  BY <1>1, WriteTyped, MeasureTyped, AskTyped DEF Next

\* The tables, the jobs' records, the budget of faults and the history of the run keep
\* their types, whoever writes (the part of TypeOK every other proof here stands on).
THEOREM MeasurementTyped == Spec => []Typed
BY TypedInitially, TypedStep, PTL DEF Spec

-----------------------------------------------------------------------------
(* The answers of the gateway.                                             *)

Refused == {"sentinel", "filter"}

\* A check refuses when its condition holds.
LEMMA RefusalIs ==
  \A c \in BOOLEAN, k \in Refused :
    Refusal(c, k) \in Seq(Refused) /\ (Refusal(c, k) = <<>> <=> ~c)
BY DEF Refusal

\* Two lists of refusals refuse when one does.
LEMMA Refuses ==
  \A s, t \in Seq(Refused) :
    s \o t \in Seq(Refused) /\ (s \o t = <<>> <=> s = <<>> /\ t = <<>>)
OBVIOUS

\* What the parameters refuse.
LEMMA ParametersRefuse ==
  ASSUME NEW q
  PROVE  /\ runIDParam(q) \in Seq(Refused)
         /\ runIDParam(q) = <<>> <=> q.run \notin {"missing", "malformed"}
         /\ bboxParam(q) \in Seq(Refused)
         /\ bboxParam(q) = <<>> <=> q.bbox \notin {"malformed", "invalid"}
         /\ windowParam(q) \in Seq(Refused)
         /\ windowParam(q) = <<>> <=> q.window # "malformed"
         /\ floatParam(q) \in Seq(Refused)
         /\ floatParam(q) = <<>> <=> q.confidence # "malformed"
         /\ RunGiven(q) \in Seq(Refused)
         /\ RunGiven(q) = <<>> <=> q.run # "nil"
         /\ BBoxValidate(q) \in Seq(Refused)
         /\ BBoxValidate(q) = <<>> <=> q.bbox # "invalid"
         /\ Resolve(q) \in Seq(Refused)
         /\ Resolve(q) = <<>> <=> q.window # "inverted"
<1> USE RefusalIs, Refuses DEF Refused
<1>1. /\ runIDParam(q) \in Seq(Refused)
      /\ runIDParam(q) = <<>> <=> q.run \notin {"missing", "malformed"}
  BY DEF runIDParam
<1>2. /\ bboxParam(q) \in Seq(Refused)
      /\ bboxParam(q) = <<>> <=> q.bbox \notin {"malformed", "invalid"}
      /\ windowParam(q) \in Seq(Refused)
      /\ windowParam(q) = <<>> <=> q.window # "malformed"
  <2>1. (q.bbox \in {"malformed", "invalid"}) \in BOOLEAN /\ (q.window = "malformed") \in BOOLEAN
    OBVIOUS
  <2>2. /\ bboxParam(q) \in Seq(Refused)
        /\ bboxParam(q) = <<>> <=> q.bbox \notin {"malformed", "invalid"}
    BY <2>1 DEF bboxParam
  <2>3. /\ windowParam(q) \in Seq(Refused)
        /\ windowParam(q) = <<>> <=> q.window # "malformed"
    BY <2>1 DEF windowParam
  <2> QED
    BY <2>2, <2>3
<1>3. /\ floatParam(q) \in Seq(Refused)
      /\ floatParam(q) = <<>> <=> q.confidence # "malformed"
      /\ RunGiven(q) \in Seq(Refused)
      /\ RunGiven(q) = <<>> <=> q.run # "nil"
  BY DEF floatParam, RunGiven
<1>4. /\ BBoxValidate(q) \in Seq(Refused)
      /\ BBoxValidate(q) = <<>> <=> q.bbox # "invalid"
      /\ Resolve(q) \in Seq(Refused)
      /\ Resolve(q) = <<>> <=> q.window # "inverted"
  BY DEF BBoxValidate, Resolve
<1> QED
  BY <1>1, <1>2, <1>3, <1>4

LEMMA ValidatesRefuse ==
  ASSUME NEW q
  PROVE  /\ CellsValidate(q) \in Seq(Refused)
         /\ CellsValidate(q) = <<>> <=> q.run # "nil" /\ q.bbox # "invalid"
         /\ EstimatesValidate(q) \in Seq(Refused)
         /\ EstimatesValidate(q) = <<>> <=>
              /\ q.run # "nil" /\ q.bbox # "invalid" /\ q.subscriber # "missing"
              /\ q.method # "bad" /\ (q.surface = "grpc" => q.method # "lower")
              /\ q.confidence # "bad"
         /\ FindingsValidate(q) \in Seq(Refused)
         /\ FindingsValidate(q) = <<>> <=>
              q.run # "nil" /\ q.rule # "bad" /\ q.bbox # "invalid"
<1> DEFINE r == RunGiven(q)
           b == BBoxValidate(q)
           s == Refusal(q.subscriber = "missing", "sentinel")
           m == Refusal(q.method = "bad" \/ (q.surface = "grpc" /\ q.method = "lower"), "filter")
           c == Refusal(q.confidence = "bad", "filter")
           u == Refusal(q.rule = "bad", "filter")
<1>1. /\ r \in Seq(Refused) /\ (r = <<>> <=> q.run # "nil")
      /\ b \in Seq(Refused) /\ (b = <<>> <=> q.bbox # "invalid")
  BY ParametersRefuse
<1>2. /\ s \in Seq(Refused) /\ (s = <<>> <=> q.subscriber # "missing")
      /\ m \in Seq(Refused)
      /\ (m = <<>> <=> q.method # "bad" /\ (q.surface = "grpc" => q.method # "lower"))
      /\ c \in Seq(Refused) /\ (c = <<>> <=> q.confidence # "bad")
      /\ u \in Seq(Refused) /\ (u = <<>> <=> q.rule # "bad")
  BY RefusalIs DEF Refused
<1>3. /\ CellsValidate(q) = r \o b
      /\ EstimatesValidate(q) = r \o s \o m \o c \o b
      /\ FindingsValidate(q) = r \o u \o b
  BY DEF CellsValidate, EstimatesValidate, FindingsValidate
<1> HIDE DEF r, b, s, m, c, u
<1>4. /\ r \o s \in Seq(Refused) /\ r \o s \o m \in Seq(Refused)
      /\ r \o s \o m \o c \in Seq(Refused)
      /\ (r \o s \o m \o c = <<>> <=> r = <<>> /\ s = <<>> /\ m = <<>> /\ c = <<>>)
      /\ r \o u \in Seq(Refused) /\ (r \o u = <<>> <=> r = <<>> /\ u = <<>>)
  BY <1>1, <1>2, Refuses
<1> QED
  BY <1>1, <1>2, <1>3, <1>4, Refuses

\* The first refusal of a request is deserved, and a malformed request is refused
\* but for a method in lower case on the REST surface.
LEMMA RefusalsRight ==
  ASSUME NEW q \in Request
  PROVE  /\ Refusals(q) # <<>> => Malformed(q) /\ Head(Refusals(q)) \in Refused
         /\ Refusals(q) = <<>> /\ Malformed(q) => q.surface = "rest" /\ q.method = "lower"
<1> DEFINE s == Refusals(q)
<1>1. /\ q.surface \in {"rest", "grpc"}
      /\ q.run \in {"good", "missing", "malformed", "nil"}
      /\ q.bbox \in {"none", "good", "malformed", "invalid"}
      /\ q.window \in {"none", "good", "malformed", "inverted"}
      /\ q.confidence \in {"none", "good", "malformed", "bad"}
      /\ q.method \in {"none", "good", "lower", "bad"}
      /\ q.rule \in {"none", "good", "malformed", "bad"}
      /\ q.endpoint \in Maps \cup Lists
      /\ q.surface = "grpc" => /\ q.endpoint # "subscribers" /\ q.bbox # "malformed"
                               /\ q.confidence # "malformed" /\ q.rule # "malformed"
  BY GatewayAssumption
<1>2. /\ CellsValidate(q) \in Seq(Refused) /\ EstimatesValidate(q) \in Seq(Refused)
      /\ FindingsValidate(q) \in Seq(Refused)
      /\ runIDParam(q) \in Seq(Refused) /\ bboxParam(q) \in Seq(Refused)
      /\ windowParam(q) \in Seq(Refused) /\ floatParam(q) \in Seq(Refused)
      /\ RunGiven(q) \in Seq(Refused) /\ Resolve(q) \in Seq(Refused)
  BY ParametersRefuse, ValidatesRefuse
<1>3. s \in Seq(Refused) => (s # <<>> => Head(s) \in Refused)
  OBVIOUS
<1> SUFFICES s \in Seq(Refused) /\
             ((s # <<>> => Malformed(q))
              /\ (s = <<>> /\ Malformed(q) => q.surface = "rest" /\ q.method = "lower"))
  BY <1>3
<1> USE DEF Maps, Lists
<1>4. CASE q.endpoint = "runs"
  BY <1>1, <1>4 DEF Refusals, Routes, Methods, Malformed
<1>5. CASE q.endpoint \in {"subscribers", "metrics", "integrity metrics"}
  <2>1. s = runIDParam(q) \o RunGiven(q)
    BY <1>1, <1>5 DEF Refusals, Routes, Methods, handleSubscribers, handleMetrics, GetMetrics,
                      parseRunID
  <2>2. s \in Seq(Refused) /\ (s = <<>> <=> runIDParam(q) = <<>> /\ RunGiven(q) = <<>>)
    BY <1>2, <2>1, Refuses
  <2>3. s = <<>> <=> q.run = "good"
    BY <1>1, <2>2, ParametersRefuse
  <2> QED
    BY <1>5, <2>2, <2>3 DEF Malformed
<1>6. CASE q.endpoint \in {"cells", "activity"}
  <2>1. CASE q.surface = "rest"
    <3>1. s = runIDParam(q) \o bboxParam(q) \o CellsValidate(q)
      BY <1>6, <2>1 DEF Refusals, Routes, handleCells, handleCellActivity
    <3>2. runIDParam(q) \o bboxParam(q) \in Seq(Refused)
          /\ (runIDParam(q) \o bboxParam(q) = <<>> <=> runIDParam(q) = <<>> /\ bboxParam(q) = <<>>)
      BY <1>2, Refuses
    <3>3. s \in Seq(Refused) /\ (s = <<>> <=> /\ runIDParam(q) = <<>> /\ bboxParam(q) = <<>>
                                              /\ CellsValidate(q) = <<>>)
      BY <1>2, <3>1, <3>2, Refuses
    <3>4. s = <<>> <=> q.run = "good" /\ q.bbox \in {"none", "good"}
      BY <1>1, <3>3, ParametersRefuse, ValidatesRefuse
    <3> QED
      BY <1>1, <1>6, <3>3, <3>4 DEF Malformed
  <2>2. CASE q.surface = "grpc"
    <3>1. s = runIDParam(q) \o CellsValidate(q)
      BY <1>6, <2>2 DEF Refusals, Methods, GetCells, GetCellActivity, parseRunID
    <3>2. s \in Seq(Refused) /\ (s = <<>> <=> runIDParam(q) = <<>> /\ CellsValidate(q) = <<>>)
      BY <1>2, <3>1, Refuses
    <3>3. s = <<>> <=> q.run = "good" /\ q.bbox \in {"none", "good"}
      BY <1>1, <2>2, <3>2, ParametersRefuse, ValidatesRefuse
    <3> QED
      BY <1>1, <1>6, <3>2, <3>3 DEF Malformed
  <2> QED
    BY <1>1, <2>1, <2>2
<1>7. CASE q.endpoint \in {"estimates", "findings"}
  <2> DEFINE v == IF q.endpoint = "estimates" THEN EstimatesValidate(q) ELSE FindingsValidate(q)
             w == runIDParam(q) \o windowParam(q)
             b == w \o bboxParam(q)
             c == b \o floatParam(q)
  <2>1. /\ v \in Seq(Refused) /\ w \in Seq(Refused) /\ b \in Seq(Refused) /\ c \in Seq(Refused)
        /\ w = <<>> <=> runIDParam(q) = <<>> /\ windowParam(q) = <<>>
        /\ b = <<>> <=> w = <<>> /\ bboxParam(q) = <<>>
        /\ c = <<>> <=> b = <<>> /\ floatParam(q) = <<>>
    BY <1>2, Refuses
  <2>2. \/ q.surface = "rest" /\ q.endpoint = "estimates" /\ s = c \o v \o Resolve(q)
        \/ q.surface = "rest" /\ q.endpoint = "findings" /\ s = b \o v \o Resolve(q)
        \/ q.surface = "grpc" /\ s = w \o v \o Resolve(q)
    BY <1>1, <1>7 DEF Refusals, Routes, Methods, handleEstimates, handleFindings, GetEstimates,
                      GetFindings, parseRunID, toWindow
  <2> HIDE DEF v, w, b, c
  <2>3. \A x \in {b, c, w} : /\ x \o v \o Resolve(q) \in Seq(Refused)
                             /\ x \o v \o Resolve(q) = <<>> <=>
                                  x = <<>> /\ v = <<>> /\ Resolve(q) = <<>>
    BY <1>2, <2>1, Refuses
  <2>4. s \in Seq(Refused)
    BY <2>2, <2>3
  <2>5. CASE q.surface = "rest" /\ q.endpoint = "estimates"
    <3>1. s = <<>> <=> c = <<>> /\ EstimatesValidate(q) = <<>> /\ Resolve(q) = <<>>
      BY <2>2, <2>3, <2>5 DEF v
    <3> QED
      BY <1>1, <2>1, <2>4, <2>5, <3>1, ParametersRefuse, ValidatesRefuse DEF Malformed
  <2>6. CASE q.surface = "rest" /\ q.endpoint = "findings"
    <3>1. s = <<>> <=> b = <<>> /\ FindingsValidate(q) = <<>> /\ Resolve(q) = <<>>
      BY <2>2, <2>3, <2>6 DEF v
    <3> QED
      BY <1>1, <2>1, <2>4, <2>6, <3>1, ParametersRefuse, ValidatesRefuse DEF Malformed
  <2>7. CASE q.surface = "grpc"
    <3>1. s = <<>> <=> w = <<>> /\ v = <<>> /\ Resolve(q) = <<>>
      BY <2>2, <2>3, <2>7
    <3>2. CASE q.endpoint = "estimates"
      BY <1>1, <2>1, <2>4, <2>7, <3>1, <3>2, ParametersRefuse, ValidatesRefuse DEF Malformed, v
    <3>3. CASE q.endpoint = "findings"
      BY <1>1, <2>1, <2>4, <2>7, <3>1, <3>3, ParametersRefuse, ValidatesRefuse DEF Malformed, v
    <3> QED
      BY <1>7, <3>2, <3>3
  <2> QED
    BY <1>7, <2>2, <2>5, <2>6, <2>7
<1> QED
  BY <1>1, <1>4, <1>5, <1>6, <1>7

\* What is known of a request in flight. While its class is ok its filters were
\* accepted; a map counted no more than the limit, and unless a writer has moved
\* the table since, the second statement reads what the first one counted.
Served(r) ==
  /\ r = [f \in {"q", "step", "class", "count", "features", "moved", "gone", "failed"} |-> r[f]]
  /\ r.q \in Request
  /\ r.step \in {"count", "collect", "read", "audit", "answer"}
  /\ r.class \in Refused \cup {"ok", "too many", "internal"}
  /\ r.class \in Refused => Malformed(r.q)
  /\ r.class = "too many" => r.count > MaxGeometries
  /\ r.class = "internal" => r.failed
  /\ r.class = "ok" /\ Malformed(r.q) => r.q.surface = "rest" /\ r.q.method = "lower"
  /\ r.step \in {"count", "collect", "read"} => r.class = "ok"
  /\ r.step = "read" /\ r.q.endpoint \in Maps => r.q.endpoint = "activity"
  /\ r.step \in {"count", "collect"} => r.q.endpoint \in Maps
  /\ r.step = "collect" =>
       /\ r.count <= MaxGeometries
       /\ r.moved \/ \A q \in {r.q} : Cardinality(Rows(q)) = r.count
  /\ r.step \in {"audit", "answer"} /\ r.class = "ok" /\ r.q.endpoint \in Maps =>
       r.moved \/ (r.features = r.count /\ r.features <= MaxGeometries)

RightInv == (request = NoRequest \/ Served(request)) /\ AnswersAreRight

\* Tables that stay give the same rows.
LEMMA RowsStay ==
  ASSUME UNCHANGED <<tables, results>>
  PROVE  \A q : Rows(q)' = Rows(q)
BY DEF tables, results, Rows, EstimateRows, FindingRows, SubscriberRows, KeptCells, SubscribersOf,
       RunRows

\* A map has a finite number of rows.
LEMMA MapsFinite ==
  ASSUME Typed, NEW q, q.endpoint \in Maps
  PROVE  Cardinality(Rows(q)) \in Nat
<1>1. IsFiniteSet(Rows(q))
  <2>1. CASE q.endpoint = "estimates"
    <3> DEFINE E == {x \in Estimated(estimate) \cap records : SubscriberOf[x] = q.subscriber}
               K == IF q.method = "none" THEN Key ELSE {"M90"}
    <3>1. IsFiniteSet(E)
      BY FiniteRun DEF Typed, ValidationTypeOK
    <3>2. IsFiniteSet(K)
      <4>1. IsFiniteSet({"M90"})
        BY FS_Singleton
      <4> QED
        BY <4>1, FiniteRun
    <3>3. EstimateRows(q) = E \X K
      BY DEF EstimateRows
    <3>4. IsFiniteSet(E \X K)
      BY <3>1, <3>2, FS_Product
    <3> QED
      BY <2>1, <3>3, <3>4 DEF Rows
  <2>2. CASE q.endpoint = "findings"
    <3>1. FindingRows(q) \subseteq Finding /\ IsFiniteSet(Finding)
      BY MeasuresAssumption DEF FindingRows, Typed, ValidationTypeOK
    <3>2. Rows(q) = FindingRows(q)
      BY <2>2 DEF Rows
    <3> QED
      BY <3>1, <3>2, FS_Subset
  <2>3. CASE q.endpoint \in {"cells", "activity"}
    <3>1. Rows(q) \subseteq Cells
      BY <2>3 DEF Rows, KeptCells
    <3> QED
      BY <3>1, GatewayAssumption, FS_Subset
  <2> QED
    BY <2>1, <2>2, <2>3 DEF Maps
<1> QED
  BY <1>1, FS_CardinalityType

\* Beside a step of a writer or a job the request stays, or learns that its table
\* moved.
LEMMA NoticedRight ==
  ASSUME RightInv, Noticed, answer' = answer
  PROVE  RightInv'
<1>1. AnswersAreRight'
  BY DEF RightInv, AnswersAreRight
<1>2. CASE request = NoRequest
  BY <1>1, <1>2 DEF Noticed, NoRequest, RightInv
<1>3. CASE Served(request) /\ request.step = "collect" /\ \E q \in {request.q} : Rows(q) # Rows(q)'
  <2>1. request' = [request EXCEPT !.moved = TRUE]
    BY <1>3 DEF Noticed
  <2>2. Served(request)'
    BY <1>3, <2>1 DEF Served
  <2> QED
    BY <1>1, <2>2 DEF RightInv
<1>4. CASE /\ Served(request) /\ request' = request
           /\ request.step = "collect" => \A q \in {request.q} : Rows(q)' = Rows(q)
  <2>1. Served(request)'
    BY <1>4 DEF Served
  <2> QED
    BY <1>1, <2>1 DEF RightInv
<1> QED
  BY <1>2, <1>3, <1>4 DEF RightInv, Noticed

\* The table a step of the gateway reads stays.
LEMMA StepRight ==
  ASSUME RightInv, UNCHANGED <<tables, results>>, answer' = answer,
         \/ request' = NoRequest
         \/ /\ Served(request)
            /\ \/ request' = [request EXCEPT !.gone = TRUE]
               \/ request' = [request EXCEPT !.class = "internal", !.step = "audit",
                                             !.failed = TRUE]
               \/ request.step = "audit" /\ request' = [request EXCEPT !.step = "answer"]
               \/ request' = request
  PROVE  RightInv'
<1>1. AnswersAreRight'
  BY DEF RightInv, AnswersAreRight
<1>2. \A q : Rows(q)' = Rows(q)
  BY RowsStay
<1>3. CASE request' = NoRequest
  BY <1>1, <1>3 DEF RightInv
<1>4. CASE Served(request) /\ request' = [request EXCEPT !.gone = TRUE]
  <2> DEFINE Fields == {"q", "step", "class", "count", "features", "moved", "gone", "failed"}
  <2>1. request = [f \in Fields |-> request[f]]
    BY <1>4 DEF Served
  <2>2. PICK r : r = request'
    OBVIOUS
  <2>3. /\ r = [f \in Fields |-> r[f]]
        /\ r.q = request.q /\ r.step = request.step /\ r.class = request.class
        /\ r.count = request.count /\ r.features = request.features
        /\ r.moved = request.moved /\ r.failed = request.failed
    BY <1>4, <2>1, <2>2
  <2>4. Served(r)
    <3>1. Served(request)
      BY <1>4
    <3> HIDE DEF Fields
    <3>2. r.q \in Request /\ r.step \in {"count", "collect", "read", "audit", "answer"}
      BY <2>3, <3>1 DEF Served
    <3>3. r.class \in Refused \cup {"ok", "too many", "internal"}
      BY <2>3, <3>1 DEF Served
    <3>4. /\ r.class \in Refused => Malformed(r.q)
          /\ r.class = "too many" => r.count > MaxGeometries
          /\ r.class = "internal" => r.failed
      BY <2>3, <3>1 DEF Served
    <3>5. /\ r.class = "ok" /\ Malformed(r.q) => r.q.surface = "rest" /\ r.q.method = "lower"
          /\ r.step \in {"count", "collect", "read"} => r.class = "ok"
          /\ r.step = "read" /\ r.q.endpoint \in Maps => r.q.endpoint = "activity"
          /\ r.step \in {"count", "collect"} => r.q.endpoint \in Maps
      BY <2>3, <3>1 DEF Served
    <3>6. r.step = "collect" =>
            /\ r.count <= MaxGeometries
            /\ r.moved \/ \A q \in {r.q} : Cardinality(Rows(q)) = r.count
      BY <2>3, <3>1 DEF Served
    <3>7. r.step \in {"audit", "answer"} /\ r.class = "ok" /\ r.q.endpoint \in Maps =>
            r.moved \/ (r.features = r.count /\ r.features <= MaxGeometries)
      BY <2>3, <3>1 DEF Served
    <3> QED
      BY <2>3, <3>2, <3>3, <3>4, <3>5, <3>6, <3>7 DEF Served, Fields
  <2>5. Served(request)'
    BY <1>2, <2>2, <2>4 DEF Served
  <2> QED
    BY <1>1, <2>5 DEF RightInv
<1>5. CASE /\ Served(request)
           /\ request' = [request EXCEPT !.class = "internal", !.step = "audit", !.failed = TRUE]
  <2>1. Served(request)'
    BY <1>5 DEF Served, Refused
  <2> QED
    BY <1>1, <2>1 DEF RightInv
<1>6. CASE /\ Served(request) /\ request.step = "audit"
           /\ request' = [request EXCEPT !.step = "answer"]
  <2>1. Served(request)'
    BY <1>6 DEF Served
  <2> QED
    BY <1>1, <2>1 DEF RightInv
<1>7. CASE Served(request) /\ request' = request
  <2>1. Served(request)'
    BY <1>2, <1>7 DEF Served
  <2> QED
    BY <1>1, <2>1 DEF RightInv
<1> QED
  BY <1>3, <1>4, <1>5, <1>6, <1>7

\* A request starts with what Validate says of it.
LEMMA ArriveRight ==
  ASSUME RightInv, NEW q \in Request, Arrive(q)
  PROVE  RightInv'
<1>1. AnswersAreRight'
  BY DEF RightInv, AnswersAreRight, Arrive
<1>2. q.endpoint \in Maps \cup Lists
  BY GatewayAssumption
<1>3. CASE Refusals(q) # <<>>
  <2>1. request' = InFlight(q, "audit", Head(Refusals(q)))
    BY <1>3 DEF Arrive
  <2>2. Malformed(q) /\ Head(Refusals(q)) \in Refused
    BY <1>3, RefusalsRight
  <2>3. \A c \in Refused : c # "ok" /\ c # "too many" /\ c # "internal"
    BY DEF Refused
  <2>4. Served(request)'
    BY <2>1, <2>2, <2>3 DEF Served, InFlight
  <2> QED
    BY <1>1, <2>4 DEF RightInv
<1>4. CASE Refusals(q) = <<>>
  <2>1. request' = InFlight(q, FirstQuery(q), "ok")
    BY <1>4 DEF Arrive
  <2>2. Malformed(q) => q.surface = "rest" /\ q.method = "lower"
    BY <1>4, RefusalsRight
  <2>3. FirstQuery(q) \in {"count", "read"} /\ (FirstQuery(q) = "count" => q.endpoint \in Maps)
        /\ (FirstQuery(q) = "read" /\ q.endpoint \in Maps => q.endpoint = "activity")
    BY DEF FirstQuery
  <2>4. "ok" \notin Refused
    BY DEF Refused
  <2>5. Served(request)'
    BY <2>1, <2>2, <2>3, <2>4 DEF Served, InFlight
  <2> QED
    BY <1>1, <2>5 DEF RightInv
<1> QED
  BY <1>3, <1>4

\* The statements of a request.
LEMMA StatementRight ==
  ASSUME Typed, RightInv, Count \/ Collect \/ Read, UNCHANGED <<tables, results>>
  PROVE  RightInv'
<1>1. AnswersAreRight'
  BY DEF RightInv, AnswersAreRight, Count, Collect, Read
<1>2. \A q : Rows(q)' = Rows(q)
  BY RowsStay
<1>3. Served(request) /\ "ok" \notin Refused /\ "too many" \notin Refused
  BY DEF RightInv, NoRequest, Count, Collect, Read, Refused
<1> DEFINE n == Cardinality(Rows(request.q))
<1>4. MaxGeometries \in Nat /\ (checkLimit(n) = "ok" \/ (checkLimit(n) = "too many" /\ n > MaxGeometries))
  BY GatewayAssumption DEF checkLimit
<1>5. request.q.endpoint \in Maps => n \in Nat /\ (checkLimit(n) = "ok" => n <= MaxGeometries)
  BY <1>4, MapsFinite DEF checkLimit
<1>6. CASE Count
  <2>1. request' = [request EXCEPT !.count = n, !.class = checkLimit(n),
                       !.step = IF checkLimit(n) = "ok" THEN "collect" ELSE "audit"]
        /\ request.step = "count"
    BY <1>6 DEF Count
  <2>2. \A q \in {request.q} : Cardinality(Rows(q))' = n
    BY <1>2
  <2> HIDE DEF n
  <2>3. Served(request)'
    BY <1>3, <1>4, <1>5, <2>1, <2>2 DEF Served
  <2> QED
    BY <1>1, <2>3 DEF RightInv
<1>7. CASE Collect
  <2>1. request' = [request EXCEPT !.features = n, !.step = "audit"] /\ request.step = "collect"
    BY <1>7 DEF Collect
  <2>2. request.moved \/ (n = request.count /\ n <= MaxGeometries)
    BY <1>3, <2>1 DEF Served
  <2> HIDE DEF n
  <2>3. Served(request)'
    BY <1>3, <2>1, <2>2 DEF Served
  <2> QED
    BY <1>1, <2>3 DEF RightInv
<1>8. CASE Read
  <2>1. request' = [request EXCEPT !.count = n, !.features = n, !.step = "audit",
                       !.class = IF request.q.endpoint = "activity" THEN checkLimit(n) ELSE "ok"]
        /\ request.step = "read"
    BY <1>8 DEF Read
  <2> HIDE DEF n
  <2>2. Served(request)'
    BY <1>3, <1>4, <1>5, <2>1 DEF Served
  <2> QED
    BY <1>1, <2>2 DEF RightInv
<1> QED
  BY <1>6, <1>7, <1>8

\* The answer says what became of the request.
LEMMA ReplyRight ==
  ASSUME RightInv, Reply
  PROVE  RightInv'
<1>1. Served(request) /\ request.step = "answer"
  BY DEF RightInv, Reply, NoRequest
<1>2. answer' = [q |-> request.q, count |-> request.count,
                 features |-> request.features, moved |-> request.moved,
                 failed |-> request.failed,
                 status |-> IF request.q.surface = "rest" THEN RestStatus(request.class)
                                                          ELSE GrpcCode(request.class)]
      /\ request' = NoRequest
  BY DEF Reply
<1>3. answer'.status \in {"500", "Internal"} => request.class \in {"internal", "filter"}
  BY <1>1, <1>2 DEF Served, Refused, RestStatus, GrpcCode, IsBadRequest
<1>4. answer'.status = "500" => request.failed
  BY <1>1, <1>2 DEF Served, Refused, RestStatus, GrpcCode, IsBadRequest
<1>5. answer'.status \in {"400", "InvalidArgument"} =>
        Malformed(request.q) \/ request.count > MaxGeometries
  BY <1>1, <1>2 DEF Served, Refused, RestStatus, GrpcCode, IsBadRequest
<1>6. answer'.status \in {"200", "OK"} => request.class = "ok"
  BY <1>1, <1>2 DEF Served, Refused, RestStatus, GrpcCode, IsBadRequest
<1>7. AnswersAreRight'
  BY <1>1, <1>2, <1>4, <1>5, <1>6 DEF AnswersAreRight, Served, Malformed
<1> QED
  BY <1>2, <1>7 DEF RightInv

\* No step of the whole makes an answer wrong.
LEMMA RightStep == Typed /\ RightInv /\ [Next]_vars => RightInv'
<1> SUFFICES ASSUME Typed, RightInv, [Next]_vars PROVE RightInv'
  OBVIOUS
<1>1. CASE Write
  BY <1>1, WriteMoves, NoticedRight
<1>2. CASE Measure
  BY <1>2, MeasureMoves, NoticedRight
<1>3. CASE Search \/ UNCHANGED vars
  <2>1. UNCHANGED <<tables, results, request, answer>>
    BY <1>3 DEF Search, vars, validationVars, gatewayVars
  <2> QED
    BY <2>1, StepRight DEF RightInv
<1>4. CASE Ask
  <2>1. UNCHANGED <<tables, results>>
    BY <1>4 DEF Ask
  <2>2. CASE \E q \in Request : Arrive(q)
    BY <2>2, ArriveRight
  <2>3. CASE Count \/ Collect \/ Read
    BY <2>1, <2>3, StatementRight
  <2>4. CASE QueryFails \/ ClientLeaves \/ Record \/ Shutdown \/ Stop
    BY <2>1, <2>4, StepRight
       DEF QueryFails, ClientLeaves, Record, Shutdown, Stop, RightInv, NoRequest
  <2>5. CASE Reply
    BY <2>5, ReplyRight
  <2> QED
    BY <1>4, <2>2, <2>3, <2>4, <2>5 DEF Ask, GatewayStep
<1> QED
  BY <1>1, <1>2, <1>3, <1>4 DEF Next

\* A REST answer is 500 only when a statement failed; 400 and InvalidArgument only
\* for a malformed request or one that asks for too much; a map holds what its
\* header counts and keeps to the limit unless a writer moved the table between
\* the two statements (fail, isValidationError, checkLimit, count and collect).
THEOREM AnswersRight == Spec => []AnswersAreRight
<1>1. Init => RightInv
  BY DEF Init, GatewayInit, RightInv, AnswersAreRight
<1>2. RightInv => AnswersAreRight
  BY DEF RightInv
<1> QED
  BY <1>1, <1>2, RightStep, MeasurementTyped, PTL DEF Spec

ServerOK == server \in {"up", "draining", "down"}

\* The server is up, draining or down.
LEMMA ServerStep == ServerOK /\ [Next]_vars => ServerOK'
<1> SUFFICES ASSUME ServerOK, [Next]_vars PROVE ServerOK'
  OBVIOUS
<1>1. CASE Ask
  BY <1>1 DEF Ask, GatewayStep, Arrive, Count, Collect, Read, QueryFails, ClientLeaves, Record,
              Reply, Shutdown, Stop, ServerOK
<1>2. CASE Write \/ Measure \/ Search \/ UNCHANGED vars
  BY <1>2 DEF Write, Measure, Search, vars, gatewayVars, ServerOK
<1> QED
  BY <1>1, <1>2 DEF Next

\* Type correctness of a run being measured: the tables, the jobs' steps, the rows
\* (no row of no event, never more hits than events), the search, the server and
\* its counters.
THEOREM MeasurementTypeOK == Spec => []TypeOK
<1>1. Init => BooksInv /\ RightInv /\ ServerOK
  BY BooksInitially DEF Init, GatewayInit, RightInv, AnswersAreRight, ServerOK
<1>2. Typed /\ BisectionTypeOK /\ BooksInv /\ RightInv /\ ServerOK => TypeOK
  <2> SUFFICES ASSUME Typed, BisectionTypeOK, BooksInv, RightInv, ServerOK PROVE TypeOK
    OBVIOUS
  <2>1. request.step \in {"none", "count", "collect", "read", "audit", "answer"}
    <3>1. CASE request = NoRequest
      BY <3>1 DEF NoRequest
    <3>2. CASE Served(request)
      BY <3>2 DEF Served
    <3> QED
      BY <3>1, <3>2 DEF RightInv
  <2>2. \A c \in DOMAIN counters : counters[c] \in Nat
    BY DEF BooksInv, CountersOK
  <2> QED
    BY <2>1, <2>2 DEF Typed, GatewayTypeOK, TypeOK, ServerOK
<1>3. Spec => []BisectionTypeOK
  BY SearchIsBisection, BisectionTypeCorrect, PTL
<1> QED
  BY <1>1, <1>2, <1>3, BooksStep, RightStep, ServerStep, MeasurementTyped, PTL DEF Spec
-----------------------------------------------------------------------------
(* The metrics table, which has no key: OneRowPerKey.                      *)

\* The hypothesis of OneRowPerKey.
Recomputes == (\A j \in budget.jobs : Option[j].recompute) /\ ~history.overlap

Unique ==
  \A m, n \in metrics : m.row.key = n.row.key /\ m.row.partition = n.row.partition => m = n

OfV == \A m \in metrics : m.row.partition = "V"

\* The rows of the partition V are there, all written by job j.
RowsDone(j) ==
  {m.row.key : m \in {o \in metrics : o.job = j /\ o.row.partition = "V"}} = Key

\* Job j has written some rows of its partition and has the others ahead.
Written(r, j) ==
  LET present == {m \in metrics : m.row.partition = r.partition}
  IN  /\ \A m \in present : m.job = j
      /\ {m.row.key : m \in present} \cup {row.key : row \in r.todo} = Key
      /\ \A m \in present, row \in r.todo : m.row.key # row.key
      /\ (IF r.partition = "V" THEN OfV ELSE RowsDone(j))

OnePerKey(r) ==
  \A s, t \in r.todo : s.partition = r.partition /\ (s.key = t.key => s = t)

\* What the table holds when the record of job j is r.
Progress(r, j) ==
  /\ r.pc \in {"coverage", "areas"} /\ r.partition = "V" => metrics = {}
  /\ r.pc \in {"coverage", "areas"} /\ r.partition # "V" => OfV /\ RowsDone(j)
  /\ r.pc = "reduction" => metrics = {} /\ OnePerKey(r) /\ {row.key : row \in r.todo} = Key
  /\ r.pc = "write" => OnePerKey(r) /\ Written(r, j)
  /\ r.pc \in {"precision", "recall", "upsert", "ok"} /\ Option[j].integrity # "only"
       => RowsDone(j)

\* The steps up to the comparison are those of the partition V.
Early == {"waiting", "load", "search", "status", "records", "truths", "gate", "delete",
          "reduction"}

PlaceOK(r, j) ==
  /\ r.pc # "waiting" => j \in budget.jobs
  /\ r.pc \in Early => r.partition = "V"
  /\ r.pc \in {"k7 truths", "k7 status"} => Option[j].integrity = "only"

Idle == {"waiting", "ok", "refused", "failed"}

RowInv ==
  /\ \A j \in Job : PlaceOK(job[j], j)
  /\ \A j \in Job : Active(j) => history.last = j \/ history.overlap
  /\ Recomputes =>
       /\ Unique
       /\ \A j \in Job : Active(j) \/ (job[j].pc = "ok" /\ history.last = j)
                           => Progress(job[j], j)

\* At first no job has a row to write.
LEMMA RowsFromTheStart == Init => RowInv
<1> SUFFICES ASSUME Init PROVE RowInv
  OBVIOUS
<1>1. metrics = {} /\ \A j \in Job : job[j].pc = "waiting" /\ job[j].partition = "V"
  BY DEF Init, ValidationInit, Waiting
<1>2. Unique
  BY <1>1 DEF Unique
<1> QED
  BY <1>1, <1>2 DEF RowInv, PlaceOK, Active

\* Who takes part does not change, and neither does the table's past.
SameCast == /\ budget'.jobs = budget.jobs
            /\ history'.overlap = history.overlap /\ history'.last = history.last

\* Nothing this is about changes.
LEMMA RowsUntouched ==
  ASSUME RowInv, SameCast, UNCHANGED <<job, metrics>>
  PROVE  RowInv'
<1>1. job' = job /\ metrics' = metrics
  OBVIOUS
<1>2. (Recomputes' => Recomputes) /\ (Unique => Unique')
  BY <1>1 DEF SameCast, Recomputes, Unique
<1>3. \A j \in Job : PlaceOK(job[j], j) => PlaceOK(job[j], j)'
  BY <1>1 DEF SameCast, PlaceOK
<1>4. \A j \in Job : Progress(job[j], j) => Progress(job[j], j)'
  <2>1. (OfV' <=> OfV) /\ \A j : RowsDone(j)' = RowsDone(j)
    BY <1>1 DEF OfV, RowsDone
  <2>2. \A j \in Job : /\ Written(job[j], j)' <=> Written(job[j], j)
                       /\ OnePerKey(job[j])' <=> OnePerKey(job[j])
    BY <1>1, <2>1 DEF Written, OnePerKey
  <2> QED
    BY <1>1, <2>1, <2>2 DEF Progress
<1>5. \A j \in Job : Active(j)' <=> Active(j)
  BY <1>1 DEF Active
<1> QED
  BY <1>1, <1>2, <1>3, <1>4, <1>5 DEF RowInv, SameCast

\* The running job goes on, from its record to the record r.
LEMMA RunningJobMoves ==
  ASSUME Typed, RowInv, SameCast, NEW j \in Job, Active(j),
         NEW r, job' = [job EXCEPT ![j] = r],
         PlaceOK(r, j),
         Recomputes /\ Progress(job[j], j) /\ Unique =>
           Unique' /\ (r.pc \notin {"refused", "failed"} => Progress(r, j)')
  PROVE  RowInv'
<1>1. job'[j] = r /\ \A i \in Job \ {j} : job'[i] = job[i]
  BY RecordMoves DEF Typed
<1>2. \A i \in Job : Active(i)' => history.last = i \/ history.overlap
  <2>1. ASSUME NEW i \in Job, Active(i)' PROVE history.last = i \/ history.overlap
    <3>1. CASE i = j
      BY <3>1 DEF RowInv
    <3>2. CASE i # j
      <4>1. job'[i] = job[i]
        BY <1>1, <3>2
      <4>2. Active(i)
        BY <2>1, <4>1 DEF Active
      <4> QED
        BY <4>2 DEF RowInv
    <3> QED
      BY <3>1, <3>2
  <2> QED
    BY <2>1
<1>3. ASSUME Recomputes'
      PROVE  /\ Unique'
             /\ \A i \in Job : Active(i)' \/ (job'[i].pc = "ok" /\ history'.last = i)
                                 => Progress(job[i], i)'
  <2>1. Recomputes /\ ~history.overlap
    BY <1>3 DEF Recomputes, SameCast
  <2>2. Progress(job[j], j) /\ Unique
    BY <2>1 DEF RowInv
  <2>3. history.last = j /\ Unique' /\ (r.pc \notin {"refused", "failed"} => Progress(r, j)')
    BY <2>1, <2>2 DEF RowInv
  <2>4. ASSUME NEW i \in Job, Active(i)' \/ (job'[i].pc = "ok" /\ history'.last = i)
        PROVE  Progress(job[i], i)'
    <3>1. i = j
      BY <1>2, <2>1, <2>3, <2>4 DEF SameCast
    <3>2. r.pc \notin {"refused", "failed"}
      BY <1>1, <2>4, <3>1 DEF Active
    <3>3. job'[i] = r
      BY <1>1, <3>1
    <3> QED
      BY <2>3, <3>1, <3>2, <3>3 DEF Progress, OnePerKey, Written
  <2> QED
    BY <2>3, <2>4
<1> QED
  <2>1. \A i \in Job : PlaceOK(job[i], i)'
    <3>1. ASSUME NEW i \in Job PROVE PlaceOK(job[i], i)'
      <4>1. CASE i = j
        BY <1>1, <4>1 DEF PlaceOK, SameCast
      <4>2. CASE i # j
        <5>1. job'[i] = job[i] /\ PlaceOK(job[i], i)
          BY <1>1, <4>2 DEF RowInv
        <5> QED
          BY <5>1 DEF PlaceOK, SameCast
      <4> QED
        BY <4>1, <4>2
    <3> QED
      BY <3>1
  <2>2. \A i \in Job : Active(i)' => history'.last = i \/ history'.overlap
    BY <1>2 DEF SameCast
  <2> QED
    BY <1>3, <2>1, <2>2 DEF RowInv

\* Writers and the gateway change neither the jobs left to start nor the overlap.
LEMMA CastStays ==
  ASSUME Typed, Write \/ Ask
  PROVE  SameCast
<1>1. HistoryOK /\ budget = [f \in DOMAIN budget |-> budget[f]] /\ "jobs" \in DOMAIN budget
  BY DEF Typed, BudgetOK
<1>2. CASE Write
  <2>1. budget' = budget \/ \E n : \/ budget' = [budget EXCEPT !.losses = n]
                                  \/ budget' = [budget EXCEPT !.faults = n]
    BY <1>2 DEF Write, CompleteRun, PersistRecords, PersistTruths, EngineStart, EngineFlush,
         EngineLoses, EngineMisjudges, EngineBreaks, EngineCrash, EngineEnds, StreamFlush,
         StreamDeclare, BatchFlush, StatementFails
  <2>2. \/ history' = history
        \/ \E a, b, c : history' = [history EXCEPT !.launches = a, !.mode = b, !.lambda = c]
        \/ \E a : \/ history' = [history EXCEPT !.lost = a]
                  \/ history' = [history EXCEPT !.misjudged = a]
                  \/ history' = [history EXCEPT !.stopped = a]
    BY <1>2 DEF Write, CompleteRun, PersistRecords, PersistTruths, EngineStart, EngineFlush,
         EngineLoses, EngineMisjudges, EngineBreaks, EngineCrash, EngineEnds, StreamFlush,
         StreamDeclare, BatchFlush
  <2>3. history'.overlap = history.overlap /\ history'.last = history.last
    BY <1>1, <2>2 DEF HistoryOK
  <2> QED
    BY <1>1, <2>1, <2>3 DEF SameCast
<1>3. CASE Ask
  <2>1. UNCHANGED history /\ \E n : budget' = budget \/ budget' = [budget EXCEPT !.faults = n]
    BY <1>3 DEF Ask, GatewayStep, Arrive, Count, Collect, Read, QueryFails, ClientLeaves,
         Record, Reply, Shutdown, Stop
  <2> QED
    BY <1>1, <2>1 DEF SameCast
<1> QED
  BY <1>2, <1>3

\* Neither does a step of a job that has started.
LEMMA MeasureCast ==
  ASSUME Typed, NEW j \in Job, MeasureStep(j), ~Start(j)
  PROVE  SameCast
<1>1. budget = [f \in DOMAIN budget |-> budget[f]] /\ "jobs" \in DOMAIN budget
  BY DEF Typed, BudgetOK
<1>2. CASE JobFails(j)
  BY <1>1, <1>2 DEF JobFails, SameCast
<1>3. CASE ~JobFails(j)
  BY <1>3
     DEF MeasureStep, Load, Calibrated, ReadStatus, CountRecords, CountTruths,
         CheckPreconditions, DeleteRun, ComputeCoverage, ComputeAreas, Compare, WriteRow,
         CountK7Truths, checkIntegrityPrecondition, PrecisionByRule, RecallByRule,
         UpsertRule, Still, SameCast
<1> QED
  BY <1>2, <1>3

\* A step of job j is one of the job in progress.
LEMMA StepIsActive ==
  ASSUME NEW j \in Job, MeasureStep(j), ~Start(j)
  PROVE  Active(j)
BY DEF MeasureStep, Load, Calibrated, ReadStatus, CountRecords, CountTruths,
       CheckPreconditions, DeleteRun, ComputeCoverage, ComputeAreas, Compare, WriteRow,
       CountK7Truths, checkIntegrityPrecondition, PrecisionByRule, RecallByRule,
       UpsertRule, JobFails, Goes, Active

\* The record at another step is the same record.
LEMMA AtKeeps ==
  ASSUME JobsOK, NEW j \in Job, NEW s
  PROVE  /\ DOMAIN At(j, s) = JobFields /\ DOMAIN job[j] = JobFields
         /\ At(j, s).pc = s /\ At(j, s).partition = job[j].partition
         /\ At(j, s).f1 = job[j].f1 /\ At(j, s).f2 = job[j].f2
         /\ At(j, s).todo = job[j].todo /\ At(j, s).whole = job[j].whole
         /\ At(j, s).seen = job[j].seen /\ At(j, s).complete = job[j].complete
<1> DEFINE r == job[j]
<1>1. r = [f \in JobFields |-> r[f]] /\ At(j, s) = [r EXCEPT !.pc = s]
  BY DEF JobsOK, RecordOK, At
<1> HIDE DEF r
<1>2. DOMAIN r = JobFields
  BY <1>1
<1>3. DOMAIN At(j, s) = JobFields
  BY <1>1, <1>2
<1>4. /\ At(j, s).pc = s /\ At(j, s).partition = r.partition
      /\ At(j, s).f1 = r.f1 /\ At(j, s).f2 = r.f2
      /\ At(j, s).todo = r.todo /\ At(j, s).whole = r.whole
      /\ At(j, s).seen = r.seen /\ At(j, s).complete = r.complete
  BY <1>1, <1>2 DEF JobFields
<1> QED
  BY <1>2, <1>3, <1>4 DEF r

\* A job starts: if it overlaps none, it is the only one.
LEMMA StartRows ==
  ASSUME Typed, RowInv, NEW j \in Job, Start(j), budget' = budget, metrics' = metrics
  PROVE  RowInv'
<1> DEFINE s == IF Option[j].calibrate THEN "load" ELSE FirstStep(j)
<1>1. /\ s \in {"load", "k7 truths", "status"}
      /\ s = "k7 truths" => Option[j].integrity = "only"
  BY DEF FirstStep
<1>2. /\ j \in budget.jobs /\ job[j].pc = "waiting"
      /\ job' = [job EXCEPT ![j] = At(j, s)]
      /\ history' = [history EXCEPT !.overlap = @ \/ \E i \in Job : Active(i), !.last = j]
  BY DEF Start, Goes
<1> HIDE DEF s
<1>3. /\ job'[j] = At(j, s) /\ \A i \in Job \ {j} : job'[i] = job[i]
      /\ At(j, s).pc = s /\ At(j, s).partition = "V"
  <2>1. job'[j] = At(j, s) /\ \A i \in Job \ {j} : job'[i] = job[i]
    BY <1>2, RecordMoves DEF Typed
  <2>2. At(j, s).pc = s /\ At(j, s).partition = job[j].partition
    BY AtKeeps DEF Typed
  <2>3. job[j].partition = "V"
    BY <1>2 DEF RowInv, PlaceOK, Early
  <2> QED
    BY <2>1, <2>2, <2>3
<1>4. /\ history'.last = j
      /\ history'.overlap <=> history.overlap \/ \E i \in Job : Active(i)
  BY <1>2 DEF Typed, HistoryOK
<1>5. \A i \in Job : PlaceOK(job[i], i)'
  <2>1. ASSUME NEW i \in Job PROVE PlaceOK(job[i], i)'
    <3>1. CASE i = j
      BY <1>1, <1>2, <1>3, <3>1 DEF PlaceOK
    <3>2. CASE i # j
      BY <1>3, <3>2 DEF PlaceOK, RowInv
    <3> QED
      BY <3>1, <3>2
  <2> QED
    BY <2>1
<1>6. \A i \in Job : Active(i)' => history'.last = i \/ history'.overlap
  <2>1. ASSUME NEW i \in Job, Active(i)', i # j PROVE history'.overlap
    <3>1. Active(i)
      BY <1>3, <2>1 DEF Active
    <3> QED
      BY <1>4, <3>1
  <2> QED
    BY <1>4, <2>1
<1>7. ASSUME Recomputes'
      PROVE  /\ Unique'
             /\ \A i \in Job : Active(i)' \/ (job'[i].pc = "ok" /\ history'.last = i)
                                 => Progress(job[i], i)'
  <2>1. Recomputes /\ ~history'.overlap
    BY <1>4, <1>7 DEF Recomputes
  <2>2. Unique'
    BY <2>1 DEF RowInv, Unique
  <2>3. ASSUME NEW i \in Job, Active(i)' \/ (job'[i].pc = "ok" /\ history'.last = i)
        PROVE  Progress(job[i], i)'
    <3>1. i = j
      BY <1>4, <1>6, <2>1, <2>3
    <3> QED
      BY <1>1, <1>3, <3>1 DEF Progress
  <2> QED
    BY <2>2, <2>3
<1> QED
  BY <1>5, <1>6, <1>7 DEF RowInv

\* Job j goes on to a step that carries no rows.
GoesPlainly(j, r) ==
  /\ r.pc \in Steps \ {"waiting", "areas", "reduction", "write"}
  /\ r.pc \in Early \cup {"coverage"} => job[j].pc \in Early /\ r.partition = job[j].partition
  /\ r.pc \in {"k7 truths", "k7 status"} => Option[j].integrity = "only"
  /\ r.pc = "coverage" => ~Option[j].recompute
  /\ r.pc \in {"precision", "recall", "upsert", "ok"} /\ Option[j].integrity # "only"
       => job[j].pc \in {"precision", "recall", "upsert"}

\* The steps that leave the metrics table alone and carry no rows.
LEMMA PlainRows ==
  ASSUME Typed, RowInv, SameCast, NEW j \in Job, metrics' = metrics,
         \/ Load(j) \/ Calibrated(j) \/ ReadStatus(j) \/ CountRecords(j) \/ CountTruths(j)
         \/ CheckPreconditions(j) \/ CountK7Truths(j) \/ checkIntegrityPrecondition(j)
         \/ PrecisionByRule(j) \/ RecallByRule(j) \/ JobFails(j)
  PROVE  RowInv'
<1>1. MeasureStep(j) /\ Active(j) /\ PlaceOK(job[j], j) /\ j \in budget.jobs /\ JobsOK
  <2>1. MeasureStep(j) /\ ~Start(j)
    BY DEF MeasureStep, Start, Load, Calibrated, ReadStatus, CountRecords, CountTruths,
       CheckPreconditions, CountK7Truths, checkIntegrityPrecondition, PrecisionByRule,
       RecallByRule, JobFails, Goes, Active
  <2> QED
    BY <2>1, StepIsActive DEF RowInv, PlaceOK, Active, Typed
<1>2. RowsDone(j)' = RowsDone(j) /\ (Unique => Unique')
  BY DEF RowsDone, Unique
<1>3. \E r : job' = [job EXCEPT ![j] = r] /\ GoesPlainly(j, r)
  <2>1. CASE Load(j) \/ Calibrated(j) \/ CheckPreconditions(j)
    <3>1. PICK s \in {"search", "failed", "k7 truths", "status", "refused", "delete", "coverage"} :
            /\ job' = [job EXCEPT ![j] = At(j, s)] /\ job[j].pc \in Early
            /\ s = "k7 truths" => Option[j].integrity = "only"
            /\ s = "coverage" => ~Option[j].recompute
      <4>1. CASE Load(j)
        BY <4>1 DEF Load, Goes, Early
      <4>2. CASE Calibrated(j)
        BY <4>2 DEF Calibrated, Goes, FirstStep, Early
      <4>3. CASE CheckPreconditions(j)
        BY <4>3 DEF CheckPreconditions, Goes, Early
      <4> QED
        BY <2>1, <4>1, <4>2, <4>3
    <3>2. At(j, s).pc = s /\ At(j, s).partition = job[j].partition
      BY <1>1, AtKeeps
    <3>3. GoesPlainly(j, At(j, s))
      BY <3>1, <3>2 DEF GoesPlainly, Steps, Early
    <3> QED
      BY <3>1, <3>3
  <2>2. CASE JobFails(j)
    <3>1. job' = [job EXCEPT ![j] = [job[j] EXCEPT !.pc = "failed"]]
      BY <2>2 DEF JobFails
    <3>2. [job[j] EXCEPT !.pc = "failed"].pc = "failed"
      BY <1>1, AtKeeps DEF JobFields
    <3> QED
      BY <3>1, <3>2 DEF GoesPlainly, Steps, Early
  <2>3. CASE ReadStatus(j) \/ CountRecords(j) \/ CountTruths(j)
    <3>1. \E s \in {"records", "truths", "gate"}, r \in {job'[j]} :
            /\ job' = [job EXCEPT ![j] = r] /\ job[j].pc \in Early
            /\ r.pc = At(j, s).pc /\ r.partition = At(j, s).partition
      <4>1. CASE ReadStatus(j)
        <5> DEFINE r == [At(j, "records") EXCEPT !.seen.status = run, !.complete = Complete]
        <5>1. r.pc = At(j, "records").pc /\ r.partition = At(j, "records").partition
          BY <1>1, AtKeeps DEF JobFields
        <5>2. job' = [job EXCEPT ![j] = r] /\ job[j].pc \in Early /\ job'[j] = r
          BY <1>1, <4>1 DEF ReadStatus, Goes, Early, JobsOK
        <5> HIDE DEF r
        <5> QED
          BY <5>1, <5>2
      <4>2. CASE CountRecords(j)
        <5> DEFINE r == [At(j, "truths") EXCEPT !.seen.records = Cardinality(records)]
        <5>1. r.pc = At(j, "truths").pc /\ r.partition = At(j, "truths").partition
          BY <1>1, AtKeeps DEF JobFields
        <5>2. job' = [job EXCEPT ![j] = r] /\ job[j].pc \in Early /\ job'[j] = r
          BY <1>1, <4>2 DEF CountRecords, Goes, Early, JobsOK
        <5> HIDE DEF r
        <5> QED
          BY <5>1, <5>2
      <4>3. CASE CountTruths(j)
        <5> DEFINE r == [At(j, "gate") EXCEPT !.seen.truths = Cardinality(truths),
                                              !.whole = truths = Event]
        <5>1. r.pc = At(j, "gate").pc /\ r.partition = At(j, "gate").partition
          BY <1>1, AtKeeps DEF JobFields
        <5>2. job' = [job EXCEPT ![j] = r] /\ job[j].pc \in Early /\ job'[j] = r
          BY <1>1, <4>3 DEF CountTruths, Goes, Early, JobsOK
        <5> HIDE DEF r
        <5> QED
          BY <5>1, <5>2
      <4> QED
        BY <2>3, <4>1, <4>2, <4>3
    <3>2. PICK s \in {"records", "truths", "gate"}, r \in {job'[j]} :
            /\ job' = [job EXCEPT ![j] = r] /\ job[j].pc \in Early
            /\ r.pc = At(j, s).pc /\ r.partition = At(j, s).partition
      BY <3>1
    <3>3. r.pc = s /\ r.partition = job[j].partition
      BY <1>1, <3>2, AtKeeps
    <3> QED
      BY <3>2, <3>3 DEF GoesPlainly, Steps, Early
  <2>4. CASE CountK7Truths(j) \/ checkIntegrityPrecondition(j)
    <3>1. PICK r : job' = [job EXCEPT ![j] = r] /\ r.pc \in {"k7 status", "precision", "refused"}
      <4>1. \A b : /\ At(j, "refused").pc = "refused"
                   /\ [At(j, "k7 status") EXCEPT !.whole = b].pc = "k7 status"
                   /\ [At(j, "precision") EXCEPT !.whole = b].pc = "precision"
        BY <1>1, AtKeeps DEF JobFields
      <4>2. CASE CountK7Truths(j)
        BY <4>1, <4>2 DEF CountK7Truths, Goes
      <4>3. CASE checkIntegrityPrecondition(j)
        <5> DEFINE next == [At(j, "precision") EXCEPT !.whole = @ /\ Finished]
        <5>1. next.pc = "precision"
          BY <1>1, AtKeeps DEF JobFields
        <5>2. job' = [job EXCEPT ![j] = IF PassesK7(run) THEN next ELSE At(j, "refused")]
          BY <4>3 DEF checkIntegrityPrecondition, Goes
        <5> HIDE DEF next
        <5> QED
          BY <4>1, <5>1, <5>2
      <4> QED
        BY <2>4, <4>2, <4>3
    <3>2. Option[j].integrity = "only"
      BY <1>1, <2>4 DEF CountK7Truths, checkIntegrityPrecondition, Goes, PlaceOK
    <3> QED
      BY <3>1, <3>2 DEF GoesPlainly, Steps, Early
  <2>5. CASE PrecisionByRule(j) \/ RecallByRule(j)
    <3>1. PICK r : job' = [job EXCEPT ![j] = r] /\ r.pc \in {"recall", "upsert"}
      <4>1. \A f : [At(j, "recall") EXCEPT !.f1 = f].pc = "recall"
        BY <1>1, AtKeeps DEF JobFields
      <4>2. \A f : [At(j, "upsert") EXCEPT !.f2 = f, !.todo = Rule].pc = "upsert"
        BY <1>1, AtKeeps DEF JobFields
      <4> QED
        BY <2>5, <4>1, <4>2 DEF PrecisionByRule, RecallByRule, Goes
    <3>2. job[j].pc \in {"precision", "recall"}
      BY <2>5 DEF PrecisionByRule, RecallByRule, Goes
    <3> QED
      BY <3>1, <3>2 DEF GoesPlainly, Steps, Early
  <2> QED
    BY <2>1, <2>2, <2>3, <2>4, <2>5
<1>4. PICK r : job' = [job EXCEPT ![j] = r] /\ GoesPlainly(j, r)
  BY <1>3
<1>5. PlaceOK(r, j)
  BY <1>1, <1>4 DEF PlaceOK, Early, GoesPlainly
<1>6. ASSUME Recomputes, Progress(job[j], j), Unique
      PROVE  Unique' /\ (r.pc \notin {"refused", "failed"} => Progress(r, j)')
  <2>1. Option[j].recompute
    BY <1>1, <1>6 DEF Recomputes
  <2> QED
    BY <1>2, <1>4, <1>6, <2>1 DEF Progress, GoesPlainly
<1> QED
  BY <1>1, <1>4, <1>5, <1>6, RunningJobMoves

\* The table is emptied before anything is measured.
LEMMA DeleteRows ==
  ASSUME Typed, RowInv, SameCast, NEW j \in Job, DeleteRun(j)
  PROVE  RowInv'
<1>1. /\ job' = [job EXCEPT ![j] = At(j, "coverage")] /\ metrics' = {} /\ Active(j)
      /\ job[j].partition = "V" /\ j \in budget.jobs
  BY DEF DeleteRun, Goes, Active, RowInv, PlaceOK, Early
<1>2. PICK r : job' = [job EXCEPT ![j] = r] /\ r.pc = "coverage" /\ r.partition = "V"
  <2>1. At(j, "coverage").pc = "coverage" /\ At(j, "coverage").partition = job[j].partition
    BY AtKeeps DEF Typed
  <2> QED
    BY <1>1, <2>1
<1>3. PlaceOK(r, j)
  BY <1>1, <1>2 DEF PlaceOK, Early
<1>4. Unique' /\ Progress(r, j)'
  BY <1>1, <1>2 DEF Unique, Progress
<1> QED
  BY <1>1, <1>2, <1>3, <1>4, RunningJobMoves

\* The rows of an answer to F.1 are one for each key.
LEMMA AnswerRows ==
  ASSUME NEW f1, CoverageOK(f1), NEW f2, Computable(f1, f2), NEW p, NEW red
  PROVE  LET rows == {MetricRow(k, p, f1, f2, red) : k \in DOMAIN f1}
         IN  /\ {row.key : row \in rows} = Key
             /\ \A s, t \in rows : s.partition = p /\ (s.key = t.key => s = t)
<1>1. DOMAIN f1 = Key
  BY DEF CoverageOK, Computable
<1>2. \A k : MetricRow(k, p, f1, f2, red).key = k /\ MetricRow(k, p, f1, f2, red).partition = p
  BY DEF MetricRow
<1> QED
  BY <1>1, <1>2

\* F.1: the job keeps its partition.
LEMMA CoverageRows ==
  ASSUME Typed, RowInv, SameCast, NEW j \in Job, ComputeCoverage(j), metrics' = metrics
  PROVE  RowInv'
<1> DEFINE f1 == Coverage(estimate, truths, job[j].partition)
           moved == [At(j, "areas") EXCEPT !.f1 = f1]
<1>1. /\ job' = [job EXCEPT ![j] = IF f1 = <<>> THEN At(j, "failed") ELSE moved]
      /\ job[j].pc = "coverage" /\ Active(j) /\ PlaceOK(job[j], j) /\ JobsOK
  BY DEF ComputeCoverage, Goes, Active, RowInv, Typed
<1> HIDE DEF f1
<1>2. /\ moved.pc = "areas" /\ moved.partition = job[j].partition
      /\ At(j, "failed").pc = "failed"
  BY <1>1, AtKeeps DEF JobFields
<1> HIDE DEF moved
<1>3. PICK r : /\ job' = [job EXCEPT ![j] = r] /\ r.pc \in {"areas", "failed"}
               /\ r.pc = "areas" => r.partition = job[j].partition
  BY <1>1, <1>2
<1>4. PlaceOK(r, j)
  BY <1>1, <1>3 DEF PlaceOK, Early
<1>5. ASSUME Progress(job[j], j), Unique
      PROVE  Unique' /\ (r.pc \notin {"refused", "failed"} => Progress(r, j)')
  BY <1>1, <1>3, <1>5 DEF Progress, Unique, OfV, RowsDone
<1> QED
  BY <1>1, <1>3, <1>4, <1>5, RunningJobMoves

\* F.2: the rows to write are one per key, of the partition at hand.
LEMMA AreasRows ==
  ASSUME Typed, RowInv, SameCast, NEW j \in Job, ComputeAreas(j), metrics' = metrics
  PROVE  RowInv'
<1> DEFINE p == job[j].partition
           f1 == job[j].f1
           f2 == AreaStats(estimate, truths, p)
           rows == {MetricRow(k, p, f1, f2, NoReduction) : k \in DOMAIN f1}
           next == IF p = "V" THEN "reduction" ELSE "write"
           moved == [At(j, next) EXCEPT !.f1 = <<>>, !.todo = rows]
<1>1. /\ job' = [job EXCEPT ![j] = IF ~Computable(f1, f2) THEN At(j, "failed") ELSE moved]
      /\ job[j].pc = "areas" /\ Active(j) /\ PlaceOK(job[j], j) /\ JobsOK /\ CoverageOK(f1)
      /\ p \in {"V", "C"}
  BY DEF ComputeAreas, Goes, Active, RowInv, Typed, JobsOK, RecordOK
<1> HIDE DEF f1, f2
<1>2. Computable(f1, f2) => /\ {row.key : row \in rows} = Key
                            /\ \A s, t \in rows : s.partition = p /\ (s.key = t.key => s = t)
  BY <1>1, AnswerRows
<1> HIDE DEF rows, next
<1>3. /\ moved.pc = next /\ moved.partition = p /\ moved.todo = rows
      /\ At(j, "failed").pc = "failed"
  BY <1>1, AtKeeps DEF JobFields
<1>4. next \in {"reduction", "write"} /\ (next = "reduction" <=> p = "V")
  BY DEF next
<1> HIDE DEF moved
<1>5. PICK r : /\ job' = [job EXCEPT ![j] = r] /\ r.pc \in {"reduction", "write", "failed"}
               /\ r.pc # "failed" => r = moved /\ Computable(f1, f2)
  BY <1>1, <1>3, <1>4
<1>6. PlaceOK(r, j)
  BY <1>1, <1>3, <1>4, <1>5 DEF PlaceOK, Early
<1>7. ASSUME Progress(job[j], j), Unique, r.pc # "failed"
      PROVE  Progress(r, j)'
  <2>1. r.partition = p /\ r.todo = rows /\ r.pc = next
    BY <1>3, <1>5, <1>7
  <2>2. OnePerKey(r)' /\ {row.key : row \in r.todo} = Key
    BY <1>2, <1>5, <1>7, <2>1 DEF OnePerKey
  <2>3. CASE p = "V"
    <3>1. metrics' = {}
      BY <1>1, <1>7, <2>3 DEF Progress
    <3> QED
      BY <1>4, <2>1, <2>2, <2>3, <3>1 DEF Progress
  <2>4. CASE p # "V"
    <3>1. OfV' /\ RowsDone(j)'
      BY <1>1, <1>7, <2>4 DEF Progress, OfV, RowsDone
    <3>2. {m \in metrics' : m.row.partition = r.partition} = {}
      BY <2>1, <2>4, <3>1 DEF OfV
    <3>3. Written(r, j)'
      BY <2>1, <2>2, <2>4, <3>1, <3>2 DEF Written
    <3> QED
      BY <1>4, <2>1, <2>2, <2>4, <3>3 DEF Progress
  <2> QED
    BY <2>3, <2>4
<1>8. Unique => Unique'
  BY DEF Unique
<1> QED
  BY <1>1, <1>5, <1>6, <1>7, <1>8, RunningJobMoves

\* F.4: the same rows, with a reduction.
LEMMA CompareRows ==
  ASSUME Typed, RowInv, SameCast, NEW j \in Job, Compare(j), metrics' = metrics
  PROVE  RowInv'
<1> DEFINE f4 == Reductions(estimate, truths)
           New(row) == [row EXCEPT !.reduction = IF row.key = "M90" THEN ReductionOf(f4) ELSE @]
           rows == {New(row) : row \in job[j].todo}
           moved == [At(j, "write") EXCEPT !.todo = rows]
<1>1. /\ job' = [job EXCEPT ![j] = IF ~Reducible(f4) THEN At(j, "failed") ELSE moved]
      /\ job[j].pc = "reduction" /\ Active(j) /\ PlaceOK(job[j], j) /\ JobsOK
      /\ job[j].partition = "V" /\ \A row \in job[j].todo : RowOK(row)
  BY DEF Compare, Goes, Active, RowInv, Typed, JobsOK, RecordOK, PlaceOK, Early
<1>2. \A row \in job[j].todo : New(row).key = row.key /\ New(row).partition = row.partition
  BY <1>1 DEF RowOK
<1> HIDE DEF f4, New
<1>3. /\ moved.pc = "write" /\ moved.partition = "V" /\ moved.todo = rows
      /\ At(j, "failed").pc = "failed"
  BY <1>1, AtKeeps DEF JobFields
<1> HIDE DEF moved
<1>4. PICK r : /\ job' = [job EXCEPT ![j] = r] /\ r.pc \in {"write", "failed"}
               /\ r.pc # "failed" => r = moved
  BY <1>1, <1>3
<1>5. PlaceOK(r, j)
  BY <1>1, <1>3, <1>4 DEF PlaceOK, Early
<1>6. ASSUME Progress(job[j], j), Unique, r.pc # "failed"
      PROVE  Progress(r, j)'
  <2>1. r.partition = "V" /\ r.todo = rows /\ r.pc = "write"
    BY <1>3, <1>4, <1>6
  <2>2. metrics' = {} /\ OnePerKey(job[j]) /\ {row.key : row \in job[j].todo} = Key
    BY <1>1, <1>6 DEF Progress
  <2>3. \A s, t \in rows : s.partition = "V" /\ (s.key = t.key => s = t)
    BY <1>1, <1>2, <2>2 DEF OnePerKey
  <2>4. {row.key : row \in rows} = Key
    BY <1>2, <2>2
  <2> HIDE DEF rows
  <2>5. Written(r, j)'
    BY <2>1, <2>2, <2>4 DEF Written, OfV
  <2> QED
    BY <2>1, <2>3, <2>5 DEF Progress, OnePerKey
<1>7. Unique => Unique'
  BY DEF Unique
<1> QED
  BY <1>1, <1>4, <1>5, <1>6, <1>7, RunningJobMoves

\* One more row of job j: what is written grows by a key it did not have.
LEMMA WriteRows ==
  ASSUME Typed, RowInv, SameCast, NEW j \in Job, WriteRow(j)
  PROVE  RowInv'
<1>1. PICK row \in job[j].todo :
           /\ metrics' = metrics \cup {[job |-> j, whole |-> job[j].whole, row |-> row]}
           /\ job' = [job EXCEPT ![j] =
                        IF job[j].todo \ {row} = {}
                        THEN [AfterRows(j) EXCEPT !.todo = {}]
                        ELSE [job[j] EXCEPT !.todo = job[j].todo \ {row}]]
  BY WriteTakes DEF Typed
<1>2. job[j].pc = "write" /\ Active(j) /\ PlaceOK(job[j], j) /\ JobsOK
  BY DEF WriteRow, Active, RowInv, Typed
<1> DEFINE new == [job |-> j, whole |-> job[j].whole, row |-> row]
           p == job[j].partition
           rest == job[j].todo \ {row}
           last == rest = {}
\* Where the job goes.
<1>3. PICK r : /\ job' = [job EXCEPT ![j] = r]
               /\ ~last => r.pc = "write" /\ r.partition = p /\ r.todo = rest
               /\ last => \/ r.pc = "coverage" /\ r.partition = "C" /\ p = "V"
                          \/ r.pc \in {"ok", "precision"}
  <2>1. /\ [job[j] EXCEPT !.todo = rest].pc = "write"
        /\ [job[j] EXCEPT !.todo = rest].partition = p
        /\ [job[j] EXCEPT !.todo = rest].todo = rest
    BY <1>2, AtKeeps DEF JobFields
  <2>2. /\ [[At(j, "coverage") EXCEPT !.partition = "C"] EXCEPT !.todo = {}].pc = "coverage"
        /\ [[At(j, "coverage") EXCEPT !.partition = "C"] EXCEPT !.todo = {}].partition = "C"
        /\ [At(j, "ok") EXCEPT !.todo = {}].pc = "ok"
        /\ [At(j, "precision") EXCEPT !.todo = {}].pc = "precision"
    BY <1>2, AtKeeps DEF JobFields
  <2>3. /\ AfterRows(j) \in {[At(j, "coverage") EXCEPT !.partition = "C"], At(j, "ok"),
                             At(j, "precision")}
        /\ AfterRows(j) = [At(j, "coverage") EXCEPT !.partition = "C"] \/ AfterRows(j) = At(j, "ok")
           \/ AfterRows(j) = At(j, "precision")
        /\ p # "V" => AfterRows(j) \in {At(j, "ok"), At(j, "precision")}
    BY DEF AfterRows
  <2> QED
    BY <1>1, <2>1, <2>2, <2>3
<1>4. PlaceOK(r, j)
  BY <1>2, <1>3 DEF PlaceOK, Early
<1>5. ASSUME Progress(job[j], j), Unique
      PROVE  Unique' /\ Progress(r, j)'
  <2> DEFINE present == {m \in metrics : m.row.partition = p}
  <2>1. /\ \A s, t \in job[j].todo : s.partition = p /\ (s.key = t.key => s = t)
        /\ \A m \in present : m.job = j
        /\ {m.row.key : m \in present} \cup {s.key : s \in job[j].todo} = Key
        /\ \A m \in present, s \in job[j].todo : m.row.key # s.key
        /\ IF p = "V" THEN OfV ELSE RowsDone(j)
    BY <1>2, <1>5 DEF Progress, OnePerKey, Written
  <2>2. /\ metrics' = metrics \cup {new} /\ new.job = j /\ new.row = row
        /\ row.partition = p /\ row \in job[j].todo
    BY <1>1, <2>1
  <2> HIDE DEF new, p, rest
  <2>3. {m \in metrics' : m.row.partition = p} = present \cup {new}
    BY <2>2
  <2>4. Unique'
    BY <1>5, <2>1, <2>2 DEF Unique
  <2>5. {m.row.key : m \in present \cup {new}} = {m.row.key : m \in present} \cup {row.key}
    BY <2>2
  <2>6. {s.key : s \in job[j].todo} = {s.key : s \in rest} \cup {row.key}
    BY <2>2 DEF rest
  <2>7. {m.row.key : m \in present \cup {new}} \cup {s.key : s \in rest} = Key
    BY <2>1, <2>5, <2>6
  <2>8. IF p = "V" THEN OfV' ELSE RowsDone(j)'
    <3>1. CASE p = "V"
      BY <2>1, <2>2, <3>1 DEF OfV
    <3>2. CASE p # "V"
      <4>1. {o \in metrics' : o.job = j /\ o.row.partition = "V"}
            = {o \in metrics : o.job = j /\ o.row.partition = "V"}
        BY <2>2, <3>2
      <4> QED
        BY <2>1, <3>2, <4>1 DEF RowsDone
    <3> QED
      BY <3>1, <3>2
  <2>9. CASE ~last
    <3>1. r.pc = "write" /\ r.partition = p /\ r.todo = rest /\ rest \subseteq job[j].todo
      BY <1>3, <2>9 DEF rest
    <3>2. OnePerKey(r)'
      BY <2>1, <3>1 DEF OnePerKey
    <3>3. \A m \in present \cup {new} : m.job = j
      BY <2>1, <2>2
    <3>4. \A m \in present \cup {new}, s \in rest : m.row.key # s.key
      BY <2>1, <2>2 DEF rest
    <3>5. Written(r, j)'
      BY <2>3, <2>7, <2>8, <3>1, <3>3, <3>4 DEF Written
    <3> QED
      BY <2>4, <3>1, <3>2, <3>5 DEF Progress
  <2>10. CASE last
    <3>1. {m.row.key : m \in present \cup {new}} = Key
      BY <2>7, <2>10
    <3>2. RowsDone(j)'
      <4>1. CASE p = "V"
        <5>1. {o \in metrics' : o.job = j /\ o.row.partition = "V"} = present \cup {new}
          BY <2>1, <2>2, <2>3, <4>1
        <5> QED
          BY <3>1, <5>1 DEF RowsDone
      <4> QED
        BY <2>8, <4>1
    <3> QED
      BY <1>3, <2>4, <2>8, <2>10, <3>2 DEF Progress
  <2> QED
    BY <2>9, <2>10
<1> QED
  BY <1>2, <1>3, <1>4, <1>5, RunningJobMoves

\* An integrity row is not a metrics row.
LEMMA UpsertRows ==
  ASSUME Typed, RowInv, SameCast, NEW j \in Job, UpsertRule(j)
  PROVE  RowInv'
<1>1. job[j].pc = "upsert" /\ Active(j) /\ PlaceOK(job[j], j) /\ JobsOK /\ metrics' = metrics
  BY DEF UpsertRule, Active, RowInv, Typed
<1>2. PICK r : job' = [job EXCEPT ![j] = r] /\ r.pc \in {"ok", "upsert"}
  <2>1. /\ [At(j, "ok") EXCEPT !.f1 = <<>>, !.f2 = <<>>, !.todo = {}].pc = "ok"
        /\ \A t : [job[j] EXCEPT !.todo = t].pc = "upsert"
    BY <1>1, AtKeeps DEF JobFields
  <2> QED
    BY <1>1, <2>1, UpsertTakes
<1>3. PlaceOK(r, j)
  BY <1>1, <1>2 DEF PlaceOK, Early
<1>4. Progress(job[j], j) /\ Unique => Unique' /\ Progress(r, j)'
  BY <1>1, <1>2 DEF Progress, Unique, RowsDone
<1> QED
  BY <1>1, <1>2, <1>3, <1>4, RunningJobMoves

\* All the steps of a job in progress.
LEMMA MeasureRows ==
  ASSUME Typed, RowInv, Measure
  PROVE  RowInv'
<1>1. PICK j \in Job : MeasureStep(j)
  BY MeasureMoves
<1>2. CASE Start(j)
  BY <1>2, StartRows DEF Start, results
<1>3. CASE ~Start(j)
  <2>1. SameCast
    BY <1>1, <1>3, MeasureCast
  <2>2. CASE DeleteRun(j)
    BY <2>1, <2>2, DeleteRows
  <2>3. CASE WriteRow(j)
    BY <2>1, <2>3, WriteRows
  <2>4. CASE UpsertRule(j)
    BY <2>1, <2>4, UpsertRows
  <2>5. CASE ComputeCoverage(j)
    BY <2>1, <2>5, CoverageRows DEF ComputeCoverage, Still, results
  <2>6. CASE ComputeAreas(j)
    BY <2>1, <2>6, AreasRows DEF ComputeAreas, Still, results
  <2>7. CASE Compare(j)
    BY <2>1, <2>7, CompareRows DEF Compare, Still, results
  <2>8. CASE \/ Load(j) \/ Calibrated(j) \/ ReadStatus(j) \/ CountRecords(j) \/ CountTruths(j)
             \/ CheckPreconditions(j) \/ CountK7Truths(j) \/ checkIntegrityPrecondition(j)
             \/ PrecisionByRule(j) \/ RecallByRule(j) \/ JobFails(j)
    <3>1. metrics' = metrics
      BY <2>8 DEF Load, Calibrated, ReadStatus, CountRecords, CountTruths,
         CheckPreconditions, CountK7Truths, checkIntegrityPrecondition, PrecisionByRule,
         RecallByRule, JobFails, Still, results
    <3> QED
      BY <2>1, <2>8, <3>1, PlainRows
  <2> QED
    BY <1>1, <1>3, <2>2, <2>3, <2>4, <2>5, <2>6, <2>7, <2>8 DEF MeasureStep
<1> QED
  BY <1>2, <1>3

\* Every step of the whole keeps the rows one per key.
LEMMA RowStep == Typed /\ RowInv /\ [Next]_vars => RowInv'
<1> SUFFICES ASSUME Typed, RowInv, [Next]_vars PROVE RowInv'
  OBVIOUS
<1>1. CASE Search \/ UNCHANGED vars
  <2>1. SameCast /\ UNCHANGED <<job, metrics>>
    BY <1>1 DEF Search, vars, validationVars, results, SameCast
  <2> QED
    BY <2>1, RowsUntouched
<1>2. CASE Write \/ Ask
  <2>1. UNCHANGED <<job, metrics>>
    BY <1>2, WriteMoves DEF Ask, results
  <2> QED
    BY <1>2, <2>1, CastStays, RowsUntouched
<1> QED
  BY <1>1, <1>2, MeasureRows DEF Next

(***************************************************************************)
(* The table without a key: for every number of jobs and whatever fails,   *)
(* as long as every job deletes first and no two overlap there is never a  *)
(* second row for a method, confidence and partition, and the latest job   *)
(* to finish leaves the partition V key by key (DeleteRun, Write,          *)
(* Pipeline.Run).                                                          *)
(***************************************************************************)
THEOREM RowsAreUnique == Spec => []OneRowPerKey
<1>1. RowInv => OneRowPerKey
  <2> SUFFICES ASSUME RowInv, Recomputes PROVE
        /\ Unique
        /\ \A j \in Job : job[j].pc = "ok" /\ history.last = j /\ Option[j].integrity # "only"
                            => RowsDone(j)
    BY DEF OneRowPerKey, Recomputes, Unique, RowsDone
  <2> QED
    BY DEF RowInv, Progress
<1> QED
  BY <1>1, RowsFromTheStart, RowStep, TypedInitially, TypedStep, PTL DEF Spec
-----------------------------------------------------------------------------
(* The gate: GateIsExact.                                                  *)

\* One process of the engine, which has not been stopped.
Single == history.launches = 1 /\ ~history.stopped

\* One that no misjudged writes hide a lost buffer of.
Sound == Single /\ (history.lost = {} \/ history.misjudged < BufferEvents - 1)

\* What a count of events says: each misjudged write leaves it one short of the
\* events with rows, each lost buffer puts it ahead by its events but one.
CountOK(n) ==
  LET rows == Cardinality(Estimated(estimate))
  IN  /\ n \in Nat
      /\ history.lost = {} => n + history.misjudged = rows
      /\ history.lost # {} => n + history.misjudged >= rows + BufferEvents - 1

AllSampled == Estimable(history.mode, Cardinality(Recorded))

\* The estimates table and the counts of the engine.
EngineExact ==
  /\ history.launches = 0 =>
       /\ ~engine.on /\ run.analyzed = Null /\ Estimated(estimate) = {}
       /\ handled = {} /\ history.lost = {} /\ history.misjudged = 0 /\ ~history.stopped
  /\ history.launches = 1 /\ engine.on => ~history.stopped
  /\ Single =>
       /\ \A e \in Estimated(estimate) : estimate[e] = history.lambda
       /\ Estimated(estimate) \subseteq AllSampled /\ Estimated(estimate) \cap history.lost = {}
       /\ engine.on =>
            /\ engine.mode = history.mode /\ engine.lambda = history.lambda
            /\ run.analyzed = Null /\ CountOK(engine.count)
            /\ Estimated(estimate) \cup history.lost = handled \cap AllSampled
       /\ ~engine.on =>
            /\ CountOK(run.analyzed)
            /\ Estimated(estimate) \cup history.lost = AllSampled

\* The run's declarations.
RunExact ==
  /\ run.published \in {Null, Cardinality(Recorded)}
  /\ run.inspected = Cardinality(Recorded) => StreamFindings \subseteq findings

Gated == {"status", "records", "truths", "gate"}
Measuring == {"delete", "coverage", "areas", "reduction", "write"}
K7 == {"precision", "recall", "upsert"}

\* What the gate has read stays true of a run that was complete.
SeenExact(r) ==
  /\ r.whole => truths = Event
  /\ r.complete => history.launches >= 1
  /\ r.complete /\ history.launches = 1 =>
       /\ Complete
       /\ r.seen.status.published = Cardinality(Recorded)
       /\ r.seen.status.analyzed = run.analyzed
       /\ r.pc \in {"truths", "gate"} => r.seen.records = Cardinality(Recorded)
       /\ r.pc = "gate" => r.seen.truths = Cardinality(Event)
  /\ r.seen.status.analyzed # Null =>
       /\ history.launches >= 1
       /\ Single => ~engine.on /\ run.analyzed = r.seen.status.analyzed

\* A row before the comparison.
PlainRow(row) ==
  MetricRow(row.key, "V", Coverage(FinalEstimate, Event, "V"),
            AreaStats(FinalEstimate, Event, "V"), NoReduction)

\* What a job past the gate has measured is what the whole sample gives.
MeasuredExact(r) ==
  /\ r.pc \in Measuring =>
       /\ history.launches >= 1 /\ (Single => ~engine.on)
       /\ Sound => estimate = FinalEstimate
  /\ r.whole /\ Sound =>
       /\ r.pc = "areas" => r.f1 = Coverage(FinalEstimate, Event, r.partition)
       /\ r.pc = "reduction" => \A row \in r.todo : row = PlainRow(row)
       /\ r.pc = "write" => \A row \in r.todo : row = FinalRow(row)

\* And what a job behind F.5's own gate has counted.
CountedExact(r) ==
  r.whole =>
    /\ r.pc \in K7 => StreamFindings \subseteq findings
    /\ r.pc \in {"recall", "upsert"} =>
         \A i \in StreamRules : r.f1[i] = Precision(Finding, Event)[i]
    /\ r.pc = "upsert" => \A i \in StreamRules : r.f2[i] = Recall(Finding, Event)[i]

JobExact(r, j) ==
  /\ SeenExact(r) /\ MeasuredExact(r)
  /\ IF Option[j].integrity = "only"
     THEN CountedExact(r) /\ r.pc \notin Gated \cup Measuring
     ELSE r.pc = "refused" => ~r.complete \/ history.launches > 1

MetricsExact ==
  /\ metrics # {} => history.launches >= 1 /\ (Single => ~engine.on)
  /\ Sound => \A m \in metrics : m.whole => m.row = FinalRow(m.row)

MeasuresExact ==
  \A i \in StreamRules \cap DOMAIN measures : measures[i].gated =>
    measures[i].row = FinalMeasure(i)

GateInv ==
  /\ EngineExact /\ RunExact /\ MetricsExact /\ MeasuresExact
  /\ \A j \in Job : \A r : r = job[j] => JobExact(r, j)

\* A run starts empty, or whole as its services left it.
LEMMA GateFromTheStart == Init => GateInv
<1> SUFFICES ASSUME Init PROVE GateInv
  OBVIOUS
<1> DEFINE total == Cardinality(Recorded)
           mode == CHOOSE m \in budget.modes : TRUE
           sample == Estimable(mode, total)
<1>1. /\ run = [published |-> Loaded("run", total, Null),
                analyzed |-> Loaded("engine", Cardinality(sample), Null),
                inspected |-> Loaded("findings", total, Null)]
      /\ estimate = [e \in Event |-> Loaded("engine", IF e \in sample THEN 1 ELSE 0, 0)]
      /\ findings = Loaded("findings", Finding, {})
      /\ metrics = {} /\ measures = [r \in {} |-> Null]
      /\ engine = EngineOff /\ handled = Loaded("engine", Recorded, {})
      /\ job = [j \in Job |-> Waiting]
      /\ history = [lost |-> {}, misjudged |-> 0, launches |-> Loaded("engine", 1, 0),
                    stopped |-> FALSE, overlap |-> FALSE, mode |-> mode, lambda |-> 1,
                    last |-> Null]
  BY DEF Init, ValidationInit
<1>2. sample \subseteq Recorded /\ sample \subseteq Event /\ Cardinality(sample) \in Nat
      /\ total \in Nat /\ AllSampled = sample
  BY <1>1, FiniteRun DEF Estimable, AllSampled
<1> HIDE DEF sample, total, mode
<1>3. EngineExact
  <2>1. CASE "engine" \in budget.writers
    <3>1. Estimated(estimate) = {}
      BY <1>1, <2>1 DEF Estimated, Loaded
    <3> QED
      BY <1>1, <2>1, <3>1 DEF EngineExact, Single, Loaded, EngineOff
  <2>2. CASE "engine" \notin budget.writers
    <3>1. Estimated(estimate) = sample /\ \A e \in sample : estimate[e] = 1
      BY <1>1, <1>2, <2>2 DEF Estimated, Loaded
    <3>2. CountOK(run.analyzed)
      BY <1>1, <1>2, <2>2, <3>1 DEF CountOK, Loaded
    <3> QED
      BY <1>1, <1>2, <2>2, <3>1, <3>2 DEF EngineExact, Single, Loaded, EngineOff
  <2> QED
    BY <2>1, <2>2
<1>4. RunExact
  <2>1. run.published \in {Null, total}
    BY <1>1 DEF Loaded
  <2>2. run.inspected = total => StreamFindings \subseteq findings
    BY <1>1, <1>2 DEF Loaded, StreamFindings, Null
  <2> QED
    BY <2>1, <2>2 DEF RunExact, total
<1>5. MetricsExact /\ MeasuresExact
  BY <1>1 DEF MetricsExact, MeasuresExact
<1>6. ASSUME NEW j \in Job PROVE JobExact(job[j], j)
  <2>1. /\ job[j].pc = "waiting" /\ job[j].complete = FALSE /\ job[j].whole = FALSE
        /\ job[j].seen.status.analyzed = Null
    BY <1>1 DEF Waiting, NothingSeen
  <2> QED
    BY <2>1 DEF JobExact, SeenExact, MeasuredExact, CountedExact, Gated, Measuring, K7
<1> QED
  BY <1>3, <1>4, <1>5, <1>6 DEF GateInv

(***************************************************************************)
(* What no step undoes, as long as no second process of the engine starts. *)
(***************************************************************************)
Forward ==
  /\ truths = Event => truths' = Event
  /\ StreamFindings \subseteq findings => StreamFindings \subseteq findings'
  /\ history.launches >= 1 => history'.launches >= 1
  /\ history.launches > 1 => history'.launches > 1
  /\ history.launches >= 1 /\ history'.launches = 1 =>
       /\ history.launches = 1 /\ (history.stopped => history'.stopped)
       /\ history'.mode = history.mode /\ history'.lambda = history.lambda
       /\ Complete => Complete'
       /\ ~engine.on =>
            /\ ~engine'.on /\ run'.analyzed = run.analyzed /\ estimate' = estimate
            /\ history'.lost = history.lost /\ history'.misjudged = history.misjudged

\* What the whole sample gives depends on the engine's parameters only.
LEMMA FinalStays ==
  ASSUME history'.mode = history.mode, history'.lambda = history.lambda
  PROVE  /\ FinalEstimate' = FinalEstimate
         /\ \A row : FinalRow(row)' = FinalRow(row) /\ PlainRow(row)' = PlainRow(row)
<1>1. FinalEstimate' = FinalEstimate
  BY DEF FinalEstimate
<1> QED
  BY <1>1 DEF FinalRow, PlainRow

\* A job that does not move stays right.
LEMMA JobStays ==
  ASSUME Forward, HistoryOK, HistoryOK', NEW r, NEW j \in Job, JobExact(r, j)
  PROVE  JobExact(r, j)'
<1>1. history.launches \in Nat /\ history'.launches \in Nat
  BY DEF HistoryOK
<1>2. SeenExact(r)'
  <2>1. (r.whole => truths' = Event) /\ (r.complete => history'.launches >= 1)
    BY DEF Forward, JobExact, SeenExact
  <2>2. ASSUME r.complete, history'.launches = 1
        PROVE  /\ Complete' /\ run'.analyzed = run.analyzed /\ history.launches = 1
    BY <2>2 DEF Forward, JobExact, SeenExact, Complete
  <2>3. ASSUME r.seen.status.analyzed # Null
        PROVE  /\ history'.launches >= 1
               /\ Single' => ~engine'.on /\ run'.analyzed = r.seen.status.analyzed
    BY <2>3 DEF Forward, JobExact, SeenExact, Single
  <2> QED
    BY <2>1, <2>2, <2>3 DEF JobExact, SeenExact
<1>3. MeasuredExact(r)'
  <2>1. r.pc \in Measuring => history'.launches >= 1 /\ (Single' => ~engine'.on)
    BY DEF Forward, JobExact, MeasuredExact, Single
  <2>2. ASSUME r.pc \in Measuring, Sound'
        PROVE  /\ Sound /\ history'.mode = history.mode /\ history'.lambda = history.lambda
               /\ estimate = FinalEstimate /\ estimate' = estimate
    BY <2>2 DEF Forward, JobExact, MeasuredExact, Single, Sound
  <2>3. ASSUME r.pc \in Measuring, Sound'
        PROVE  /\ estimate' = FinalEstimate'
               /\ r.whole /\ r.pc = "areas" => r.f1 = Coverage(FinalEstimate', Event, r.partition)
               /\ r.whole /\ r.pc = "reduction" => \A row \in r.todo : row = PlainRow(row)'
               /\ r.whole /\ r.pc = "write" => \A row \in r.todo : row = FinalRow(row)'
    <3>1. FinalEstimate' = FinalEstimate
          /\ \A row : FinalRow(row)' = FinalRow(row) /\ PlainRow(row)' = PlainRow(row)
      BY <2>2, <2>3, FinalStays
    <3> QED
      BY <2>2, <2>3, <3>1 DEF JobExact, MeasuredExact
  <2> QED
    BY <2>1, <2>3 DEF MeasuredExact, Measuring
<1>4. Option[j].integrity = "only" => CountedExact(r)'
  BY DEF Forward, JobExact, CountedExact
<1> QED
  BY <1>1, <1>2, <1>3, <1>4 DEF JobExact, Forward

\* The rows that are written stay right.
LEMMA MetricsStay ==
  ASSUME Forward, MetricsExact, metrics' = metrics
  PROVE  MetricsExact'
<1>1. metrics' # {} => history'.launches >= 1 /\ (Single' => ~engine'.on)
  BY DEF Forward, MetricsExact, Single
<1>2. ASSUME metrics' # {}, Sound'
      PROVE  \A m \in metrics : m.whole => m.row = FinalRow(m.row)'
  <2>1. Sound /\ history'.mode = history.mode /\ history'.lambda = history.lambda
    BY <1>2 DEF Forward, MetricsExact, Single, Sound
  <2> QED
    BY <2>1, FinalStays DEF MetricsExact
<1> QED
  BY <1>1, <1>2 DEF MetricsExact

\* The writers of the tables only go forward.
LEMMA WriteForward ==
  ASSUME Typed, EngineExact, Write
  PROVE  Forward
<1>1. /\ HistoryOK /\ truths \subseteq Event /\ records \subseteq Recorded
      /\ history.launches \in Nat /\ budget \in {budget}
      /\ run \in [published : Nat \cup {Null}, analyzed : Nat \cup {Null},
                  inspected : Nat \cup {Null}]
  BY DEF Typed, ValidationTypeOK, HistoryOK
<1>2. CASE CompleteRun
  BY <1>1, <1>2 DEF CompleteRun, Forward, Complete, engineVars, Finished
<1>3. ASSUME NEW b, PersistRecords(b) PROVE Forward
  BY <1>1, <1>3 DEF PersistRecords, Forward, Complete, engineVars, Finished
<1>4. ASSUME NEW b, PersistTruths(b) PROVE Forward
  BY <1>1, <1>4 DEF PersistTruths, Forward, Complete, engineVars, Finished
<1>5. ASSUME NEW l, NEW m, EngineStart(m, l) PROVE Forward
  <2>1. UNCHANGED <<run, records, truths, estimate, findings>> /\ ~engine.on
        /\ history'.launches = history.launches + 1
    BY <1>1, <1>5 DEF EngineStart, tables, HistoryOK
  <2> QED
    BY <1>1, <2>1 DEF Forward
<1>6. CASE \E b : \/ EngineFlush(b) \/ EngineLoses(b) \/ EngineMisjudges(b)
                  \/ EngineBreaks(b) \/ EngineCrash(b)
  <2>1. /\ UNCHANGED <<truths, findings>> /\ engine.on
        /\ \/ history' = history
           \/ \E a : history' = [history EXCEPT !.lost = a]
           \/ \E a : history' = [history EXCEPT !.misjudged = a]
           \/ history' = [history EXCEPT !.stopped = TRUE]
    BY <1>6 DEF EngineFlush, EngineLoses, EngineMisjudges, EngineBreaks, EngineCrash, tables
  <2>2. /\ history'.launches = history.launches /\ history'.mode = history.mode
        /\ history'.lambda = history.lambda
        /\ history.stopped => history'.stopped
    BY <1>1, <2>1 DEF HistoryOK
  <2> QED
    BY <1>1, <2>1, <2>2 DEF Forward, Complete
<1>7. CASE EngineEnds
  <2>1. /\ UNCHANGED <<truths, findings>> /\ engine.on
        /\ history' = [history EXCEPT !.stopped = Pending # {}]
    BY <1>7 DEF EngineEnds
  <2>2. /\ history'.launches = history.launches /\ history'.mode = history.mode
        /\ history'.lambda = history.lambda
    BY <1>1, <2>1 DEF HistoryOK
  <2>3. history.launches = 1 => ~history.stopped
    BY <2>1 DEF EngineExact
  <2> QED
    BY <1>1, <2>1, <2>2, <2>3 DEF Forward, Complete
<1>8. CASE BatchFlush \/ (\E f : StreamFlush(f)) \/ (\E n : StreamDeclare(n))
  <2>1. /\ UNCHANGED <<records, truths, estimate, engine, handled, history>>
        /\ run' = run \/ \E n : run' = [run EXCEPT !.inspected = n]
        /\ findings \subseteq findings'
    BY <1>8 DEF BatchFlush, StreamFlush, StreamDeclare, engineVars
  <2>2. run'.analyzed = run.analyzed /\ run'.published = run.published
    BY <1>1, <2>1
  <2> QED
    BY <1>1, <2>1, <2>2 DEF Forward, Complete, Finished
<1> QED
  BY <1>2, <1>3, <1>4, <1>5, <1>6, <1>7, <1>8 DEF Write

\* Other writers leave the engine's tables alone.
LEMMA EngineStays ==
  ASSUME EngineExact, UNCHANGED <<estimate, engine, handled>>, run'.analyzed = run.analyzed,
         history'.launches = history.launches, history'.stopped = history.stopped,
         history'.mode = history.mode, history'.lambda = history.lambda,
         history'.lost = history.lost, history'.misjudged = history.misjudged
  PROVE  EngineExact'
<1>1. (Single' => Single) /\ AllSampled' = AllSampled
  BY DEF Single, AllSampled
<1>2. \A n : CountOK(n) => CountOK(n)'
  BY DEF CountOK
<1> QED
  BY <1>1, <1>2 DEF EngineExact

\* A batch of the engine is the front of what is left of its sample.
LEMMA BatchIsFront ==
  ASSUME NEW batch \in Batches(Pending), NEW sample, sample \subseteq Recorded,
         Pending = sample \ handled
  PROVE  GonePast(batch) \cap sample = (handled \cap sample) \cup batch
<1>1. PICK last \in Pending : batch = {e \in Pending : Id[e] <= Id[last]}
  BY DEF Batches
<1>2. Recorded \subseteq Event /\ \A e \in Event : Id[e] \in Int
  BY FiniteRun, OrderAssumption
<1>3. ASSUME NEW e \in sample, NEW l \in batch, Id[e] <= Id[l]
      PROVE  e \in handled \/ e \in batch
  <2>1. Id[e] \in Int /\ Id[l] \in Int /\ Id[last] \in Int /\ Id[l] <= Id[last]
    BY <1>1, <1>2, <1>3
  <2>2. Id[e] <= Id[last]
    BY <1>3, <2>1
  <2> QED
    BY <1>1, <2>2
<1>4. \A e \in batch : e \in sample /\ e \in Recorded /\ Id[e] <= Id[e]
  BY <1>1, <1>2
<1> QED
  BY <1>3, <1>4 DEF GonePast

\* A process starts: its own count is zero, and the launches count it.
LEMMA StartExact ==
  ASSUME Typed, EngineExact, NEW m, NEW l, EngineStart(m, l)
  PROVE  EngineExact'
<1>1. /\ engine' = [on |-> TRUE, mode |-> m, lambda |-> l, count |-> 0]
      /\ UNCHANGED <<run, estimate, handled>>
      /\ history' = [history EXCEPT !.launches = @ + 1, !.mode = m, !.lambda = l]
  BY DEF EngineStart, tables
<1>2. /\ history.launches \in Nat /\ history'.launches = history.launches + 1
      /\ history'.mode = m /\ history'.lambda = l /\ history'.lost = history.lost
      /\ history'.stopped = history.stopped /\ history'.misjudged = history.misjudged
  BY <1>1 DEF Typed, HistoryOK
<1>3. CASE history.launches = 0
  <2>1. /\ run'.analyzed = Null /\ Estimated(estimate') = {} /\ handled' = {}
        /\ history'.lost = {} /\ history'.misjudged = 0 /\ ~history'.stopped
    BY <1>1, <1>2, <1>3 DEF EngineExact
  <2>2. CountOK(0)'
    BY <2>1, FS_EmptySet DEF CountOK
  <2> QED
    BY <1>1, <1>2, <1>3, <2>1, <2>2 DEF EngineExact
<1>4. CASE history.launches # 0
  BY <1>2, <1>4 DEF EngineExact, Single
<1> QED
  BY <1>3, <1>4

\* What a running engine is about to write, when it is the only one.
LEMMA BatchIsNew ==
  ASSUME Typed, EngineExact, Single, engine.on, NEW batch \in Batches(Pending)
  PROVE  /\ batch \subseteq AllSampled /\ batch \cap handled = {}
         /\ batch \cap Estimated(estimate) = {} /\ batch \cap history.lost = {}
         /\ GonePast(batch) \cap AllSampled = (handled \cap AllSampled) \cup batch
         /\ batch \subseteq Event /\ Cardinality(batch) \in Nat
         /\ Cardinality(Estimated(estimate) \cup batch)
              = Cardinality(Estimated(estimate)) + Cardinality(batch)
         /\ Cardinality(Estimated(estimate)) \in Nat
         /\ batch # {} => Cardinality(batch) > 0
<1>1. Pending = AllSampled \ handled /\ AllSampled \subseteq Recorded
  BY DEF EngineExact, Pending, AllSampled, Estimable
<1>2. batch \subseteq Pending
  BY DEF Batches
<1>3. Estimated(estimate) \subseteq handled /\ history.lost \subseteq handled
  BY DEF EngineExact
<1>4. batch \cap Estimated(estimate) = {}
  BY <1>1, <1>2, <1>3
<1>5. /\ batch \subseteq Event /\ IsFiniteSet(batch) /\ Cardinality(batch) \in Nat
      /\ IsFiniteSet(Estimated(estimate)) /\ Cardinality(Estimated(estimate)) \in Nat
  <2>1. Estimated(estimate) \subseteq Recorded
    BY <1>1 DEF EngineExact
  <2> QED
    BY <1>1, <1>2, <2>1, FiniteRun
<1>6. Cardinality(Estimated(estimate) \cup batch)
        = Cardinality(Estimated(estimate)) + Cardinality(batch)
  <2>1. Estimated(estimate) \cap batch = {}
    BY <1>4
  <2>2. Cardinality(Estimated(estimate) \cap batch) = 0
    BY <2>1, FS_EmptySet
  <2>3. Cardinality(Estimated(estimate) \cup batch)
        = Cardinality(Estimated(estimate)) + Cardinality(batch)
          - Cardinality(Estimated(estimate) \cap batch)
    BY <1>5, FS_Union
  <2> QED
    BY <1>5, <2>2, <2>3
<1>7. batch # {} => Cardinality(batch) > 0
  <2>1. Cardinality(batch) = 0 <=> batch = {}
    BY <1>5, FS_EmptySet
  <2> QED
    BY <1>5, <2>1
<1>8. GonePast(batch) \cap AllSampled = (handled \cap AllSampled) \cup batch
  BY <1>1, BatchIsFront
<1> QED
  BY <1>1, <1>2, <1>3, <1>4, <1>5, <1>6, <1>7, <1>8

\* A batch is written: it is counted, or all of it but one and once misjudged.
LEMMA FlushExact ==
  ASSUME Typed, EngineExact, NEW batch \in Batches(Pending),
         EngineFlush(batch) \/ EngineMisjudges(batch)
  PROVE  EngineExact'
<1>1. /\ engine.on /\ batch \cap Estimated(estimate) = {}
      /\ estimate' = [e \in Event |-> IF e \in batch THEN engine.lambda ELSE estimate[e]]
      /\ handled' = GonePast(batch) /\ run' = run
  BY DEF EngineFlush, EngineMisjudges, Insert
<1>2. /\ engine.lambda \in EngineLambda /\ engine.lambda # 0
      /\ estimate \in [Event -> EngineLambda \cup {0}]
  BY ValidationAssumption DEF Typed, ValidationTypeOK
<1>3. /\ engine'.on /\ engine'.mode = engine.mode /\ engine'.lambda = engine.lambda
      /\ history'.launches = history.launches /\ history'.stopped = history.stopped
      /\ history'.mode = history.mode /\ history'.lambda = history.lambda
      /\ history'.lost = history.lost
  BY <1>1 DEF EngineFlush, EngineMisjudges, Typed, ValidationTypeOK, HistoryOK
<1>4. history.launches # 0 /\ (history.launches = 1 => ~history.stopped)
  BY <1>1 DEF EngineExact
<1>5. /\ engine'.count \in Nat
      /\ engine'.count + history'.misjudged
           = engine.count + history.misjudged + Cardinality(batch)
  <2>1. /\ Cardinality(batch) \in Nat /\ engine.count \in Nat /\ history.misjudged \in Nat
        /\ BufferEvents \in Nat /\ BufferEvents > 1
    BY PendingFinite, ValidationAssumption
       DEF EngineFlush, EngineMisjudges, Typed, ValidationTypeOK, HistoryOK
  <2>2. CASE EngineFlush(batch)
    <3>1. engine'.count = engine.count + Cardinality(batch) /\ history' = history
      BY <2>2 DEF EngineFlush, Typed, ValidationTypeOK
    <3> QED
      BY <2>1, <3>1
  <2>3. CASE EngineMisjudges(batch)
    <3>1. /\ engine'.count = engine.count + Cardinality(batch) - 1
          /\ history'.misjudged = history.misjudged + 1
          /\ Cardinality(batch) = BufferEvents
      BY <2>3 DEF EngineMisjudges, Typed, ValidationTypeOK, HistoryOK
    <3> QED
      BY <2>1, <3>1
  <2> QED
    BY <2>2, <2>3
<1>6. ASSUME Single
      PROVE  EngineExact'
  <2>1. /\ batch \subseteq AllSampled /\ batch \cap history.lost = {}
        /\ GonePast(batch) \cap AllSampled = (handled \cap AllSampled) \cup batch
        /\ batch \subseteq Event /\ Cardinality(batch) \in Nat
        /\ Cardinality(Estimated(estimate) \cup batch)
             = Cardinality(Estimated(estimate)) + Cardinality(batch)
        /\ Cardinality(Estimated(estimate)) \in Nat
    BY <1>1, <1>6, BatchIsNew
  <2>2. Estimated(estimate') = Estimated(estimate) \cup batch
    BY <1>1, <1>2, <2>1 DEF Estimated
  <2>3. AllSampled' = AllSampled /\ Single'
    BY <1>3, <1>6 DEF AllSampled, Single
  <2>4. CountOK(engine.count) /\ engine.lambda = history.lambda /\ engine.mode = history.mode
    BY <1>1, <1>6 DEF EngineExact
  <2>5. CountOK(engine.count)'
    <3>1. Cardinality(Estimated(estimate'))
            = Cardinality(Estimated(estimate)) + Cardinality(batch)
      BY <2>1, <2>2
    <3>2. history.misjudged \in Nat /\ history'.misjudged \in Nat /\ BufferEvents \in Nat
          /\ engine.count \in Nat
      BY <2>4, ValidationAssumption
         DEF EngineFlush, EngineMisjudges, Typed, HistoryOK, CountOK
    <3> QED
      BY <1>3, <1>5, <2>1, <2>4, <3>1, <3>2 DEF CountOK
  <2>6. \A e \in Estimated(estimate') : estimate'[e] = history.lambda
    <3>1. \A e \in Estimated(estimate) : estimate[e] = history.lambda
      BY <1>6 DEF EngineExact
    <3>2. ASSUME NEW e \in Estimated(estimate') PROVE estimate'[e] = history.lambda
      <4>1. e \in batch \/ e \in Estimated(estimate)
        BY <2>2
      <4>2. e \in Event
        BY <1>2, <2>1, <4>1 DEF Estimated
      <4> QED
        BY <1>1, <2>4, <3>1, <4>1, <4>2
    <3> QED
      BY <3>2
  <2>7. /\ Estimated(estimate') \subseteq AllSampled
        /\ Estimated(estimate') \cap history.lost = {}
        /\ Estimated(estimate') \cup history.lost = handled' \cap AllSampled
    BY <1>1, <1>6, <2>1, <2>2 DEF EngineExact
  <2>8. run.analyzed = Null
    BY <1>1, <1>6 DEF EngineExact
  <2> QED
    BY <1>1, <1>3, <1>4, <2>3, <2>4, <2>5, <2>6, <2>7, <2>8 DEF EngineExact
<1>7. CASE ~Single
  BY <1>3, <1>4, <1>7 DEF EngineExact, Single
<1> QED
  BY <1>6, <1>7

\* A write that failed: the batch is gone past, one event of it uncounted.
LEMMA LosesExact ==
  ASSUME Typed, EngineExact, NEW batch \in Batches(Pending), EngineLoses(batch)
  PROVE  EngineExact'
<1>1. /\ engine.on /\ Cardinality(batch) = BufferEvents
      /\ estimate' = estimate
      /\ engine' = [engine EXCEPT !.count = @ + Cardinality(batch) - 1]
      /\ handled' = GonePast(batch) /\ run' = run
      /\ history' = [history EXCEPT !.lost = @ \cup (batch \ Estimated(estimate))]
  BY DEF EngineLoses, tables
<1>2. /\ engine' = [on |-> TRUE, mode |-> engine.mode, lambda |-> engine.lambda,
                    count |-> engine.count + Cardinality(batch) - 1]
      /\ engine.count \in Nat
  BY <1>1 DEF Typed, ValidationTypeOK
<1>3. /\ history.launches # 0 /\ (history.launches = 1 => ~history.stopped)
      /\ history'.launches = history.launches /\ history'.stopped = history.stopped
      /\ history'.mode = history.mode /\ history'.lambda = history.lambda
      /\ history'.lost = history.lost \cup (batch \ Estimated(estimate))
      /\ history'.misjudged = history.misjudged /\ history.misjudged \in Nat
  BY <1>1 DEF EngineExact, Typed, HistoryOK
<1>4. ASSUME Single
      PROVE  EngineExact'
  <2>1. /\ batch \subseteq AllSampled /\ batch \cap Estimated(estimate) = {}
        /\ GonePast(batch) \cap AllSampled = (handled \cap AllSampled) \cup batch
        /\ Cardinality(Estimated(estimate)) \in Nat
    BY <1>1, <1>4, BatchIsNew
  <2>2. batch # {} /\ BufferEvents \in Nat /\ BufferEvents > 1
    <3>1. BufferEvents \in Nat /\ BufferEvents # 0 /\ BufferEvents # 1
      BY ValidationAssumption
    <3>2. batch # {}
      BY <1>1, <3>1, FS_EmptySet
    <3> QED
      BY <3>1, <3>2
  <2>3. AllSampled' = AllSampled /\ Single'
    BY <1>3, <1>4 DEF AllSampled, Single
  <2>4. CountOK(engine.count) /\ engine.lambda = history.lambda /\ engine.mode = history.mode
        /\ run.analyzed = Null
    BY <1>1, <1>4 DEF EngineExact
  <2>5. history'.lost # {} /\ engine'.count = engine.count + BufferEvents - 1
    BY <1>1, <1>2, <1>3, <2>1, <2>2
  <2>6. engine.count + history.misjudged >= Cardinality(Estimated(estimate))
    BY <1>2, <1>3, <2>1, <2>2, <2>4 DEF CountOK
  <2>7. CountOK(engine.count)'
    <3>1. /\ engine'.count \in Nat
          /\ engine'.count + history'.misjudged
               >= Cardinality(Estimated(estimate')) + BufferEvents - 1
      BY <1>1, <1>2, <1>3, <2>1, <2>2, <2>5, <2>6
    <3> QED
      BY <2>5, <3>1 DEF CountOK
  <2>8. /\ Estimated(estimate') \cap history'.lost = {}
        /\ Estimated(estimate') \cup history'.lost = handled' \cap AllSampled
    BY <1>1, <1>3, <1>4, <2>1 DEF EngineExact
  <2>9. /\ Estimated(estimate') \subseteq AllSampled
        /\ \A e \in Estimated(estimate') : estimate'[e] = history'.lambda
    BY <1>1, <1>3, <1>4 DEF EngineExact
  <2> QED
    BY <1>1, <1>2, <1>3, <2>3, <2>4, <2>7, <2>8, <2>9 DEF EngineExact
<1>5. CASE ~Single
  BY <1>2, <1>3, <1>5 DEF EngineExact, Single
<1> QED
  BY <1>4, <1>5

\* An engine that is stopped or dies leaves no count to rely on.
LEMMA StoppedExact ==
  ASSUME Typed, EngineExact, NEW batch, EngineBreaks(batch) \/ EngineCrash(batch)
  PROVE  EngineExact'
<1>1. /\ engine.on /\ engine' = EngineOff /\ history' = [history EXCEPT !.stopped = TRUE]
  BY DEF EngineBreaks, EngineCrash
<1>2. history.launches # 0 /\ history'.launches = history.launches /\ history'.stopped = TRUE
  BY <1>1 DEF EngineExact, Typed, HistoryOK
<1> QED
  BY <1>1, <1>2 DEF EngineExact, EngineOff, Single

\* Run returns: the count of this process is declared.
LEMMA EndsExact ==
  ASSUME Typed, EngineExact, EngineEnds
  PROVE  EngineExact'
<1>1. /\ engine.on /\ engine' = EngineOff /\ estimate' = estimate
      /\ run' = [run EXCEPT !.analyzed = engine.count]
      /\ history' = [history EXCEPT !.stopped = Pending # {}]
  BY DEF EngineEnds
<1>2. /\ history.launches # 0 /\ history'.launches = history.launches
      /\ history'.stopped = (Pending # {}) /\ history'.lost = history.lost
      /\ history'.misjudged = history.misjudged
      /\ history'.mode = history.mode /\ history'.lambda = history.lambda
      /\ run'.analyzed = engine.count
  BY <1>1 DEF EngineExact, Typed, HistoryOK, ValidationTypeOK
<1>3. ASSUME Single'
      PROVE  /\ \A e \in Estimated(estimate') : estimate'[e] = history'.lambda
             /\ Estimated(estimate') \subseteq AllSampled'
             /\ Estimated(estimate') \cap history'.lost = {}
             /\ CountOK(run.analyzed)'
             /\ Estimated(estimate') \cup history'.lost = AllSampled'
  <2>1. Single /\ Pending = {} /\ AllSampled' = AllSampled
    BY <1>1, <1>2, <1>3 DEF Single, EngineExact, AllSampled
  <2>2. /\ engine.mode = history.mode /\ CountOK(engine.count)
        /\ Estimated(estimate) \cup history.lost = handled \cap AllSampled
        /\ \A e \in Estimated(estimate) : estimate[e] = history.lambda
        /\ Estimated(estimate) \subseteq AllSampled /\ Estimated(estimate) \cap history.lost = {}
    BY <1>1, <2>1 DEF EngineExact
  <2>3. AllSampled \subseteq handled
    BY <2>1, <2>2 DEF Pending, AllSampled
  <2>4. CountOK(run.analyzed)'
    BY <1>1, <1>2, <2>2 DEF CountOK
  <2> QED
    BY <1>1, <1>2, <2>1, <2>2, <2>3, <2>4
<1> QED
  BY <1>1, <1>2, <1>3 DEF EngineExact, EngineOff

\* All the steps of the writers.
LEMMA WriteExact ==
  ASSUME Typed, EngineExact, Write
  PROVE  EngineExact'
<1>1. CASE CompleteRun \/ BatchFlush \/ (\E b : PersistRecords(b) \/ PersistTruths(b))
           \/ (\E f : StreamFlush(f)) \/ (\E n : StreamDeclare(n))
  <2>1. /\ UNCHANGED <<estimate, engine, handled, history>>
        /\ \/ run' = run \/ \E n : run' = [run EXCEPT !.inspected = n]
           \/ \E n : run' = [run EXCEPT !.published = n]
    BY <1>1 DEF CompleteRun, BatchFlush, PersistRecords, PersistTruths, StreamFlush,
                StreamDeclare, engineVars
  <2>2. run'.analyzed = run.analyzed
    BY <2>1 DEF Typed, ValidationTypeOK
  <2> QED
    BY <2>1, <2>2, EngineStays
<1>2. CASE \E l \in EngineLambda, m \in budget.modes : EngineStart(m, l)
  BY <1>2, StartExact
<1>3. CASE \E b \in Batches(Pending) : \/ EngineFlush(b) \/ EngineLoses(b)
                                       \/ EngineMisjudges(b) \/ EngineBreaks(b)
  BY <1>3, FlushExact, LosesExact, StoppedExact
<1>4. CASE \E b \in Batches(Pending) \cup {{}} : EngineCrash(b)
  BY <1>4, StoppedExact
<1>5. CASE EngineEnds
  BY <1>5, EndsExact
<1> QED
  BY <1>1, <1>2, <1>3, <1>4, <1>5 DEF Write

\* The row of the run: what the engine declared is what it counted.
LEMMA RunStep ==
  ASSUME Typed, RunExact, Write
  PROVE  RunExact'
<1>1. /\ run \in [published : Nat \cup {Null}, analyzed : Nat \cup {Null},
                  inspected : Nat \cup {Null}]
      /\ Cardinality(Recorded) \in Nat
  BY FiniteRun DEF Typed, ValidationTypeOK
<1>2. CASE CompleteRun
  BY <1>1, <1>2 DEF CompleteRun, RunExact
<1>3. CASE \E n \in 0..Cardinality(Recorded) : StreamDeclare(n)
  <2>1. PICK n \in 0..Cardinality(Recorded) : StreamDeclare(n)
    BY <1>3
  <2>2. /\ run' = [run EXCEPT !.inspected = n] /\ findings' = findings
        /\ n = Cardinality(Recorded) => StreamFindings \subseteq findings
    BY <1>1, <2>1 DEF StreamDeclare
  <2> QED
    BY <1>1, <2>2 DEF RunExact
<1>4. CASE ~CompleteRun /\ ~(\E n \in 0..Cardinality(Recorded) : StreamDeclare(n))
  <2>1. /\ findings \subseteq findings'
        /\ run' = run \/ \E n : run' = [run EXCEPT !.analyzed = n]
    BY <1>4 DEF Write, PersistRecords, PersistTruths, EngineStart, EngineFlush, EngineLoses,
         EngineMisjudges, EngineBreaks, EngineCrash, EngineEnds, StreamFlush, BatchFlush, tables
  <2> QED
    BY <1>1, <2>1 DEF RunExact
<1> QED
  BY <1>2, <1>3, <1>4

\* The past of the engine is not touched by the jobs and the gateway.
SamePast ==
  /\ history'.launches = history.launches /\ history'.stopped = history.stopped
  /\ history'.mode = history.mode /\ history'.lambda = history.lambda
  /\ history'.lost = history.lost /\ history'.misjudged = history.misjudged

\* A step that changes neither tables nor engine goes forward.
LEMMA StillForward ==
  ASSUME EngineExact, RunExact, UNCHANGED <<tables, engineVars>>, SamePast
  PROVE  Forward /\ EngineExact' /\ RunExact'
<1>1. /\ run' = run /\ records' = records /\ truths' = truths /\ estimate' = estimate
      /\ findings' = findings /\ engine' = engine /\ handled' = handled
  BY DEF tables, engineVars
<1>2. EngineExact'
  BY <1>1, EngineStays DEF SamePast
<1>3. RunExact'
  BY <1>1 DEF RunExact
<1>4. Forward
  BY <1>1 DEF Forward, SamePast, Complete, Finished
<1> QED
  BY <1>2, <1>3, <1>4

\* A step of a job changes nothing of the past but the overlap.
LEMMA MeasurePast ==
  ASSUME Typed, Measure
  PROVE  SamePast
<1>1. PICK j \in Job : MeasureStep(j)
  BY MeasureMoves
<1>2. CASE Start(j)
  BY <1>2 DEF Start, Typed, HistoryOK, SamePast
<1>3. CASE ~Start(j)
  <2>1. history' = history
    BY <1>1, <1>3
       DEF MeasureStep, Load, Calibrated, ReadStatus, CountRecords, CountTruths,
           CheckPreconditions, DeleteRun, ComputeCoverage, ComputeAreas, Compare, WriteRow,
           CountK7Truths, checkIntegrityPrecondition, PrecisionByRule, RecallByRule,
           UpsertRule, JobFails, Still
  <2> QED
    BY <2>1 DEF SamePast
<1> QED
  BY <1>2, <1>3

\* One job moves to the record r, the others stay right.
LEMMA GateJobMoves ==
  ASSUME Typed, HistoryOK', GateInv, Forward, NEW j \in Job, NEW r,
         job' = [job EXCEPT ![j] = r], JobExact(r, j)
  PROVE  \A i \in Job : \A s : s = job'[i] => JobExact(s, i)'
<1>1. HistoryOK /\ job'[j] = r /\ \A i \in Job \ {j} : job'[i] = job[i]
  BY RecordMoves DEF Typed
<1>2. ASSUME NEW i \in Job, NEW s, s = job'[i]
      PROVE  JobExact(s, i)'
  <2>1. JobExact(s, i)
    BY <1>1, <1>2 DEF GateInv
  <2> QED
    BY <1>1, <2>1, JobStays
<1> QED
  BY <1>2

\* A move to a step that has nothing to show.
LEMMA PlainExact ==
  ASSUME NEW q, NEW r, NEW j \in Job, JobExact(q, j),
         r.whole => q.whole, r.complete = q.complete, r.seen = q.seen,
         r.pc \notin {"truths", "gate", "refused"} \cup Measuring,
         IF Option[j].integrity = "only" THEN r.pc \notin Gated \cup K7 ELSE TRUE
  PROVE  JobExact(r, j)
<1>1. SeenExact(r)
  BY DEF JobExact, SeenExact
<1>2. MeasuredExact(r)
  BY DEF MeasuredExact, Measuring
<1>3. Option[j].integrity = "only" => CountedExact(r)
  BY DEF CountedExact, K7
<1> QED
  BY <1>1, <1>2, <1>3 DEF JobExact

\* The job's own record is right.
LEMMA JobIsExact ==
  ASSUME GateInv, NEW j \in Job
  PROVE  JobExact(job[j], j)
BY DEF GateInv

\* The steps that compute nothing claim nothing.
LEMMA PlainGate ==
  ASSUME Typed, RowInv, GateInv, NEW j \in Job,
         Start(j) \/ Load(j) \/ Calibrated(j) \/ JobFails(j)
  PROVE  \E r : job' = [job EXCEPT ![j] = r] /\ JobExact(r, j)
<1>1. JobExact(job[j], j) /\ JobsOK
  BY JobIsExact DEF Typed
<1>2. ASSUME NEW s \in {"load", "search", "k7 truths", "status", "failed"},
             s = "status" => Option[j].integrity # "only",
             job' = [job EXCEPT ![j] = At(j, s)]
      PROVE  \E r : job' = [job EXCEPT ![j] = r] /\ JobExact(r, j)
  <2>1. /\ At(j, s).pc = s /\ At(j, s).whole = job[j].whole
        /\ At(j, s).complete = job[j].complete /\ At(j, s).seen = job[j].seen
    BY <1>1, AtKeeps
  <2>2. s \notin {"truths", "gate", "refused"} \cup Measuring
        /\ (s \in Gated \cup K7 => s = "status")
    BY DEF Measuring, Gated, K7
  <2>3. JobExact(At(j, s), j)
    BY <1>1, <1>2, <2>1, <2>2, PlainExact
  <2> QED
    BY <1>2, <2>3
<1>3. CASE Start(j)
  <2>1. \E s \in {"load", "k7 truths", "status"} :
          job' = [job EXCEPT ![j] = At(j, s)] /\ (s = "status" => Option[j].integrity # "only")
    BY <1>3 DEF Start, Goes, FirstStep
  <2> QED
    BY <1>2, <2>1
<1>4. CASE Load(j)
  <2>1. \E s \in {"search", "failed"} : job' = [job EXCEPT ![j] = At(j, s)]
    BY <1>4 DEF Load, Goes
  <2> QED
    BY <1>2, <2>1
<1>5. CASE Calibrated(j)
  <2>1. \E s \in {"k7 truths", "status", "failed"} :
          job' = [job EXCEPT ![j] = At(j, s)] /\ (s = "status" => Option[j].integrity # "only")
    BY <1>5 DEF Calibrated, Goes, FirstStep
  <2> QED
    BY <1>2, <2>1
<1>6. CASE JobFails(j)
  <2>1. job' = [job EXCEPT ![j] = At(j, "failed")]
    BY <1>6 DEF JobFails, At
  <2> QED
    BY <1>2, <2>1
<1> QED
  BY <1>3, <1>4, <1>5, <1>6

\* The gate reads: the declarations, then the records, then the truth rows.
LEMMA ReadExact ==
  ASSUME Typed, RowInv, GateInv, NEW j \in Job,
         ReadStatus(j) \/ CountRecords(j) \/ CountTruths(j)
  PROVE  \E r : job' = [job EXCEPT ![j] = r] /\ JobExact(r, j)
<1>1. /\ JobExact(job[j], j) /\ JobsOK /\ RecordOK(job[j])
      /\ history.launches \in Nat
      /\ job[j].seen = [status |-> job[j].seen.status, records |-> job[j].seen.records,
                        truths |-> job[j].seen.truths]
  BY JobIsExact DEF Typed, JobsOK, RecordOK, HistoryOK
<1>2. Option[j].integrity # "only"
  BY <1>1 DEF JobExact, ReadStatus, CountRecords, CountTruths, Goes, Gated
<1>3. ASSUME NEW r, SeenExact(r), r.pc \in {"records", "truths", "gate"}
      PROVE  JobExact(r, j)
  BY <1>2, <1>3 DEF JobExact, MeasuredExact, Measuring
<1>4. CASE ReadStatus(j)
  <2>1. PICK r : /\ job' = [job EXCEPT ![j] = r]
                 /\ r.pc = "records" /\ r.whole = job[j].whole
                 /\ r.complete = Complete /\ r.seen.status = run
    <3> DEFINE r == [At(j, "records") EXCEPT !.seen.status = run, !.complete = Complete]
    <3>1. /\ r.pc = "records" /\ r.whole = job[j].whole
          /\ r.complete = Complete /\ r.seen.status = run
      <4>1. PICK q : q = At(j, "records")
        OBVIOUS
      <4>2. /\ q.pc = "records" /\ q.whole = job[j].whole
            /\ q.complete = job[j].complete /\ q.seen = job[j].seen
            /\ DOMAIN q = JobFields
        BY <1>1, <4>1, AtKeeps
      <4>3. /\ {"pc", "seen", "complete", "whole"} \subseteq DOMAIN q
            /\ {"status", "records", "truths"} \subseteq DOMAIN q.seen
        BY <1>1, <4>2 DEF JobFields
      <4> QED
        BY <4>1, <4>2, <4>3
    <3>2. job' = [job EXCEPT ![j] = r]
      BY <1>4 DEF ReadStatus, Goes
    <3> HIDE DEF r
    <3> QED
      BY <3>1, <3>2
  <2>2. /\ Complete => /\ history.launches = 1 /\ run.published = Cardinality(Recorded)
    BY DEF Complete, Finished, GateInv, RunExact
  <2>3. run.analyzed # Null => /\ history.launches >= 1
                               /\ Single => ~engine.on
    BY <1>1 DEF GateInv, EngineExact
  <2>4. job[j].whole => truths = Event
    BY <1>1 DEF JobExact, SeenExact
  <2>5. SeenExact(r)
    BY <2>1, <2>2, <2>3, <2>4 DEF SeenExact
  <2> QED
    BY <1>3, <2>1, <2>5
<1>5. CASE CountRecords(j)
  <2>1. PICK r : /\ job' = [job EXCEPT ![j] = r]
                 /\ r.pc = "truths" /\ r.whole = job[j].whole
                 /\ r.complete = job[j].complete /\ r.seen.status = job[j].seen.status
                 /\ r.seen.records = Cardinality(records)
    <3> DEFINE r == [At(j, "truths") EXCEPT !.seen.records = Cardinality(records)]
    <3>1. /\ r.pc = "truths" /\ r.whole = job[j].whole
          /\ r.complete = job[j].complete /\ r.seen.status = job[j].seen.status
          /\ r.seen.records = Cardinality(records)
      <4>1. PICK q : q = At(j, "truths")
        OBVIOUS
      <4>2. /\ q.pc = "truths" /\ q.whole = job[j].whole
            /\ q.complete = job[j].complete /\ q.seen = job[j].seen
            /\ DOMAIN q = JobFields
        BY <1>1, <4>1, AtKeeps
      <4>3. /\ {"pc", "seen", "complete", "whole"} \subseteq DOMAIN q
            /\ {"status", "records", "truths"} \subseteq DOMAIN q.seen
        BY <1>1, <4>2 DEF JobFields
      <4> QED
        BY <4>1, <4>2, <4>3
    <3>2. job' = [job EXCEPT ![j] = r]
      BY <1>5 DEF CountRecords, Goes
    <3> HIDE DEF r
    <3> QED
      BY <3>1, <3>2
  <2>2. SeenExact(r)
    BY <1>1, <2>1 DEF SeenExact, JobExact, Complete
  <2> QED
    BY <1>3, <2>1, <2>2
<1>6. CASE CountTruths(j)
  <2>1. PICK r : /\ job' = [job EXCEPT ![j] = r]
                 /\ r.pc = "gate" /\ r.whole = (truths = Event)
                 /\ r.complete = job[j].complete /\ r.seen.status = job[j].seen.status
                 /\ r.seen.records = job[j].seen.records
                 /\ r.seen.truths = Cardinality(truths)
    <3> DEFINE r == [At(j, "gate") EXCEPT !.seen.truths = Cardinality(truths),
                                          !.whole = truths = Event]
    <3>1. /\ r.pc = "gate" /\ r.whole = (truths = Event)
          /\ r.complete = job[j].complete /\ r.seen.status = job[j].seen.status
          /\ r.seen.records = job[j].seen.records
          /\ r.seen.truths = Cardinality(truths)
      <4>1. PICK q : q = At(j, "gate")
        OBVIOUS
      <4>2. /\ q.pc = "gate" /\ q.whole = job[j].whole
            /\ q.complete = job[j].complete /\ q.seen = job[j].seen
            /\ DOMAIN q = JobFields
        BY <1>1, <4>1, AtKeeps
      <4>3. /\ {"pc", "seen", "complete", "whole"} \subseteq DOMAIN q
            /\ {"status", "records", "truths"} \subseteq DOMAIN q.seen
        BY <1>1, <4>2 DEF JobFields
      <4> QED
        BY <4>1, <4>2, <4>3
    <3>2. job' = [job EXCEPT ![j] = r]
      BY <1>6 DEF CountTruths, Goes
    <3> HIDE DEF r
    <3> QED
      BY <3>1, <3>2
  <2>2. job[j].pc = "truths"
    BY <1>6 DEF CountTruths, Goes
  <2>3. SeenExact(r)
    BY <1>1, <2>1, <2>2 DEF SeenExact, JobExact, Complete
  <2> QED
    BY <1>3, <2>1, <2>3
<1> QED
  BY <1>4, <1>5, <1>6

\* The gate decides.
LEMMA CancelRows ==
  ASSUME NEW n \in Nat, NEW m \in Nat, RowsPerEvent * n = m * RowsPerEvent
  PROVE  n = m
<1>1. RowsPerEvent \in Nat /\ RowsPerEvent > 0
  <2>1. IsFiniteSet(Key) /\ Key # {}
    BY MeasuresAssumption
  <2>2. Cardinality(Key) \in Nat /\ Cardinality(Key) # 0
    BY <2>1, FS_CardinalityType, FS_EmptySet
  <2> QED
    BY <2>2 DEF RowsPerEvent
<1> DEFINE k == RowsPerEvent
<1>2. k \in Nat /\ k > 0 /\ k * n = m * k
  BY <1>1
<1> HIDE DEF k
<1>3. k * (n - m) = 0
  BY <1>2
<1> QED
  BY <1>2, <1>3

\* CheckPreconditions: what was counted at the gate is what is stored.
LEMMA DecideExact ==
  ASSUME Typed, RowInv, GateInv, NEW j \in Job, CheckPreconditions(j)
  PROVE  \E r : job' = [job EXCEPT ![j] = r] /\ JobExact(r, j)
<1> DEFINE seen == job[j].seen
           stored == CountEstimates(estimate)
<1>1. /\ JobExact(job[j], j) /\ JobsOK /\ job[j].pc = "gate"
      /\ history.launches \in Nat /\ EngineExact
      /\ Cardinality(Estimated(estimate)) \in Nat
      /\ stored = RowsPerEvent * Cardinality(Estimated(estimate))
  <2>1. Estimated(estimate) \subseteq Event
    BY DEF Typed, ValidationTypeOK, Estimated
  <2>2. Cardinality(Estimated(estimate)) \in Nat
    BY <2>1, FiniteRun
  <2> QED
    BY <2>2, JobIsExact
       DEF Typed, HistoryOK, GateInv, CheckPreconditions, Goes, CountEstimates
<1>2. Option[j].integrity # "only"
  BY <1>1 DEF JobExact, Gated
<1>3. PICK s \in {"refused", "delete", "coverage"} :
        job' = [job EXCEPT ![j] = At(j, s)] /\ (s = "refused" <=> ~Passes(seen, stored))
  BY DEF CheckPreconditions, Goes
<1>4. /\ At(j, s).pc = s /\ At(j, s).whole = job[j].whole /\ At(j, s).seen = seen
      /\ At(j, s).complete = job[j].complete
  BY <1>1, AtKeeps
<1>5. SeenExact(At(j, s))
  BY <1>1, <1>4 DEF JobExact, SeenExact
\* A run that is complete passes.
<1>6. ASSUME job[j].complete, history.launches = 1
      PROVE  Passes(seen, stored)
  <2>1. /\ Complete /\ seen.status.published = Cardinality(Recorded)
        /\ seen.status.analyzed = run.analyzed /\ seen.records = Cardinality(Recorded)
        /\ seen.truths = Cardinality(Event)
    BY <1>1, <1>6 DEF JobExact, SeenExact
  <2>2. run.analyzed = Cardinality(Estimated(estimate)) /\ run.analyzed \in Nat
    <3>1. CountOK(run.analyzed) /\ history.lost = {} /\ history.misjudged = 0
      BY <1>1, <1>6, <2>1 DEF Complete, EngineExact, Single
    <3> QED
      BY <3>1 DEF CountOK
  <2>3. Cardinality(Recorded) \in Nat /\ Cardinality(Event) \in Nat
        /\ Cardinality(Recorded) <= Cardinality(Event)
    BY FiniteRun, FS_Subset
  <2>4. RowsPerEvent \in Nat
    BY FiniteRun, FS_CardinalityType DEF RowsPerEvent
  <2>5. stored = run.analyzed * RowsPerEvent
    BY <1>1, <2>2, <2>4
  <2> HIDE DEF seen, stored
  <2> QED
    BY <2>1, <2>2, <2>3, <2>5
       DEF Passes, simulationFinished, recordsPersisted, truthPersisted, analysisComplete, Null
\* What passes holds what the one engine made, all of it.
<1>7. ASSUME Passes(seen, stored)
      PROVE  /\ history.launches >= 1 /\ (Single => ~engine.on)
             /\ Sound => estimate = FinalEstimate
  <2>1. seen.status.analyzed # Null /\ stored = seen.status.analyzed * RowsPerEvent
    BY <1>7 DEF Passes, analysisComplete
  <2>2. history.launches >= 1
        /\ (Single => ~engine.on /\ run.analyzed = seen.status.analyzed)
    BY <1>1, <2>1 DEF JobExact, SeenExact
  <2>3. ASSUME Sound PROVE estimate = FinalEstimate
    <3>1. Single /\ CountOK(run.analyzed) /\ run.analyzed \in Nat
          /\ stored = run.analyzed * RowsPerEvent
      BY <1>1, <2>1, <2>2, <2>3 DEF EngineExact, CountOK, Sound
    <3>2. run.analyzed = Cardinality(Estimated(estimate))
      BY <1>1, <3>1, CancelRows
    <3>3. history.lost = {}
      <4>1. history.misjudged \in Nat /\ BufferEvents \in Nat
        BY ValidationAssumption DEF Typed, HistoryOK
      <4>2. history.lost # {} => history.misjudged >= BufferEvents - 1
        BY <1>1, <3>1, <3>2, <4>1 DEF CountOK
      <4> QED
        BY <2>3, <4>1, <4>2 DEF Sound
    <3>4. Estimated(estimate) = AllSampled
          /\ \A e \in Estimated(estimate) : estimate[e] = history.lambda
      BY <1>1, <2>2, <3>1, <3>3 DEF EngineExact
    <3>5. estimate = [e \in Event |-> estimate[e]]
      BY DEF Typed, ValidationTypeOK
    <3>6. \A e \in Event : estimate[e] = IF e \in AllSampled THEN history.lambda ELSE 0
      BY <3>4, <3>5 DEF Estimated
    <3> QED
      BY <3>5, <3>6 DEF FinalEstimate, AllSampled
  <2> QED
    BY <2>2, <2>3
<1>8. MeasuredExact(At(j, s))
  BY <1>3, <1>4, <1>7 DEF MeasuredExact, Measuring
<1>9. s = "refused" => ~job[j].complete \/ history.launches > 1
  <2>1. job[j].complete => history.launches >= 1
    BY <1>1 DEF JobExact, SeenExact
  <2> QED
    BY <1>1, <1>3, <1>6, <2>1
<1>10. JobExact(At(j, s), j)
  BY <1>2, <1>4, <1>5, <1>8, <1>9 DEF JobExact
<1> QED
  BY <1>3, <1>10

\* A job past the gate measures the table of the one engine.
LEMMA MeasuringNow ==
  ASSUME Typed, GateInv, NEW j \in Job, job[j].pc \in Measuring
  PROVE  /\ Option[j].integrity # "only" /\ history.launches >= 1 /\ SeenExact(job[j])
         /\ (Single => ~engine.on) /\ (Sound => estimate = FinalEstimate)
         /\ job[j].whole => truths = Event
BY JobIsExact DEF JobExact, MeasuredExact, SeenExact

\* Within the measuring steps it is enough that the rows are right.
LEMMA MeasuringExact ==
  ASSUME Typed, GateInv, NEW j \in Job, job[j].pc \in Measuring, NEW r,
         r.pc \in Measuring \cup {"failed", "ok", "precision"}, r.whole = job[j].whole,
         r.complete = job[j].complete, r.seen = job[j].seen,
         r.whole /\ Sound =>
           /\ r.pc = "areas" => r.f1 = Coverage(FinalEstimate, Event, r.partition)
           /\ r.pc = "reduction" => \A row \in r.todo : row = PlainRow(row)
           /\ r.pc = "write" => \A row \in r.todo : row = FinalRow(row)
  PROVE  JobExact(r, j)
<1>1. /\ Option[j].integrity # "only" /\ history.launches >= 1 /\ SeenExact(job[j])
      /\ (Single => ~engine.on) /\ (Sound => estimate = FinalEstimate)
  BY MeasuringNow
<1>2. r.pc \notin {"truths", "gate", "refused"} /\ job[j].pc \notin {"truths", "gate"}
  BY DEF Measuring
<1>3. SeenExact(r)
  BY <1>1, <1>2 DEF SeenExact
<1>4. MeasuredExact(r)
  BY <1>1 DEF MeasuredExact
<1> QED
  BY <1>1, <1>2, <1>3, <1>4 DEF JobExact

\* DeleteRun: the job goes on to measure.
LEMMA DeleteExact ==
  ASSUME Typed, GateInv, NEW j \in Job, DeleteRun(j)
  PROVE  \E r : job' = [job EXCEPT ![j] = r] /\ JobExact(r, j)
<1>1. /\ job[j].pc \in Measuring /\ job' = [job EXCEPT ![j] = At(j, "coverage")] /\ JobsOK
  BY DEF DeleteRun, Goes, Measuring, Typed
<1>2. /\ At(j, "coverage").pc = "coverage" /\ At(j, "coverage").whole = job[j].whole
      /\ At(j, "coverage").complete = job[j].complete /\ At(j, "coverage").seen = job[j].seen
  BY <1>1, AtKeeps
<1>3. JobExact(At(j, "coverage"), j)
  BY <1>1, <1>2, MeasuringExact DEF Measuring
<1> QED
  BY <1>1, <1>3

\* F.1 on a complete run is F.1 on the whole sample.
LEMMA CoverageExact ==
  ASSUME Typed, GateInv, NEW j \in Job, ComputeCoverage(j)
  PROVE  \E r : job' = [job EXCEPT ![j] = r] /\ JobExact(r, j)
<1> DEFINE f1 == Coverage(estimate, truths, job[j].partition)
           moved == [At(j, "areas") EXCEPT !.f1 = f1]
<1>1. /\ job' = [job EXCEPT ![j] = IF f1 = <<>> THEN At(j, "failed") ELSE moved]
      /\ job[j].pc \in Measuring /\ JobsOK
  BY DEF ComputeCoverage, Goes, Measuring, Typed
<1>2. job[j].whole /\ Sound => f1 = Coverage(FinalEstimate, Event, job[j].partition)
  BY <1>1, MeasuringNow
<1> HIDE DEF f1
<1>3. /\ moved.pc = "areas" /\ moved.whole = job[j].whole /\ moved.seen = job[j].seen
      /\ moved.complete = job[j].complete /\ moved.f1 = f1 /\ moved.partition = job[j].partition
  BY <1>1, AtKeeps DEF JobFields
<1>4. /\ At(j, "failed").pc = "failed" /\ At(j, "failed").whole = job[j].whole
      /\ At(j, "failed").complete = job[j].complete /\ At(j, "failed").seen = job[j].seen
  BY <1>1, AtKeeps
<1> HIDE DEF moved
<1>5. JobExact(moved, j)
  BY <1>1, <1>2, <1>3, MeasuringExact DEF Measuring
<1>6. JobExact(At(j, "failed"), j)
  BY <1>1, <1>4, MeasuringExact
<1> QED
  BY <1>1, <1>5, <1>6

\* F.2 and the rows: those of the whole sample, without the reduction.
LEMMA AreasExact ==
  ASSUME Typed, GateInv, NEW j \in Job, ComputeAreas(j)
  PROVE  \E r : job' = [job EXCEPT ![j] = r] /\ JobExact(r, j)
<1> DEFINE p == job[j].partition
           f1 == job[j].f1
           f2 == AreaStats(estimate, truths, p)
           rows == {MetricRow(k, p, f1, f2, NoReduction) : k \in DOMAIN f1}
           next == IF p = "V" THEN "reduction" ELSE "write"
           moved == [At(j, next) EXCEPT !.f1 = <<>>, !.todo = rows]
<1>1. /\ job' = [job EXCEPT ![j] = IF ~Computable(f1, f2) THEN At(j, "failed") ELSE moved]
      /\ job[j].pc = "areas" /\ job[j].pc \in Measuring /\ JobsOK
  BY DEF ComputeAreas, Goes, Measuring, Typed
<1>2. job[j].whole /\ Sound => /\ f1 = Coverage(FinalEstimate, Event, p)
                                /\ f2 = AreaStats(FinalEstimate, Event, p)
  <2>1. JobExact(job[j], j)
    BY JobIsExact
  <2> QED
    BY <1>1, <2>1, MeasuringNow DEF JobExact, MeasuredExact
<1> HIDE DEF f1, f2
<1>3. \A k : MetricRow(k, p, f1, f2, NoReduction).key = k
             /\ MetricRow(k, p, f1, f2, NoReduction).partition = p
  BY DEF MetricRow
<1>4. ASSUME job[j].whole, Sound, NEW row \in rows
      PROVE  IF p = "V" THEN row = PlainRow(row) ELSE row = FinalRow(row)
  <2>1. PICK k \in DOMAIN f1 : row = MetricRow(k, p, f1, f2, NoReduction)
    BY <1>4
  <2>2. row.key = k /\ row.partition = p
    BY <1>3, <2>1
  <2>3. CASE p = "V"
    BY <1>2, <1>4, <2>1, <2>2, <2>3 DEF PlainRow
  <2>4. CASE p # "V"
    BY <1>2, <1>4, <2>1, <2>2, <2>4 DEF FinalRow
  <2> QED
    BY <2>3, <2>4
<1> HIDE DEF rows, next
<1>5. /\ moved.pc = next /\ moved.whole = job[j].whole /\ moved.seen = job[j].seen
      /\ moved.complete = job[j].complete /\ moved.todo = rows
  BY <1>1, AtKeeps DEF JobFields
<1>6. /\ At(j, "failed").pc = "failed" /\ At(j, "failed").whole = job[j].whole
      /\ At(j, "failed").complete = job[j].complete /\ At(j, "failed").seen = job[j].seen
  BY <1>1, AtKeeps
<1>7. next \in {"reduction", "write"} /\ (next = "reduction" <=> p = "V")
  BY DEF next
<1> HIDE DEF moved
<1>8. JobExact(moved, j)
  BY <1>1, <1>4, <1>5, <1>7, MeasuringExact DEF Measuring
<1>9. JobExact(At(j, "failed"), j)
  BY <1>1, <1>6, MeasuringExact
<1> QED
  BY <1>1, <1>8, <1>9

\* F.4: the rows of the whole sample.
LEMMA CompareExact ==
  ASSUME Typed, RowInv, GateInv, NEW j \in Job, Compare(j)
  PROVE  \E r : job' = [job EXCEPT ![j] = r] /\ JobExact(r, j)
<1> DEFINE f4 == Reductions(estimate, truths)
           New(row) == [row EXCEPT !.reduction = IF row.key = "M90" THEN ReductionOf(f4) ELSE @]
           rows == {New(row) : row \in job[j].todo}
           moved == [At(j, "write") EXCEPT !.todo = rows]
<1>1. /\ job' = [job EXCEPT ![j] = IF ~Reducible(f4) THEN At(j, "failed") ELSE moved]
      /\ job[j].pc = "reduction" /\ job[j].pc \in Measuring /\ JobsOK
  BY DEF Compare, Goes, Measuring, Typed
<1>2. job[j].whole /\ Sound => /\ f4 = Reductions(FinalEstimate, Event)
                                /\ \A row \in job[j].todo : row = PlainRow(row)
  <2>1. JobExact(job[j], j)
    BY JobIsExact
  <2> QED
    BY <1>1, <2>1, MeasuringNow DEF JobExact, MeasuredExact
<1> HIDE DEF f4
<1>3. ASSUME job[j].whole, Sound, NEW row \in job[j].todo
      PROVE  New(row) = FinalRow(New(row))
  <2> DEFINE c == Coverage(FinalEstimate, Event, "V")
             a == AreaStats(FinalEstimate, Event, "V")
             k == row.key
  <2>1. row = MetricRow(k, "V", c, a, NoReduction) /\ f4 = Reductions(FinalEstimate, Event)
    BY <1>2, <1>3 DEF PlainRow
  <2> HIDE DEF c, a, k
  <2>2. row = [key |-> k, partition |-> "V", n |-> c[k].n, hits |-> c[k].hits,
               median |-> a[k], reduction |-> NoReduction]
    BY <2>1 DEF MetricRow
  <2>3. New(row) = [key |-> k, partition |-> "V", n |-> c[k].n, hits |-> c[k].hits,
                    median |-> a[k],
                    reduction |-> IF k = "M90" THEN ReductionOf(f4) ELSE NoReduction]
    BY <2>2
  <2> HIDE DEF New
  <2>4. New(row) = MetricRow(k, "V", c, a, ReductionOf(f4))
    BY <2>3 DEF MetricRow
  <2>5. New(row).key = k /\ New(row).partition = "V"
    BY <2>3
  <2> QED
    BY <2>1, <2>4, <2>5 DEF FinalRow, c, a
<1>4. job[j].whole /\ Sound => \A row \in rows : row = FinalRow(row)
  BY <1>3
<1> HIDE DEF rows
<1>5. /\ moved.pc = "write" /\ moved.whole = job[j].whole /\ moved.seen = job[j].seen
      /\ moved.complete = job[j].complete /\ moved.todo = rows
  BY <1>1, AtKeeps DEF JobFields
<1>6. /\ At(j, "failed").pc = "failed" /\ At(j, "failed").whole = job[j].whole
      /\ At(j, "failed").complete = job[j].complete /\ At(j, "failed").seen = job[j].seen
  BY <1>1, AtKeeps
<1> HIDE DEF moved
<1>7. JobExact(moved, j)
  BY <1>1, <1>4, <1>5, MeasuringExact DEF Measuring
<1>8. JobExact(At(j, "failed"), j)
  BY <1>1, <1>6, MeasuringExact
<1> QED
  BY <1>1, <1>7, <1>8

\* A row written is one the whole sample gives.
LEMMA WriteRowExact ==
  ASSUME Typed, GateInv, NEW j \in Job, WriteRow(j), SamePast
  PROVE  MetricsExact' /\ \E r : job' = [job EXCEPT ![j] = r] /\ JobExact(r, j)
<1>1. PICK row \in job[j].todo :
           /\ metrics' = metrics \cup {[job |-> j, whole |-> job[j].whole, row |-> row]}
           /\ job' = [job EXCEPT ![j] =
                        IF job[j].todo \ {row} = {}
                        THEN [AfterRows(j) EXCEPT !.todo = {}]
                        ELSE [job[j] EXCEPT !.todo = job[j].todo \ {row}]]
  BY WriteTakes DEF Typed
<1>2. /\ job[j].pc = "write" /\ job[j].pc \in Measuring /\ JobsOK
      /\ job[j].whole /\ Sound => \A s \in job[j].todo : s = FinalRow(s)
  <2>1. JobExact(job[j], j) /\ job[j].pc = "write"
    BY JobIsExact DEF WriteRow
  <2> QED
    BY <2>1 DEF JobExact, MeasuredExact, Measuring, Typed
<1>3. MetricsExact'
  <2>1. /\ history'.launches >= 1 /\ (Single' => ~engine'.on) /\ (Sound' => Sound)
        /\ \A s : FinalRow(s)' = FinalRow(s)
    BY <1>2, MeasuringNow, FinalStays DEF SamePast, Single, Sound, WriteRow, engineVars
  <2>2. ASSUME Sound', NEW m \in metrics', m.whole
        PROVE  m.row = FinalRow(m.row)
    <3>1. CASE m \in metrics
      BY <2>1, <2>2, <3>1 DEF GateInv, MetricsExact
    <3>2. CASE m \notin metrics
      <4>1. m = [job |-> j, whole |-> job[j].whole, row |-> row]
        BY <1>1, <3>2
      <4>2. m.row = row /\ m.whole = job[j].whole
        BY <4>1
      <4> QED
        BY <1>2, <2>1, <2>2, <4>2
    <3> QED
      BY <3>1, <3>2
  <2> QED
    BY <2>1, <2>2 DEF MetricsExact
<1>4. PICK r : /\ job' = [job EXCEPT ![j] = r]
               /\ r.whole = job[j].whole /\ r.complete = job[j].complete
               /\ r.seen = job[j].seen
               /\ \/ r.pc = "write" /\ r.todo \subseteq job[j].todo
                  \/ r.pc \in {"coverage", "ok", "precision"}
  <2>1. ASSUME NEW s \in {"coverage", "ok", "precision"}
        PROVE  /\ [At(j, s) EXCEPT !.todo = {}].pc = s
               /\ [At(j, s) EXCEPT !.todo = {}].whole = job[j].whole
               /\ [At(j, s) EXCEPT !.todo = {}].complete = job[j].complete
               /\ [At(j, s) EXCEPT !.todo = {}].seen = job[j].seen
               /\ LET q == [[At(j, s) EXCEPT !.partition = "C"] EXCEPT !.todo = {}]
                  IN  /\ q.pc = s /\ q.whole = job[j].whole
                      /\ q.complete = job[j].complete /\ q.seen = job[j].seen
    <3>1. PICK q : q = At(j, s)
      OBVIOUS
    <3>2. /\ q.pc = s /\ q.whole = job[j].whole /\ q.complete = job[j].complete
          /\ q.seen = job[j].seen /\ DOMAIN q = JobFields
      BY <1>2, <3>1, AtKeeps
    <3> QED
      BY <3>1, <3>2 DEF JobFields
  <2>2. LET q == [[At(j, "coverage") EXCEPT !.partition = "C"] EXCEPT !.todo = {}]
        IN  /\ q.pc = "coverage" /\ q.whole = job[j].whole
            /\ q.complete = job[j].complete /\ q.seen = job[j].seen
    BY <2>1
  <2>3. LET q == [job[j] EXCEPT !.todo = job[j].todo \ {row}]
        IN  /\ q.pc = "write" /\ q.whole = job[j].whole /\ q.todo \subseteq job[j].todo
            /\ q.complete = job[j].complete /\ q.seen = job[j].seen
    BY <1>2, AtKeeps DEF JobFields
  <2>4. \/ AfterRows(j) = [At(j, "coverage") EXCEPT !.partition = "C"]
        \/ AfterRows(j) = At(j, "ok") \/ AfterRows(j) = At(j, "precision")
    BY DEF AfterRows
  <2> QED
    BY <1>1, <2>1, <2>2, <2>3, <2>4
<1>5. JobExact(r, j)
  BY <1>2, <1>4, MeasuringExact DEF Measuring
<1> QED
  BY <1>3, <1>4, <1>5

\* F.5's own gate.
LEMMA K7Exact ==
  ASSUME Typed, RowInv, GateInv, NEW j \in Job, CountK7Truths(j) \/ checkIntegrityPrecondition(j)
  PROVE  \E r : job' = [job EXCEPT ![j] = r] /\ JobExact(r, j)
<1> DEFINE all == truths = Event
           found == StreamFindings \subseteq findings
           after == {"k7 status", "precision", "refused"}
<1>1. /\ JobExact(job[j], j) /\ JobsOK /\ Option[j].integrity = "only"
      /\ job[j].pc \in {"k7 truths", "k7 status"}
  BY JobIsExact DEF CountK7Truths, checkIntegrityPrecondition, Goes, Typed, RowInv, PlaceOK
<1>2. ASSUME NEW r, r.pc \in after,
             r.whole => all,
             r.complete = job[j].complete, r.seen = job[j].seen,
             r.pc = "precision" /\ r.whole => found
      PROVE  JobExact(r, j)
  <2>1. SeenExact(r)
    BY <1>1, <1>2 DEF JobExact, SeenExact
  <2>2. MeasuredExact(r) /\ r.pc \notin Gated \cup Measuring
    BY <1>2 DEF MeasuredExact, Measuring, Gated
  <2>3. CountedExact(r)
    BY <1>2 DEF CountedExact, K7
  <2> QED
    BY <1>1, <2>1, <2>2, <2>3 DEF JobExact
<1>3. job[j].whole => all
  BY <1>1 DEF JobExact, SeenExact
<1>4. PassesK7(run) /\ Finished => found
  BY DEF PassesK7, Finished, GateInv, RunExact
<1>5. "k7 status" \in after /\ "precision" \in after /\ "refused" \in after
      /\ "k7 status" # "precision"
  OBVIOUS
<1> HIDE DEF all, found, after
<1>6. ASSUME job' = [job EXCEPT ![j] = At(j, "refused")]
      PROVE  \E r : job' = [job EXCEPT ![j] = r] /\ JobExact(r, j)
  <2>1. /\ At(j, "refused").pc = "refused" /\ At(j, "refused").whole = job[j].whole
        /\ At(j, "refused").complete = job[j].complete /\ At(j, "refused").seen = job[j].seen
    BY <1>1, AtKeeps
  <2>2. JobExact(At(j, "refused"), j)
    BY <1>2, <1>3, <1>5, <2>1
  <2> QED
    BY <1>6, <2>2
<1>7. CASE CountK7Truths(j)
  <2> DEFINE next == [At(j, "k7 status") EXCEPT !.whole = truths = Event]
  <2>1. job' = [job EXCEPT ![j] = IF truths = {} THEN At(j, "refused") ELSE next]
    BY <1>7 DEF CountK7Truths, Goes
  <2>2. /\ next.pc = "k7 status" /\ next.whole = all
        /\ next.complete = job[j].complete /\ next.seen = job[j].seen
    <3>1. PICK q : q = At(j, "k7 status")
      OBVIOUS
    <3>2. /\ q.pc = "k7 status" /\ q.complete = job[j].complete /\ q.seen = job[j].seen
          /\ DOMAIN q = JobFields
      BY <1>1, <3>1, AtKeeps
    <3> QED
      BY <3>1, <3>2 DEF JobFields, all
  <2> HIDE DEF next
  <2>3. JobExact(next, j)
    BY <1>2, <1>5, <2>2
  <2> QED
    BY <1>6, <2>1, <2>3
<1>8. CASE checkIntegrityPrecondition(j)
  <2> DEFINE next == [At(j, "precision") EXCEPT !.whole = @ /\ Finished]
  <2>1. job' = [job EXCEPT ![j] = IF PassesK7(run) THEN next ELSE At(j, "refused")]
    BY <1>8 DEF checkIntegrityPrecondition, Goes
  <2>2. /\ next.pc = "precision" /\ next.whole = (job[j].whole /\ Finished)
        /\ next.complete = job[j].complete /\ next.seen = job[j].seen
    <3>1. PICK q : q = At(j, "precision")
      OBVIOUS
    <3>2. /\ q.pc = "precision" /\ q.complete = job[j].complete /\ q.seen = job[j].seen
          /\ q.whole = job[j].whole /\ DOMAIN q = JobFields
      BY <1>1, <3>1, AtKeeps
    <3> QED
      BY <3>1, <3>2 DEF JobFields
  <2> HIDE DEF next
  <2>3. PassesK7(run) => JobExact(next, j)
    BY <1>2, <1>3, <1>4, <1>5, <2>2
  <2> QED
    BY <1>6, <2>1, <2>3
<1> QED
  BY <1>7, <1>8

\* What is counted for a stream rule is what there is to count.
LEMMA StreamCounts ==
  ASSUME Typed, StreamFindings \subseteq findings, truths = Event, NEW i \in StreamRules
  PROVE  /\ Precision(findings, truths)[i] = Precision(Finding, Event)[i]
         /\ Recall(findings, truths)[i] = Recall(Finding, Event)[i]
<1>1. i \in Rule /\ findings \subseteq Finding
  BY DEF StreamRules, Typed, ValidationTypeOK
<1>2. Canonical(findings, i) = Canonical(Finding, i)
  BY <1>1 DEF Canonical, StreamRules, StreamFindings
<1> QED
  BY <1>1, <1>2 DEF Precision, Recall

\* Precision and recall of a run with every finding and every truth.
LEMMA CountExact ==
  ASSUME Typed, GateInv, NEW j \in Job, PrecisionByRule(j) \/ RecallByRule(j)
  PROVE  \E r : job' = [job EXCEPT ![j] = r] /\ JobExact(r, j)
<1>1. /\ JobExact(job[j], j) /\ JobsOK /\ job[j].pc \in K7
      /\ job[j].pc \notin {"truths", "gate"}
  BY JobIsExact DEF PrecisionByRule, RecallByRule, Goes, Typed, K7
<1>2. ASSUME NEW r, r.pc \in {"recall", "upsert"}, r.whole = job[j].whole,
             r.complete = job[j].complete, r.seen = job[j].seen,
             Option[j].integrity = "only" /\ r.whole =>
               /\ \A i \in StreamRules : r.f1[i] = Precision(Finding, Event)[i]
               /\ r.pc = "upsert" =>
                    \A i \in StreamRules : r.f2[i] = Recall(Finding, Event)[i]
      PROVE  JobExact(r, j)
  <2>1. SeenExact(r)
    BY <1>1, <1>2 DEF JobExact, SeenExact
  <2>2. MeasuredExact(r) /\ r.pc \notin Gated \cup Measuring
    BY <1>2 DEF MeasuredExact, Measuring, Gated
  <2>3. Option[j].integrity = "only" => CountedExact(r)
    BY <1>1, <1>2 DEF JobExact, CountedExact, K7
  <2> QED
    BY <1>2, <2>1, <2>2, <2>3 DEF JobExact
<1>3. Option[j].integrity = "only" /\ job[j].whole =>
        StreamFindings \subseteq findings /\ truths = Event
  BY <1>1 DEF JobExact, SeenExact, CountedExact
<1>4. CASE PrecisionByRule(j)
  <2> DEFINE f1 == Precision(findings, truths)
             r == [At(j, "recall") EXCEPT !.f1 = f1]
  <2>1. job' = [job EXCEPT ![j] = r]
    BY <1>4 DEF PrecisionByRule, Goes
  <2>2. Option[j].integrity = "only" /\ job[j].whole =>
          \A i \in StreamRules : f1[i] = Precision(Finding, Event)[i]
    BY <1>3, StreamCounts
  <2> HIDE DEF f1
  <2>3. /\ r.pc = "recall" /\ r.whole = job[j].whole /\ r.complete = job[j].complete
        /\ r.seen = job[j].seen /\ r.f1 = f1
    <3>1. PICK q : q = At(j, "recall")
      OBVIOUS
    <3>2. /\ q.pc = "recall" /\ q.complete = job[j].complete /\ q.seen = job[j].seen
          /\ q.whole = job[j].whole /\ DOMAIN q = JobFields
      BY <1>1, <3>1, AtKeeps
    <3> QED
      BY <3>1, <3>2 DEF JobFields
  <2> HIDE DEF r
  <2>4. JobExact(r, j)
    BY <1>2, <2>2, <2>3
  <2> QED
    BY <2>1, <2>4
<1>5. CASE RecallByRule(j)
  <2> DEFINE f2 == Recall(findings, truths)
             r == [At(j, "upsert") EXCEPT !.f2 = f2, !.todo = Rule]
  <2>1. job' = [job EXCEPT ![j] = r] /\ job[j].pc = "recall"
    BY <1>5 DEF RecallByRule, Goes
  <2>2. Option[j].integrity = "only" /\ job[j].whole =>
          \A i \in StreamRules : f2[i] = Recall(Finding, Event)[i]
    BY <1>3, StreamCounts
  <2> HIDE DEF f2
  <2>3. /\ r.pc = "upsert" /\ r.whole = job[j].whole /\ r.complete = job[j].complete
        /\ r.seen = job[j].seen /\ r.f2 = f2 /\ r.f1 = job[j].f1
    <3>1. PICK q : q = At(j, "upsert")
      OBVIOUS
    <3>2. /\ q.pc = "upsert" /\ q.complete = job[j].complete /\ q.seen = job[j].seen
          /\ q.whole = job[j].whole /\ q.f1 = job[j].f1 /\ DOMAIN q = JobFields
      BY <1>1, <3>1, AtKeeps
    <3> QED
      BY <3>1, <3>2 DEF JobFields
  <2>4. Option[j].integrity = "only" /\ job[j].whole =>
          \A i \in StreamRules : job[j].f1[i] = Precision(Finding, Event)[i]
    BY <1>1, <2>1 DEF JobExact, CountedExact
  <2> HIDE DEF r
  <2>5. JobExact(r, j)
    BY <1>2, <2>2, <2>3, <2>4
  <2> QED
    BY <2>1, <2>5
<1> QED
  BY <1>4, <1>5

\* The integrity row written is the one the whole run gives.
LEMMA UpsertExact ==
  ASSUME Typed, GateInv, NEW j \in Job, UpsertRule(j)
  PROVE  MeasuresExact' /\ \E r : job' = [job EXCEPT ![j] = r] /\ JobExact(r, j)
<1>1. JobExact(job[j], j) /\ JobsOK /\ job[j].pc = "upsert"
  BY JobIsExact DEF UpsertRule, Typed
<1>2. PICK i \in job[j].todo \cap Rule :
           /\ measures' = [s \in DOMAIN measures \cup {i} |->
                 IF s # i THEN measures[s] ELSE
                 [gated |-> Option[j].integrity = "only" /\ job[j].whole,
                  row |-> IntegrityRow(i, job[j].f1, job[j].f2, MinFindings)]]
           /\ job' = [job EXCEPT ![j] =
                        IF job[j].todo \ {i} = {}
                        THEN [At(j, "ok") EXCEPT !.f1 = <<>>, !.f2 = <<>>, !.todo = {}]
                        ELSE [job[j] EXCEPT !.todo = job[j].todo \ {i}]]
  BY <1>1, UpsertTakes
<1>3. MeasuresExact'
  <2>1. ASSUME NEW s \in StreamRules \cap DOMAIN measures', measures'[s].gated
        PROVE  measures'[s].row = FinalMeasure(s)
    <3>1. CASE s # i
      <4>1. s \in DOMAIN measures /\ measures'[s] = measures[s]
        BY <1>2, <2>1, <3>1
      <4> QED
        BY <2>1, <4>1 DEF GateInv, MeasuresExact
    <3>2. CASE s = i
      <4>1. /\ measures'[s].row = IntegrityRow(s, job[j].f1, job[j].f2, MinFindings)
            /\ Option[j].integrity = "only" /\ job[j].whole
        BY <1>2, <2>1, <3>2
      <4>2. /\ job[j].f1[s] = Precision(Finding, Event)[s]
            /\ job[j].f2[s] = Recall(Finding, Event)[s]
        BY <1>1, <2>1, <4>1 DEF JobExact, CountedExact
      <4> QED
        BY <4>1, <4>2 DEF FinalMeasure, IntegrityRow
    <3> QED
      BY <3>1, <3>2
  <2> QED
    BY <2>1 DEF MeasuresExact
<1>4. PICK r : /\ job' = [job EXCEPT ![j] = r]
               /\ r.whole = job[j].whole /\ r.complete = job[j].complete
               /\ r.seen = job[j].seen
               /\ \/ r.pc = "upsert" /\ r.f1 = job[j].f1 /\ r.f2 = job[j].f2
                  \/ r.pc = "ok"
  <2>1. LET q == [At(j, "ok") EXCEPT !.f1 = <<>>, !.f2 = <<>>, !.todo = {}]
        IN  /\ q.pc = "ok" /\ q.whole = job[j].whole
            /\ q.complete = job[j].complete /\ q.seen = job[j].seen
    <3>1. PICK q : q = At(j, "ok")
      OBVIOUS
    <3>2. /\ q.pc = "ok" /\ q.whole = job[j].whole /\ q.complete = job[j].complete
          /\ q.seen = job[j].seen /\ DOMAIN q = JobFields
      BY <1>1, <3>1, AtKeeps
    <3> QED
      BY <3>1, <3>2 DEF JobFields
  <2>2. LET q == [job[j] EXCEPT !.todo = job[j].todo \ {i}]
        IN  /\ q.pc = "upsert" /\ q.whole = job[j].whole
            /\ q.complete = job[j].complete /\ q.seen = job[j].seen
            /\ q.f1 = job[j].f1 /\ q.f2 = job[j].f2
    BY <1>1, AtKeeps DEF JobFields
  <2> QED
    BY <1>2, <2>1, <2>2
<1>5. JobExact(r, j)
  <2>1. SeenExact(r)
    BY <1>1, <1>4 DEF JobExact, SeenExact
  <2>2. MeasuredExact(r) /\ r.pc \notin Gated \cup Measuring /\ r.pc # "refused"
    BY <1>4 DEF MeasuredExact, Measuring, Gated
  <2>3. Option[j].integrity = "only" => CountedExact(r)
    BY <1>1, <1>4 DEF JobExact, CountedExact, K7
  <2> QED
    BY <2>1, <2>2, <2>3 DEF JobExact
<1> QED
  BY <1>3, <1>4, <1>5

\* All the steps of a job.
LEMMA MeasureGate ==
  ASSUME Typed, RowInv, GateInv, Measure
  PROVE  GateInv'
<1>1. PICK j \in Job : MeasureStep(j)
  BY MeasureMoves
<1>2. SamePast /\ UNCHANGED <<tables, engineVars>> /\ HistoryOK'
  BY MeasurePast, MeasureMoves, MeasureTyped DEF Typed
<1>3. Forward /\ EngineExact' /\ RunExact'
  BY <1>2, StillForward DEF GateInv
<1>4. \E r : job' = [job EXCEPT ![j] = r] /\ JobExact(r, j)
  BY <1>1, <1>2, PlainGate, ReadExact, DecideExact, DeleteExact, CoverageExact, AreasExact,
     CompareExact, WriteRowExact, K7Exact, CountExact, UpsertExact DEF MeasureStep
<1>5. \A i \in Job : \A s : s = job'[i] => JobExact(s, i)'
  BY <1>2, <1>3, <1>4, GateJobMoves
<1>6. MetricsExact'
  <2>1. CASE WriteRow(j)
    BY <1>2, <2>1, WriteRowExact
  <2>2. CASE ~WriteRow(j)
    <3>1. metrics' = metrics \/ metrics' = {}
      BY <1>1, <2>2
         DEF MeasureStep, Start, Load, Calibrated, ReadStatus, CountRecords, CountTruths,
             CheckPreconditions, DeleteRun, ComputeCoverage, ComputeAreas, Compare,
             CountK7Truths, checkIntegrityPrecondition, PrecisionByRule, RecallByRule,
             UpsertRule, JobFails, Still, results
    <3> QED
      BY <1>3, <3>1, MetricsStay DEF GateInv, MetricsExact
  <2> QED
    BY <2>1, <2>2
<1>7. MeasuresExact'
  <2>1. CASE UpsertRule(j)
    BY <2>1, UpsertExact
  <2>2. CASE ~UpsertRule(j)
    <3>1. measures' = measures
      BY <1>1, <2>2
         DEF MeasureStep, Start, Load, Calibrated, ReadStatus, CountRecords, CountTruths,
             CheckPreconditions, DeleteRun, ComputeCoverage, ComputeAreas, Compare, WriteRow,
             CountK7Truths, checkIntegrityPrecondition, PrecisionByRule, RecallByRule,
             JobFails, Still, results
    <3> QED
      BY <3>1 DEF GateInv, MeasuresExact
  <2> QED
    BY <2>1, <2>2
<1> QED
  BY <1>3, <1>5, <1>6, <1>7 DEF GateInv

\* Every step of the whole keeps the gate exact.
LEMMA GateStep == Typed /\ RowInv /\ GateInv /\ [Next]_vars => GateInv'
<1> SUFFICES ASSUME Typed, RowInv, GateInv, [Next]_vars PROVE GateInv'
  OBVIOUS
<1>1. CASE ~Measure
  <2>1. UNCHANGED <<job, metrics, measures>>
    BY <1>1, WriteMoves
       DEF Next, Search, Ask, vars, validationVars, results
  <2>2. Forward /\ EngineExact' /\ RunExact'
    <3>1. CASE Write
      BY <3>1, WriteForward, WriteExact, RunStep DEF GateInv
    <3>2. CASE ~Write
      <4>1. UNCHANGED <<tables, engineVars>> /\ SamePast
        BY <1>1, <3>2
           DEF Next, Search, Ask, GatewayStep, Arrive, Count, Collect, Read, QueryFails,
               ClientLeaves, Record, Reply, Shutdown, Stop, vars, validationVars, SamePast
      <4> QED
        BY <4>1, StillForward DEF GateInv
    <3> QED
      BY <3>1, <3>2
  <2>3. HistoryOK /\ HistoryOK'
    BY TypedStep DEF Typed
  <2>4. \A i \in Job : \A s : s = job'[i] => JobExact(s, i)'
    BY <2>1, <2>2, <2>3, JobStays DEF GateInv
  <2>5. MetricsExact' /\ MeasuresExact'
    BY <2>1, <2>2, MetricsStay DEF GateInv, MeasuresExact
  <2> QED
    BY <2>2, <2>4, <2>5 DEF GateInv
<1> QED
  BY <1>1, MeasureGate

(***************************************************************************)
(* The gate, for every table, every number of jobs and every fault. It     *)
(* refuses no run that was complete when first read and left so, where no  *)
(* write of the engine reported an error. A metric row of a job that saw   *)
(* every truth row, with one engine process that ran to the end, is the    *)
(* one that all events with a mass give, even when buffers were lost,      *)
(* unless so many writes were misjudged as a lost buffer has events, less  *)
(* one. An integrity row behind F.5's own gate counts every finding of a   *)
(* stream rule (CheckPreconditions, checkIntegrityPrecondition, Compute).  *)
(***************************************************************************)
THEOREM GateExact == Spec => []GateIsExact
<1>1. GateInv => GateIsExact
  BY DEF GateInv, JobExact, GateIsExact, Single, Sound, MetricsExact, MeasuresExact
<1> QED
  BY <1>1, GateFromTheStart, GateStep, RowsFromTheStart, RowStep, TypedInitially, TypedStep,
     PTL DEF Spec

=============================================================================
