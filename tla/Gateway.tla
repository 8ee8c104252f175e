------------------------------ MODULE Gateway ------------------------------
(***************************************************************************)
(* The gateway (cmd/gateway, internal/gateway): one query layer behind a   *)
(* REST and a gRPC surface, an audit row for every request, and a shutdown *)
(* that waits for what is in flight.  It reads the tables of Validation    *)
(* while their writers go on.  A request is a record of what each filter   *)
(* is like; the texts themselves are left out.                             *)
(***************************************************************************)
EXTENDS Validation, Sequences

CONSTANTS
    Request,        \* the requests considered
    MaxGeometries,  \* query.MaxGeometries
    KAnonymity,     \* query.KAnonymity
    CellOf,         \* [Recorded -> cell]
    SubscriberOf,   \* [Recorded -> pseudo_msisdn]
    Cells           \* cells of the inventory

\* run: "good" "missing" "malformed" "nil";  bbox: "none" "good" "malformed"
\* "invalid";  window: "none" "good" "malformed" "inverted";  confidence:
\* "none" "good" "malformed" "bad";  method: "none" "good" "lower" "bad";
\* rule: "none" "good" "malformed" "bad";  subscriber: a subscriber or "missing"
Maps == {"cells", "estimates", "findings", "activity"}
Lists == {"runs", "subscribers", "metrics", "integrity metrics"}

ASSUME GatewayAssumption ==
    /\ MaxGeometries \in Nat \ {0} /\ KAnonymity \in Nat \ {0}
    /\ IsFiniteSet(Cells)
    /\ \A q \in Request : /\ q.surface \in {"rest", "grpc"}
                          /\ q.run \in {"good", "missing", "malformed", "nil"}
                          /\ q.bbox \in {"none", "good", "malformed", "invalid"}
                          /\ q.window \in {"none", "good", "malformed", "inverted"}
                          /\ q.confidence \in {"none", "good", "malformed", "bad"}
                          /\ q.method \in {"none", "good", "lower", "bad"}
                          /\ q.rule \in {"none", "good", "malformed", "bad"}
                          /\ q.endpoint \in Maps \cup Lists
                          /\ q.surface = "grpc" =>
                               /\ q.endpoint # "subscribers"
                               /\ "malformed" \notin {q.bbox, q.confidence, q.rule}

VARIABLES
    server,     \* "up" | "draining" | "down"
    request,    \* the request in flight
    answer,     \* the last answer
    counters    \* arrived, answered, audit rows written and dropped, and the
                \* history of audit writes refused and handlers cut off
gatewayVars == <<server, request, answer, counters>>

NoRequest == [step |-> "none"]

GatewayInit ==
    /\ server = "up"
    /\ request = NoRequest
    /\ answer = [status |-> "none"]
    /\ counters = [arrived |-> 0, answered |-> 0, written |-> 0, dropped |-> 0,
                   refused |-> 0, cut |-> 0]

-----------------------------------------------------------------------------
(* What a handler and the filter's Validate refuse, first refusal first.   *)

Refusal(condition, class) == IF condition THEN <<class>> ELSE <<>>

\* REST: the texts of the query string.
runIDParam(q) == Refusal(q.run = "missing", "sentinel")
                 \o Refusal(q.run = "malformed", "filter")
bboxParam(q) == Refusal(q.bbox \in {"malformed", "invalid"}, "filter")
windowParam(q) == Refusal(q.window = "malformed", "filter")
floatParam(q) == Refusal(q.confidence = "malformed", "filter")

\* gRPC: only the run and the times come as text.
parseRunID(q) == runIDParam(q)
toWindow(q) == windowParam(q)

\* The query layer's own checks.
RunGiven(q) == Refusal(q.run = "nil", "sentinel")
BBoxValidate(q) == Refusal(q.bbox = "invalid", "filter")
Resolve(q) == Refusal(q.window = "inverted", "filter")
CellsValidate(q) == RunGiven(q) \o BBoxValidate(q)

EstimatesValidate(q) ==
    RunGiven(q)
    \o Refusal(q.subscriber = "missing", "sentinel")
    \o Refusal(q.method = "bad" \/ (q.surface = "grpc" /\ q.method = "lower"), "filter")
    \o Refusal(q.confidence = "bad", "filter")
    \o BBoxValidate(q)

\* A rule_id that is no number reads as 0, no filter, on the REST surface.
FindingsValidate(q) == RunGiven(q) \o Refusal(q.rule = "bad", "filter") \o BBoxValidate(q)

\* The handlers, up to their first query.
handleCells(q) == runIDParam(q) \o bboxParam(q) \o CellsValidate(q)
handleEstimates(q) == runIDParam(q) \o windowParam(q) \o bboxParam(q) \o floatParam(q)
                      \o EstimatesValidate(q) \o Resolve(q)
handleFindings(q) == runIDParam(q) \o windowParam(q) \o bboxParam(q)
                     \o FindingsValidate(q) \o Resolve(q)
handleCellActivity(q) == runIDParam(q) \o bboxParam(q) \o CellsValidate(q)
handleMetrics(q) == runIDParam(q) \o RunGiven(q)
handleSubscribers(q) == runIDParam(q) \o RunGiven(q)

GetCells(q) == parseRunID(q) \o CellsValidate(q)
GetEstimates(q) == parseRunID(q) \o toWindow(q) \o EstimatesValidate(q) \o Resolve(q)
GetFindings(q) == parseRunID(q) \o toWindow(q) \o FindingsValidate(q) \o Resolve(q)
GetCellActivity(q) == parseRunID(q) \o CellsValidate(q)
GetMetrics(q) == parseRunID(q) \o RunGiven(q)

Routes(q) ==
    CASE q.endpoint = "runs" -> <<>>
      [] q.endpoint = "subscribers" -> handleSubscribers(q)
      [] q.endpoint = "cells" -> handleCells(q)
      [] q.endpoint = "estimates" -> handleEstimates(q)
      [] q.endpoint = "findings" -> handleFindings(q)
      [] q.endpoint = "activity" -> handleCellActivity(q)
      [] q.endpoint \in {"metrics", "integrity metrics"} -> handleMetrics(q)

Methods(q) ==
    CASE q.endpoint = "runs" -> <<>>
      [] q.endpoint = "cells" -> GetCells(q)
      [] q.endpoint = "estimates" -> GetEstimates(q)
      [] q.endpoint = "findings" -> GetFindings(q)
      [] q.endpoint = "activity" -> GetCellActivity(q)
      [] q.endpoint \in {"metrics", "integrity metrics"} -> GetMetrics(q)

Refusals(q) == IF q.surface = "rest" THEN Routes(q) ELSE Methods(q)

(***************************************************************************)
(* The rows a filter selects.  estimates and findings are joined with      *)
(* hts_records; an event has one estimate per key, one with a method.      *)
(***************************************************************************)
EstimateRows(q) ==
    {<<e, k>> : e \in {x \in Estimated(estimate) \cap records :
                         SubscriberOf[x] = q.subscriber},
                k \in IF q.method = "none" THEN Key ELSE {"M90"}}

\* The REST surface asks for canonical findings, a gRPC client must ask itself.
FindingRows(q) ==
    {f \in findings : f.event \in records /\ (q.surface = "rest" => ~f.suppressed)}

\* Subscribers with an estimate.
SubscriberRows ==
    {s \in {SubscriberOf[e] : e \in Recorded} :
       \E e \in Estimated(estimate) \cap records : SubscriberOf[e] = s}

\* A cell with fewer than KAnonymity subscribers is left out.
SubscribersOf(c) == {SubscriberOf[e] : e \in {x \in records : CellOf[x] = c}}
KeptCells == {c \in Cells : Cardinality(SubscribersOf(c)) >= KAnonymity}

\* The runs, newest first; there is one.
RunRows == {run}

Rows(q) ==
    CASE q.endpoint = "estimates" -> EstimateRows(q)
      [] q.endpoint = "findings" -> FindingRows(q)
      [] q.endpoint = "cells" -> Cells
      [] q.endpoint = "activity" -> KeptCells
      [] q.endpoint = "metrics" -> metrics
      [] q.endpoint = "integrity metrics" -> DOMAIN measures
      [] q.endpoint = "subscribers" -> SubscriberRows
      [] q.endpoint = "runs" -> RunRows

-----------------------------------------------------------------------------
(* A request, from the handler's first line to its answer.                 *)

\* Where a request goes once its filters are accepted.
FirstQuery(q) == IF q.endpoint \in Maps \ {"activity"} THEN "count" ELSE "read"

InFlight(q, step, class) ==
    [q |-> q, step |-> step, class |-> class, count |-> 0, features |-> 0,
     moved |-> FALSE, gone |-> FALSE, failed |-> FALSE]

Arrive(q) ==
    /\ server = "up" /\ request.step = "none" /\ counters.arrived < budget.requests
    /\ counters' = [counters EXCEPT !.arrived = @ + 1]
    /\ request' = IF Refusals(q) # <<>> THEN InFlight(q, "audit", Head(Refusals(q)))
                                        ELSE InFlight(q, FirstQuery(q), "ok")
    /\ UNCHANGED <<server, answer, budget>>

\* The first of a map's two statements, and ADR-13's limit on what it counts.
checkLimit(n) == IF n > MaxGeometries THEN "too many" ELSE "ok"

Count ==
    /\ request.step = "count" /\ ~request.gone
    /\ LET n == Cardinality(Rows(request.q))
       IN  request' = [request EXCEPT !.count = n, !.class = checkLimit(n),
                          !.step = IF checkLimit(n) = "ok" THEN "collect" ELSE "audit"]
    /\ UNCHANGED <<server, answer, counters, budget>>

\* The second statement reads the table as it is by then.
Collect ==
    /\ request.step = "collect" /\ ~request.gone
    /\ request' = [request EXCEPT !.features = Cardinality(Rows(request.q)),
                                  !.step = "audit"]
    /\ UNCHANGED <<server, answer, counters, budget>>

\* The lists, and the aggregate: one statement for the rows and their number.
Read ==
    /\ request.step = "read" /\ ~request.gone
    /\ LET n == Cardinality(Rows(request.q))
       IN  request' = [request EXCEPT !.count = n, !.features = n, !.step = "audit",
                          !.class = IF request.q.endpoint = "activity"
                                    THEN checkLimit(n) ELSE "ok"]
    /\ UNCHANGED <<server, answer, counters, budget>>

\* The statement fails, or runs into its limit of 15 seconds.
QueryFails ==
    /\ request.step \in {"count", "collect", "read"}
    /\ request.gone \/ budget.faults > 0
    /\ request' = [request EXCEPT !.class = "internal", !.step = "audit", !.failed = TRUE]
    /\ budget' = [budget EXCEPT !.faults = IF request.gone THEN @ ELSE @ - 1]
    /\ UNCHANGED <<server, answer, counters>>

\* The client closes the connection: the request's context ends.
ClientLeaves ==
    /\ request.step # "none" /\ ~request.gone /\ budget.leaves
    /\ request' = [request EXCEPT !.gone = TRUE]
    /\ UNCHANGED <<server, answer, counters, budget>>

(***************************************************************************)
(* Record never fails the request: a row that cannot be written is counted *)
(* instead.  It uses a context that outlives the client's.                 *)
(***************************************************************************)
RecordAttached ==
    /\ request.step = "audit"
    /\ request' = [request EXCEPT !.step = "answer"]
    /\ counters' = IF request.gone THEN [counters EXCEPT !.dropped = @ + 1]
                                   ELSE [counters EXCEPT !.written = @ + 1]
    /\ UNCHANGED <<server, answer, budget>>
Record ==
    /\ request.step = "audit"
    /\ request' = [request EXCEPT !.step = "answer"]
    /\ \/ counters' = [counters EXCEPT !.written = @ + 1] /\ UNCHANGED budget
       \/ /\ budget.faults > 0
          /\ counters' = [counters EXCEPT !.dropped = @ + 1, !.refused = @ + 1]
          /\ budget' = [budget EXCEPT !.faults = @ - 1]
    /\ UNCHANGED <<server, answer>>

IsBadRequest(class) == class \in {"sentinel", "too many"}

\* isValidationError finds the filters' errors by the prefix of the message.
StatusByClass(class) == IF class = "ok" THEN "200"
                        ELSE IF IsBadRequest(class) THEN "400" ELSE "500"
RestStatus(class) == IF class = "ok" THEN "200"
                     ELSE IF IsBadRequest(class) \/ class = "filter" THEN "400" ELSE "500"

\* The gRPC surface asks IsBadRequest alone.
GrpcCode(class) == IF class = "ok" THEN "OK"
                   ELSE IF IsBadRequest(class) THEN "InvalidArgument" ELSE "Internal"

Reply ==
    /\ request.step = "answer"
    /\ answer' = [q |-> request.q, count |-> request.count,
                  features |-> request.features, moved |-> request.moved,
                  failed |-> request.failed,
                  status |-> IF request.q.surface = "rest" THEN RestStatus(request.class)
                                                           ELSE GrpcCode(request.class)]
    /\ request' = NoRequest
    /\ counters' = [counters EXCEPT !.answered = @ + 1]
    /\ UNCHANGED <<server, budget>>

\* SIGTERM, or one of the listeners ends: no new request is taken.
Shutdown ==
    /\ server = "up" /\ budget.requests > 0
    /\ server' = "draining"
    /\ UNCHANGED <<request, answer, counters, budget>>

\* httpSrv.Shutdown waits 10 seconds, GracefulStop as long as it takes.
Stop ==
    /\ server = "draining"
    /\ request.step # "none" => request.q.surface = "rest"
    /\ server' = "down"
    /\ request' = NoRequest
    /\ counters' = [counters EXCEPT !.cut = IF request.step = "none" THEN @ ELSE @ + 1]
    /\ UNCHANGED <<answer, budget>>

GatewayStep ==
    \/ \E q \in Request : Arrive(q)
    \/ Count \/ Collect \/ Read \/ QueryFails \/ ClientLeaves
    \/ Record \/ Reply \/ Shutdown \/ Stop

\* Beside a step of a writer: does it change what the request counted?
Noticed ==
    IF request.step = "collect" /\ \E q \in {request.q} : Rows(q) # Rows(q)'
    THEN request' = [request EXCEPT !.moved = TRUE]
    ELSE UNCHANGED request

-----------------------------------------------------------------------------
GatewayTypeOK ==
    /\ server \in {"up", "draining", "down"}
    /\ request.step \in {"none", "count", "collect", "read", "audit", "answer"}
    /\ \A c \in DOMAIN counters : counters[c] \in Nat

\* The client's own mistakes, per endpoint.
Malformed(q) ==
    \/ q.endpoint # "runs" /\ q.run # "good"
    \/ q.endpoint \in Maps /\ q.bbox \in {"malformed", "invalid"}
    \/ q.endpoint \in {"estimates", "findings"} /\ q.window \in {"malformed", "inverted"}
    \/ q.endpoint = "findings" /\ q.rule = "bad"
    \/ /\ q.endpoint = "estimates"
       /\ \/ q.subscriber = "missing"
          \/ q.method \in {"lower", "bad"}
          \/ q.confidence \in {"malformed", "bad"}

(***************************************************************************)
(* Every request leaves exactly one trace: an audit row or, only when the  *)
(* database refused it, a count of one lost.  The trace precedes the       *)
(* answer, a client that leaves does not cost it, and between requests the *)
(* books balance but for the handlers a shutdown cut off (audit.Record,    *)
(* fail and the handlers of both surfaces).                                *)
(***************************************************************************)
AnswersAccounted ==
    /\ counters.answered <= counters.written + counters.dropped
    /\ counters.written + counters.dropped <= counters.arrived
    /\ counters.dropped = counters.refused
    /\ request.step = "none" => counters.arrived = counters.answered + counters.cut

(***************************************************************************)
(* Nobody is blamed for the other's fault: a REST answer is 500 only when  *)
(* a statement failed and 400 only when the request was malformed or asked *)
(* for too much; a gRPC answer is InvalidArgument only for the latter.  A  *)
(* map that is answered holds what its header counts and no more than the  *)
(* limit, unless a writer moved the table between the two statements       *)
(* (fail, isValidationError, IsBadRequest, checkLimit, count, collect).    *)
(***************************************************************************)
AnswersAreRight ==
    answer.status # "none" =>
        LET asked == Malformed(answer.q) \/ answer.count > MaxGeometries
        IN  /\ answer.status = "500" => answer.failed
            /\ answer.status \in {"400", "InvalidArgument"} => asked
            /\ answer.status \in {"200", "OK"} =>
                 /\ answer.q.endpoint \in Maps =>
                      answer.moved \/ (answer.features = answer.count
                                       /\ answer.features <= MaxGeometries)
                 /\ Malformed(answer.q) => /\ answer.q.surface = "rest"
                                           /\ answer.q.method = "lower"
=============================================================================
