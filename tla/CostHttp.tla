------------------------------ MODULE CostHttp ------------------------------
(***************************************************************************)
(* Concurrent requests to /cost (pkg/metrics/cost/cost_http.go).  A        *)
(* request fetches ten metric lists one after the other and fills in one   *)
(* PodMetrics per pod (DescribePodCostDetail) or one for all of them       *)
(* (DescribeCostSummary).  The total that the costs are divided by is kept *)
(* in CostTotal, a package variable that all requests share: a detail      *)
(* request stores its own total there, a summary only reads it.            *)
(*                                                                         *)
(* net/http serves each request in a goroutine of its own and nothing      *)
(* synchronizes them, so the accesses race.  CostTotal is a struct of      *)
(* several words; the two that the ratio depends on, the value and the     *)
(* scale of its Quantity, are written and read one after the other.        *)
(***************************************************************************)
EXTENDS Naturals, Sequences, FiniteSets

CONSTANTS
  Requests,  \* the requests that may be in progress at the same time
  Pods,      \* the pods the metric lists may have
  Unset      \* a word of CostTotal that was never stored

ASSUME CostHttpAssumption ==
  /\ Unset \notin Requests
  /\ Pods # {}

VARIABLES
  costTotal,  \* word |-> the request that stored it last, or Unset
  req         \* the state of each request

httpVars == <<costTotal, req>>

\* Mutant: the total is asked for after the costs.
MetricList_TotalLast ==
  <<"cpu_request", "cpu_limit", "memory_request", "memory_limit", "memory_usage", "cpu_usage",
    "percorepricing", "cost", "total", "custom">>

\* Mutant: the limits are asked for in the other order.
MetricList_LimitsSwapped ==
  <<"cpu_request", "memory_limit", "memory_request", "cpu_limit", "memory_usage", "cpu_usage",
    "percorepricing", "total", "cost", "custom">>

\* metricList, in the order of getCostMetrics.
MetricList ==
  <<"cpu_request", "cpu_limit", "memory_request", "memory_limit", "memory_usage", "cpu_usage",
    "percorepricing", "total", "cost", "custom">>

Word == {"value", "scale"}

\* limit[p]: what the Memory field of p's Limit holds; memoryLimited: the pods with a memory
\* limit; divisor[p]: the words of CostTotal p's cost was divided by; disturbed (history):
\* did another request store its total since this one did?  A summary has one entry.
Request(where, kind) ==
  [pc |-> where, kind |-> kind, i |-> 1, todo |-> {},
   limit |-> [p \in Pods |-> "none"], memoryLimited |-> {},
   divisor |-> [p \in Pods |-> <<>>], disturbed |-> FALSE]

HttpInit ==
  /\ costTotal = [w \in Word |-> Unset]
  /\ req = [r \in Requests |-> Request("idle", "detail")]

Metric(r) == MetricList[req[r].i]

Move(r, to) == req' = [req EXCEPT ![r] = to]

\* The next metric of the list, or the answer after the last.
Advance(r, to) ==
  Move(r, IF req[r].i = Len(MetricList) THEN [to EXCEPT !.pc = "reply"]
          ELSE [to EXCEPT !.pc = "fetch", !.i = @ + 1])

-----------------------------------------------------------------------------

Arrive(r) ==
  /\ req[r].pc = "idle"
  /\ \E kind \in {"detail", "summary"} : Move(r, Request("fetch", kind))
  /\ UNCHANGED costTotal

\* The list could not be fetched and is nil, which the code logs and dereferences; or the
\* list of the total is empty; or a pod has no name.  The handler's goroutine panics.
Panic(r) ==
  /\ req[r].pc = "fetch"
  /\ Move(r, [req[r] EXCEPT !.pc = "panic"])
  /\ UNCHANGED costTotal

\* The pods a list may have.  A summary adds its items up, also if there are none.
Listed(r) ==
  IF req[r].kind = "detail" THEN SUBSET Pods ELSE {{CHOOSE p \in Pods : TRUE}}

\* The limits: that of the CPU is stored in the Memory field too (cost_http.go:111-112, 131-132).
FetchLimit(r) ==
  /\ req[r].pc = "fetch" /\ Metric(r) \in {"cpu_limit", "memory_limit"}
  /\ \E listed \in Listed(r) :
       Advance(r, [req[r] EXCEPT
         !.limit = [p \in Pods |-> IF p \in listed THEN Metric(r) ELSE @[p]],
         !.memoryLimited = IF Metric(r) = "memory_limit" THEN listed ELSE @])
  /\ UNCHANGED costTotal

\* A list that has no influence on the others.
FetchPlain(r) ==
  /\ req[r].pc = "fetch" /\ Metric(r) \notin {"cpu_limit", "memory_limit", "total", "cost"}
  /\ Advance(r, req[r])
  /\ UNCHANGED costTotal

\* Mutant: the total is stored once and for all.
StoresTotal_Once(r) == req[r].kind = "detail" /\ costTotal["value"] = Unset

StoresTotal(r) == req[r].kind = "detail"

\* CostTotal = metrics.Items[0], its first word; a summary passes the list over.
FetchTotal(r) ==
  /\ req[r].pc = "fetch" /\ Metric(r) = "total"
  /\ IF StoresTotal(r)
       THEN \E w \in Word :
              /\ costTotal' = [costTotal EXCEPT ![w] = r]
              /\ req' = [q \in Requests |->
                   IF q = r THEN [req[r] EXCEPT !.pc = "store", !.todo = Word \ {w},
                                                !.disturbed = FALSE]
                            ELSE [req[q] EXCEPT !.disturbed = TRUE]]
       ELSE Advance(r, req[r]) /\ UNCHANGED costTotal

\* ... and its other word
StoreTotal(r) ==
  /\ req[r].pc = "store"
  /\ costTotal' = [w \in Word |-> IF w \in req[r].todo THEN r ELSE costTotal[w]]
  /\ req' = [q \in Requests |->
       IF q = r THEN [req[r] EXCEPT !.pc = "fetch", !.i = @ + 1, !.todo = {}]
                ELSE [req[q] EXCEPT !.disturbed = TRUE]]

\* The list of costs: each pod's cost is to be divided by the total.
FetchCost(r) ==
  /\ req[r].pc = "fetch" /\ Metric(r) = "cost"
  /\ \E listed \in Listed(r) : Move(r, [req[r] EXCEPT !.pc = "divide", !.todo = listed])
  /\ UNCHANGED costTotal

\* CostTotal.Value.MilliValue(): the value, then the scale
DivideValue(r) ==
  /\ req[r].pc = "divide"
  /\ \E p \in req[r].todo :
       /\ req[r].divisor[p] = <<>>
       /\ \A q \in req[r].todo : Len(req[r].divisor[q]) # 1
       /\ Move(r, [req[r] EXCEPT !.divisor[p] = <<costTotal["value"]>>])
  /\ UNCHANGED costTotal

DivideScale(r) ==
  /\ req[r].pc = "divide"
  /\ \E p \in req[r].todo :
       /\ Len(req[r].divisor[p]) = 1
       /\ Move(r, [req[r] EXCEPT !.divisor[p] = Append(@, costTotal["scale"]), !.todo = @ \ {p}])
  /\ UNCHANGED costTotal

Divided(r) ==
  /\ req[r].pc = "divide" /\ req[r].todo = {}
  /\ Advance(r, req[r])
  /\ UNCHANGED costTotal

\* json.Marshal; it refuses an infinity or a NaN, which is what the division by a total that
\* was never stored (or is zero) gives: the error is dropped and the body is empty.
Reply(r) ==
  /\ req[r].pc = "reply"
  /\ Move(r, [req[r] EXCEPT !.pc = "done"])
  /\ UNCHANGED costTotal

Leave(r) ==
  /\ req[r].pc \in {"done", "panic"}
  /\ Move(r, Request("idle", "detail"))
  /\ UNCHANGED costTotal

HttpNext ==
  \E r \in Requests :
    \/ Arrive(r) \/ Panic(r) \/ FetchLimit(r) \/ FetchPlain(r) \/ FetchTotal(r) \/ StoreTotal(r)
    \/ FetchCost(r) \/ DivideValue(r) \/ DivideScale(r) \/ Divided(r) \/ Reply(r) \/ Leave(r)

HttpSpec == HttpInit /\ [][HttpNext]_httpVars

-----------------------------------------------------------------------------

TypeOK ==
  /\ costTotal \in [Word -> Requests \cup {Unset}]
  /\ req \in [Requests ->
       [pc : {"idle", "fetch", "store", "divide", "reply", "done", "panic"},
        kind : {"detail", "summary"}, i : 1..Len(MetricList), todo : SUBSET (Word \cup Pods),
        limit : [Pods -> {"none", "cpu_limit", "memory_limit"}],
        memoryLimited : SUBSET Pods, divisor : [Pods -> Seq(Requests \cup {Unset})],
        disturbed : BOOLEAN]]

\* The costs of a detail request are divided by the total it fetched itself, every pod's by
\* the same, unless another request stored its own total in between: then a ratio may be of
\* another time unit, or of no total at all, the value of one with the scale of the other
\* (cost_http.go:28, 117, 192).
OwnTotalUnlessDisturbed ==
  \A r \in Requests : \A p \in Pods :
    req[r].kind = "detail" /\ ~req[r].disturbed
      => \A k \in DOMAIN req[r].divisor[p] : req[r].divisor[p][k] = r

\* A detail request never divides by a total that was not stored yet, or only in part,
\* whatever the others do; only a summary, which relies on an earlier detail request, can be
\* left with an empty body that way (cost_http.go:145, 191-194, 293).
DetailFindsATotal ==
  \A r \in Requests : \A p \in Pods : req[r].kind = "detail" =>
    \A k \in DOMAIN req[r].divisor[p] : req[r].divisor[p][k] # Unset

\* A pod that has a memory limit is shown with it, though its CPU limit is stored in the
\* same field: the memory limits are fetched later (cost_http.go:104, 112, 272).
MemoryLimitShown ==
  \A r \in Requests : \A p \in req[r].memoryLimited :
    req[r].pc \in {"reply", "done"} => req[r].limit[p] = "memory_limit"
=============================================================================
