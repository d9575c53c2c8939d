-------------------------- MODULE ExternalMetrics --------------------------
(***************************************************************************)
(* Requests for external metrics served beside the relister: the route a   *)
(* call of providerManager.GetExternalMetric takes (providerManager.go)    *)
(* through the sources of the Alibaba Cloud provider or through the        *)
(* Prometheus provider of external-provider/.  A Prometheus request reads  *)
(* the registry twice, under two separate read locks: once to see whether  *)
(* the metric is listed, once to build its query.                          *)
(***************************************************************************)
EXTENDS SeriesRegistry

CONSTANTS
  Requests,        \* the requests that may be in progress at the same time
  AlibabaMetrics,  \* the metrics the registered MetricSources list
  NoEntry          \* no registry entry looked up

ASSUME RequestAssumption ==
  /\ NoEntry \notin Entry

VARIABLE
  req  \* req[r]: where request r is, what it asks for, what it has read, how it ended

vars == <<registryVars, req>>

Asked == Metrics \cup AlibabaMetrics

\* "value"; "sourceError": an Alibaba Cloud source failed; "unmatched": no provider lists
\* the metric; "notFound": NewMetricNotFoundError; "internal": NewInternalError;
\* "badResult": the converter refused the result.
Outcome == {"none", "value", "sourceError", "unmatched", "notFound", "internal", "badResult"}

\* swapped (history): was the registry swapped since the request read the list?
Request(where, m) ==
  [pc |-> where, metric |-> m, entry |-> NoEntry, outcome |-> "none", swapped |-> FALSE]

Init ==
  /\ RegistryInit
  /\ \E m \in Asked : req = [r \in Requests |-> Request("idle", m)]

Finished(r, how) == req' = [req EXCEPT ![r].pc = "done", ![r].outcome = how]

\* A client (the HPA controller, through the API server) asks for a metric.
Arrive(r) ==
  /\ req[r].pc = "idle"
  /\ \E m \in Asked : req' = [req EXCEPT ![r] = Request("route", m)]
  /\ UNCHANGED registryVars

\* The Alibaba Cloud provider lists the metric: its source answers.
ServeFromAlibaba(r) ==
  /\ req[r].pc = "route" /\ req[r].metric \in AlibabaMetrics
  /\ Finished(r, "value") \/ Finished(r, "sourceError")
  /\ UNCHANGED registryVars

\* Mutant: the registry is read without the read lock.
CanRead_Unlocked == TRUE

\* mu.RLock() returns.  Readers hold the lock for one step each, so only the writer counts.
CanRead == lock = "free"

\* ListAllExternalMetrics and the loop over it.
ReadList(r) ==
  /\ req[r].pc = "route" /\ req[r].metric \notin AlibabaMetrics
  /\ CanRead
  /\ IF req[r].metric \in metrics
       THEN req' = [req EXCEPT ![r].pc = "lookup"]
       ELSE Finished(r, "unmatched")
  /\ UNCHANGED registryVars

\* QueryForMetric; building the query may fail too (a bad template).
LookUp(r) ==
  /\ req[r].pc = "lookup"
  /\ CanRead
  /\ IF req[r].metric \in DOMAIN info
       THEN \/ req' = [req EXCEPT ![r].pc = "query", ![r].entry = info[req[r].metric]]
            \/ Finished(r, "internal")
       ELSE Finished(r, "notFound")
  /\ UNCHANGED registryVars

\* promClient.Query and metricConverter.Convert.  A series that is gone gives an empty
\* vector, which is converted to an empty list and is no error.
AskPrometheus(r) ==
  /\ req[r].pc = "query"
  /\ Finished(r, "value") \/ Finished(r, "internal") \/ Finished(r, "badResult")
  /\ UNCHANGED registryVars

Respond(r) ==
  /\ req[r].pc = "done"
  /\ req' = [req EXCEPT ![r] = Request("idle", req[r].metric)]
  /\ UNCHANGED registryVars

\* The relister's steps leave the requests alone.  A swap is noted (history) in those that
\* have read the list and not yet looked their metric up.
SwapStep ==
  /\ StoreInfo
  /\ req' = [r \in Requests |-> IF req[r].pc = "lookup" THEN [req[r] EXCEPT !.swapped = TRUE]
                                                       ELSE req[r]]

\* A restart drops the requests in progress.
RestartStep ==
  /\ Restart
  /\ req' = [r \in Requests |-> Request("idle", req[r].metric)]

Next ==
  \/ (Scrape \/ Relist \/ StoreList) /\ UNCHANGED req
  \/ SwapStep \/ RestartStep
  \/ \E r \in Requests : \/ Arrive(r) \/ ServeFromAlibaba(r) \/ ReadList(r) \/ LookUp(r)
                        \/ AskPrometheus(r) \/ Respond(r)

Spec == Init /\ [][Next]_vars

(***************************************************************************)
(* Every goroutine that can move is run.  A sync.RWMutex lets the readers  *)
(* in that waited for a writer before the next writer, hence SF for the    *)
(* two reads.  A relisting may hang for ever: the code sets no time limit  *)
(* for it.                                                                 *)
(***************************************************************************)
Fairness ==
  /\ WF_vars((StartListing \/ StoreList) /\ UNCHANGED req)
  /\ WF_vars(SwapStep)
  /\ \A r \in Requests :
       /\ WF_vars(ServeFromAlibaba(r) \/ AskPrometheus(r) \/ Respond(r))
       /\ SF_vars(ReadList(r) \/ LookUp(r))

FairSpec == Spec /\ Fairness

-----------------------------------------------------------------------------

TypeOK ==
  /\ RegistryTypeOK
  /\ req \in [Requests -> [pc : {"idle", "route", "lookup", "query", "done"},
                           metric : Asked, entry : Entry \cup {NoEntry},
                           outcome : Outcome, swapped : BOOLEAN]]

\* A request that found its metric in the list is told that it does not exist only if a
\* whole swap came between its two reads: never because it read the list and the map of two
\* generations in the middle of one (providerManager.go:56-61, provider.go:43-52).
ListedThenFound ==
  \A r \in Requests : req[r].outcome = "notFound" => req[r].swapped

\* Every request comes to an end (or is dropped by a restart), also while a relisting hangs:
\* no lock is held while Prometheus is asked for series (basic_metric_lister.go:103,
\* external_series_registry.go:101, 109, 117).
EveryRequestEnds ==
  \A r \in Requests : req[r].pc # "idle" ~> req[r].pc \in {"idle", "done"}

\* If Prometheus answers, then once a series stays in it, requests for its metrics are in the
\* end never again told that the metric is unknown, though the registry keeps being swapped
\* under them.
StaysKnown ==
  PrometheusAnswers =>
    \A n \in Namer : \A s \in Series : \A r \in Requests :
      <>[](s \in world) =>
        <>[](req[r].metric \in MetricsOf[n][s] => req[r].outcome \notin {"unmatched", "notFound"})
=============================================================================
