--------------------------- MODULE CustomMetrics ---------------------------
(***************************************************************************)
(* Requests for custom metrics served beside the relister:                 *)
(* GetMetricByName and GetMetricBySelector of custom-provider/provider.go. *)
(* A request reads the registry twice, under two separate read locks: the  *)
(* query is built from the entry the metric has then (QueryForMetric), and *)
(* the samples of the answer are matched to resource names by the label of *)
(* the entry the metric has when the answer is there (MatchValuesToNames). *)
(* Prometheus is asked in between, without the lock.                       *)
(*                                                                         *)
(* A sample has labels, whose values may be names of resources.  The       *)
(* resource it is for is the one in the label of the namer whose query     *)
(* asked for it; what it has in the labels of other namers is up to the    *)
(* query, which is free text of the configuration: nothing, the same name, *)
(* or that of another resource.                                            *)
(***************************************************************************)
EXTENDS SeriesRegistry

CONSTANTS
  Requests,  \* the requests that may be in progress at the same time
  Names,     \* the names of resources
  LabelOf,   \* LabelOf[n] = the label namer n gives the resource, or NoLabel
  NoLabel,   \* LabelForResource fails
  NoEntry,   \* no registry entry looked up
  NoName,    \* the value of a label that a sample does not have
  Samples    \* the samples Prometheus may answer with, as label |-> value

Labels == {LabelOf[n] : n \in Namer} \ {NoLabel}

ASSUME RequestAssumption ==
  /\ NoEntry \notin Entry
  /\ DOMAIN LabelOf = Namer
  /\ NoName \notin Names
  /\ Samples \subseteq [Labels -> Names \cup {NoName}]

VARIABLE
  req  \* req[r]: where request r is, what it asks for, what it has read, how it ended

vars == <<registryVars, req>>

\* "value"; "notFound": one of the MetricNotFound errors; "internal": NewInternalError;
\* "failed": an error of metricFor.
Outcome == {"none", "value", "notFound", "internal", "failed"}

\* entry: the entry the query was built from; samples: the answer; items: the sample whose
\* value the reply gives, for each name it gives one; matchedBy (history): the entry the
\* samples were matched by; swapped (history): was the registry swapped in between?
Request(where, k, m, ns) ==
  [pc |-> where, kind |-> k, metric |-> m, names |-> ns, entry |-> NoEntry,
   samples |-> {}, items |-> << >>, outcome |-> "none", matchedBy |-> NoEntry,
   swapped |-> FALSE]

Idle(m) == Request("idle", "byName", m, {})

Init ==
  /\ RegistryInit
  /\ \E m \in Metrics : req = [r \in Requests |-> Idle(m)]

Move(r, to) == req' = [req EXCEPT ![r] = to]
Finished(r, how) == Move(r, [req[r] EXCEPT !.pc = "done", !.outcome = how])

-----------------------------------------------------------------------------

ArriveByName(r) ==
  /\ req[r].pc = "idle"
  /\ \E m \in Metrics, x \in Names : Move(r, Request("build", "byName", m, {x}))
  /\ UNCHANGED registryVars

ArriveBySelector(r) ==
  /\ req[r].pc = "idle"
  /\ \E m \in Metrics : Move(r, Request("list", "bySelector", m, {}))
  /\ UNCHANGED registryVars

\* helpers.ListObjectNames: the names of the resources that match the selector.
ListNames(r) ==
  /\ req[r].pc = "list"
  /\ \/ \E ns \in SUBSET Names : Move(r, [req[r] EXCEPT !.pc = "build", !.names = ns])
     \/ Finished(r, "internal")
  /\ UNCHANGED registryVars

\* mu.RLock() returns.  Readers hold the lock for one step each, so only the writer counts.
CanRead == lock = "free"

\* QueryForMetric.  Normalizing the resource or executing the query template may fail, which
\* is answered like an unknown metric.
BuildQuery(r) ==
  /\ req[r].pc = "build"
  /\ CanRead
  /\ \/ /\ req[r].names # {} /\ req[r].metric \in DOMAIN info
        /\ LabelOf[info[req[r].metric].namer] # NoLabel
        /\ Move(r, [req[r] EXCEPT !.pc = "query", !.entry = info[req[r].metric]])
     \/ Finished(r, "notFound")
  /\ UNCHANGED registryVars

\* promClient.Query: an error and a result that is not a vector are both internal errors;
\* GetMetricByName gives up on an empty vector.
AskPrometheus(r) ==
  /\ req[r].pc = "query"
  /\ \/ Finished(r, "internal")
     \/ \E found \in SUBSET Samples :
          IF found = {} /\ req[r].kind = "byName"
            THEN Finished(r, "notFound")
            ELSE Move(r, [req[r] EXCEPT !.pc = "match", !.samples = found])
  /\ UNCHANGED registryVars

\* What entry e takes a sample to be of.
NameIn(s, e) == s[LabelOf[e.namer]]

\* Mutant: the samples are matched by the label of the first namer.
Matched_FirstNamer(r, e) ==
  LET Name(s) == s[LabelOf[1]]
  IN  {f \in [{Name(s) : s \in req[r].samples} -> req[r].samples] :
         \A x \in DOMAIN f : Name(f[x]) = x}

\* The maps MatchValuesToNames may make of the answer when the metric's entry is e: every
\* sample is entered under what its label says, and of several the last stays.
Matched(r, e) ==
  {f \in [{NameIn(s, e) : s \in req[r].samples} -> req[r].samples] :
     \A x \in DOMAIN f : NameIn(f[x], e) = x}

\* Mutant: the first name without a value ends the loop.
Items_AllOrNone(r, values) ==
  [x \in IF req[r].names \subseteq DOMAIN values THEN req[r].names ELSE {} |-> values[x]]

\* metricsFor and GetMetricByName look the names up that were asked for.
Items(r, values) == [x \in req[r].names \cap DOMAIN values |-> values[x]]

\* metricFor makes each of them a value, or fails: the resource has no kind, or the selector
\* of the metric cannot be parsed back.
Answer(r, e, items) ==
  \/ Move(r, [req[r] EXCEPT !.pc = "done", !.outcome = "value", !.items = items,
                            !.matchedBy = e])
  \/ DOMAIN items # {} /\ Finished(r, "failed")

\* MatchValuesToNames and what follows it.  Normalizing the resource may fail here too.
Match(r) ==
  /\ req[r].pc = "match"
  /\ CanRead
  /\ \/ /\ req[r].metric \in DOMAIN info
        /\ LabelOf[info[req[r].metric].namer] # NoLabel
        /\ \E values \in Matched(r, info[req[r].metric]) :
             LET items == Items(r, values)
             IN  /\ req[r].kind = "byName" => DOMAIN items # {}
                 /\ Answer(r, info[req[r].metric], items)
     \/ Finished(r, "notFound")
  /\ UNCHANGED registryVars

Respond(r) ==
  /\ req[r].pc = "done"
  /\ Move(r, Idle(req[r].metric))
  /\ UNCHANGED registryVars

\* The relister's steps leave the requests alone.  A swap is noted (history) in those whose
\* query is built and whose samples are not matched yet.
SwapStep ==
  /\ StoreInfo
  /\ req' = [r \in Requests |-> IF req[r].pc \in {"query", "match"}
                                 THEN [req[r] EXCEPT !.swapped = TRUE] ELSE req[r]]

\* A restart drops the requests in progress.
RestartStep ==
  /\ Restart
  /\ req' = [r \in Requests |-> Idle(req[r].metric)]

Next ==
  \/ (Scrape \/ Relist \/ StoreList) /\ UNCHANGED req
  \/ SwapStep \/ RestartStep
  \/ \E r \in Requests :
       \/ ArriveByName(r) \/ ArriveBySelector(r) \/ ListNames(r)
       \/ BuildQuery(r) \/ AskPrometheus(r) \/ Match(r) \/ Respond(r)

Spec == Init /\ [][Next]_vars

-----------------------------------------------------------------------------

TypeOK ==
  /\ RegistryTypeOK
  /\ req \in [Requests -> [pc : {"idle", "list", "build", "query", "match", "done"},
                           kind : {"byName", "bySelector"}, metric : Metrics,
                           names : SUBSET Names, entry : Entry \cup {NoEntry},
                           samples : SUBSET Samples,
                           items : UNION {[D -> Samples] : D \in SUBSET Names},
                           outcome : Outcome, matchedBy : Entry \cup {NoEntry},
                           swapped : BOOLEAN]]

\* Did the metric change hands between the query and the match of r, to a namer with another
\* label?
Relabelled(r) ==
  req[r].swapped /\ LabelOf[req[r].matchedBy.namer] # LabelOf[req[r].entry.namer]

\* The value that is given for a resource is that of a sample of it, unless the metric changed
\* hands in between, to a namer with another label (provider.go:117-139, 176-192,
\* series_registry.go:193-200).
FiledRightUnlessRelabelled ==
  \A r \in Requests : req[r].outcome = "value" =>
    \/ \A x \in DOMAIN req[r].items : /\ req[r].items[x] \in req[r].samples
                                      /\ NameIn(req[r].items[x], req[r].entry) = x
    \/ Relabelled(r)

\* A reply leaves a resource that was asked for and has a sample out only if the metric changed
\* hands in this way.  (Then the list may come back short, or empty, as a success.)
NothingLostUnlessRelabelled ==
  \A r \in Requests : req[r].outcome = "value" =>
    \/ \A s \in req[r].samples :
         NameIn(s, req[r].entry) \in req[r].names
           => NameIn(s, req[r].entry) \in DOMAIN req[r].items
    \/ Relabelled(r)

\* "MatchValuesToNames matches result values to resource names for the given metric and value
\* set" (series_registry.go:58): each value is given for the resource it was measured at.  It
\* reads the metric's entry anew and matches by the label of whatever namer that has by then.
ValuesAreTheirs ==
  \A r \in Requests : \A x \in DOMAIN req[r].items :
    NameIn(req[r].items[x], req[r].entry) = x
=============================================================================
