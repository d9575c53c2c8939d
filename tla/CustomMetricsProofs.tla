------------------------ MODULE CustomMetricsProofs ------------------------
(***************************************************************************)
(* The safety invariants of CustomMetrics, for any number of requests, any *)
(* names and any registry.  The registry's own invariants are carried over *)
(* step by step (RelisterStep); what is added is what a request knows of   *)
(* the registry between its query and its match.                           *)
(***************************************************************************)
EXTENDS CustomMetrics, SeriesRegistryProofs

\* Whatever happens here, the registry makes one of its own steps or none.
LEMMA RelisterStep == [Next]_vars => [RegistryNext]_registryVars
<1> SUFFICES ASSUME [Next]_vars PROVE [RegistryNext]_registryVars
  OBVIOUS
<1>1. CASE (Scrape \/ Relist \/ StoreList) /\ UNCHANGED req
  BY <1>1 DEF RegistryNext
<1>2. CASE SwapStep \/ RestartStep
  BY <1>2 DEF SwapStep, RestartStep, RegistryNext
<1>3. CASE \E r \in Requests :
             \/ ArriveByName(r) \/ ArriveBySelector(r) \/ ListNames(r)
             \/ BuildQuery(r) \/ AskPrometheus(r) \/ Match(r) \/ Respond(r)
  BY <1>3 DEF ArriveByName, ArriveBySelector, ListNames, BuildQuery, AskPrometheus, Match, Respond
<1>4. CASE UNCHANGED vars
  BY <1>4 DEF vars
<1>5. QED
  BY <1>1, <1>2, <1>3, <1>4 DEF Next

RequestType ==
  [pc : {"idle", "list", "build", "query", "match", "done"},
   kind : {"byName", "bySelector"}, metric : Metrics,
   names : SUBSET Names, entry : Entry \cup {NoEntry},
   samples : SUBSET Samples, items : UNION {[D -> Samples] : D \in SUBSET Names},
   outcome : Outcome, matchedBy : Entry \cup {NoEntry}, swapped : BOOLEAN]

\* The maps of a reply are of their type, the empty one too.
LEMMA ItemsType ==
  ASSUME NEW D \in SUBSET Names, NEW f \in [D -> Samples]
  PROVE  f \in UNION {[E -> Samples] : E \in SUBSET Names}
  OBVIOUS

LEMMA NoItems == << >> \in UNION {[D -> Samples] : D \in SUBSET Names}
<1>1. << >> \in [{} -> Samples] /\ {} \in SUBSET Names
  OBVIOUS
<1>2. QED
  BY <1>1, ItemsType

\* Are these items all values an answer gives for names, and no others, matched by entry e?
ItemsBy(names, samples, items, e) ==
  /\ \A x \in DOMAIN items : items[x] \in samples /\ NameIn(items[x], e) = x
  /\ \A s \in samples : NameIn(s, e) \in names => NameIn(s, e) \in DOMAIN items

LEMMA FreshRequest ==
  ASSUME NEW m \in Metrics, NEW where \in {"idle", "list", "build"},
         NEW k \in {"byName", "bySelector"}, NEW ns \in SUBSET Names
  PROVE  Request(where, k, m, ns) \in RequestType
BY NoItems DEF Request, RequestType, Outcome

\* A request moves to a state of its type ...
LEMMA MoveType ==
  ASSUME NEW r \in Requests, req \in [Requests -> RequestType],
         NEW to \in RequestType, Move(r, to)
  PROVE  req' \in [Requests -> RequestType]
BY DEF Move

\* ... and may end without a value.
LEMMA FinishedType ==
  ASSUME NEW r \in Requests, req \in [Requests -> RequestType],
         NEW how \in {"notFound", "internal", "failed"}, Finished(r, how)
  PROVE  req' \in [Requests -> RequestType]
<1>1. req[r] \in RequestType
  OBVIOUS
<1>2. [req[r] EXCEPT !.pc = "done", !.outcome = how] \in RequestType
  BY <1>1 DEF RequestType, Outcome
<1>3. QED
  BY <1>2, MoveType DEF Finished

\* What a map of the answer gives for the names asked for.
LEMMA ItemsMade ==
  ASSUME NEW r \in Requests, req[r] \in RequestType, NEW e, NEW values \in Matched(r, e)
  PROVE  /\ Items(r, values) \in UNION {[D -> Samples] : D \in SUBSET Names}
         /\ ItemsBy(req[r].names, req[r].samples, Items(r, values), e)
<1> DEFINE S == req[r].samples
           D == req[r].names \cap DOMAIN values
<1>1. S \in SUBSET Samples /\ D \in SUBSET Names
  BY DEF RequestType
<1>2. /\ DOMAIN values = {NameIn(s, e) : s \in S} /\ \A x \in DOMAIN values : values[x] \in S
      /\ \A x \in DOMAIN values : NameIn(values[x], e) = x
  BY DEF Matched
<1>3. Items(r, values) = [x \in D |-> values[x]]
  BY DEF Items
<1>4. [x \in D |-> values[x]] \in [D -> Samples]
  BY <1>1, <1>2
<1>5. ItemsBy(req[r].names, S, [x \in D |-> values[x]], e)
  BY <1>2 DEF ItemsBy
<1>6. QED
  BY <1>1, <1>3, <1>4, <1>5, ItemsType

LEMMA TypeInit == Init => TypeOK
<1> SUFFICES ASSUME Init PROVE TypeOK
  OBVIOUS
<1>1. PICK m \in Metrics : req = [r \in Requests |-> Idle(m)]
  BY DEF Init
<1>2. Idle(m) \in RequestType
  BY FreshRequest DEF Idle
<1>3. QED
  BY <1>1, <1>2, RegistryTypeInit DEF Init, TypeOK, RequestType

LEMMA TypeStep == TypeOK /\ [Next]_vars => TypeOK'
<1> SUFFICES ASSUME TypeOK, [Next]_vars PROVE TypeOK'
  OBVIOUS
<1>1. RegistryTypeOK /\ req \in [Requests -> RequestType]
  BY DEF TypeOK, RequestType
<1>2. RegistryTypeOK'
  BY <1>1, RelisterStep, RegistryTypeStep
<1>3. req' \in [Requests -> RequestType]
  <2>0. \A r \in Requests : req[r] \in RequestType
    BY <1>1
  <2>1. CASE UNCHANGED req
    BY <1>1, <2>1
  <2>2. CASE SwapStep
    <3>1. \A r \in Requests : [req[r] EXCEPT !.swapped = TRUE] \in RequestType
      BY <2>0 DEF RequestType
    <3>2. QED
      BY <2>0, <2>2, <3>1 DEF SwapStep
  <2>3. ASSUME NEW r \in Requests PROVE Idle(req[r].metric) \in RequestType
    <3>1. req[r].metric \in Metrics
      BY <1>1 DEF RequestType
    <3>2. QED
      BY <3>1, FreshRequest DEF Idle
  <2>4. CASE RestartStep
    BY <2>3, <2>4 DEF RestartStep
  <2>5. ASSUME NEW r \in Requests, ArriveByName(r)
        PROVE  req' \in [Requests -> RequestType]
    <3>1. PICK m \in Metrics, x \in Names : Move(r, Request("build", "byName", m, {x}))
      BY <2>5 DEF ArriveByName
    <3>2. Request("build", "byName", m, {x}) \in RequestType
      BY FreshRequest
    <3>3. QED
      BY <1>1, <3>1, <3>2 DEF Move
  <2>6. ASSUME NEW r \in Requests, ArriveBySelector(r)
        PROVE  req' \in [Requests -> RequestType]
    <3>1. PICK m \in Metrics : Move(r, Request("list", "bySelector", m, {}))
      BY <2>6 DEF ArriveBySelector
    <3>2. Request("list", "bySelector", m, {}) \in RequestType
      BY FreshRequest
    <3>3. QED
      BY <1>1, <3>1, <3>2 DEF Move
  <2>7. ASSUME NEW r \in Requests, ListNames(r)
        PROVE  req' \in [Requests -> RequestType]
    <3>1. CASE \E ns \in SUBSET Names : Move(r, [req[r] EXCEPT !.pc = "build", !.names = ns])
      <4>1. \A ns \in SUBSET Names : [req[r] EXCEPT !.pc = "build", !.names = ns] \in RequestType
        BY <2>0 DEF RequestType
      <4>2. QED
        BY <1>1, <3>1, <4>1, MoveType
    <3>2. CASE Finished(r, "internal")
      BY <1>1, <3>2, FinishedType
    <3>3. QED
      BY <2>7, <3>1, <3>2 DEF ListNames
  <2>8. ASSUME NEW r \in Requests, BuildQuery(r)
        PROVE  req' \in [Requests -> RequestType]
    <3>1. CASE /\ req[r].metric \in DOMAIN info
               /\ Move(r, [req[r] EXCEPT !.pc = "query", !.entry = info[req[r].metric]])
      <4>1. info[req[r].metric] \in Entry
        BY <1>1, <3>1 DEF RegistryTypeOK
      <4>2. QED
        BY <1>1, <2>0, <3>1, <4>1, MoveType DEF RequestType
    <3>2. CASE Finished(r, "notFound")
      BY <1>1, <3>2, FinishedType
    <3>3. QED
      BY <2>8, <3>1, <3>2 DEF BuildQuery
  <2>9. ASSUME NEW r \in Requests, AskPrometheus(r)
        PROVE  req' \in [Requests -> RequestType]
    <3>1. CASE \E found \in SUBSET Samples :
                 Move(r, [req[r] EXCEPT !.pc = "match", !.samples = found])
      <4>1. \A found \in SUBSET Samples :
              [req[r] EXCEPT !.pc = "match", !.samples = found] \in RequestType
        BY <2>0 DEF RequestType
      <4>2. QED
        BY <1>1, <3>1, <4>1, MoveType
    <3>2. CASE Finished(r, "internal") \/ Finished(r, "notFound")
      BY <1>1, <3>2, FinishedType
    <3>3. QED
      BY <2>9, <3>1, <3>2 DEF AskPrometheus
  <2>10. ASSUME NEW r \in Requests, Match(r)
         PROVE  req' \in [Requests -> RequestType]
    <3>1. CASE Finished(r, "notFound") \/ Finished(r, "failed")
      BY <1>1, <3>1, FinishedType
    <3>2. ASSUME NEW e \in Entry, NEW values \in Matched(r, e),
                 Move(r, [req[r] EXCEPT !.pc = "done", !.outcome = "value",
                                        !.items = Items(r, values), !.matchedBy = e])
          PROVE  req' \in [Requests -> RequestType]
      <4>1. Items(r, values) \in UNION {[D -> Samples] : D \in SUBSET Names}
        BY <2>0, ItemsMade
      <4> DEFINE items == Items(r, values)
      <4> HIDE DEF items
      <4>2. [req[r] EXCEPT !.pc = "done", !.outcome = "value", !.items = items,
                           !.matchedBy = e] \in RequestType
        BY <2>0, <3>2, <4>1 DEF RequestType, Outcome, items
      <4>3. QED
        BY <1>1, <3>2, <4>2, MoveType DEF items
    <3>3. req[r].metric \in DOMAIN info => info[req[r].metric] \in Entry
      BY <1>1 DEF RegistryTypeOK
    <3>4. QED
      BY <2>10, <3>1, <3>2, <3>3 DEF Match, Answer
  <2>11. ASSUME NEW r \in Requests, Respond(r)
         PROVE  req' \in [Requests -> RequestType]
    BY <1>1, <2>3, <2>11 DEF Respond, Move
  <2>12. QED
    BY <2>1, <2>2, <2>4, <2>5, <2>6, <2>7, <2>8, <2>9, <2>10, <2>11 DEF Next, vars
<1>4. QED
  BY <1>2, <1>3 DEF TypeOK, RequestType

\* The registry and every request are of their types, in every reachable state.
THEOREM TypeCorrect == Spec => []TypeOK
<1>1. QED
  BY TypeInit, TypeStep, PTL DEF Spec

-----------------------------------------------------------------------------

(***************************************************************************)
(* What a request knows.  Until it is done it has no outcome; as           *)
(* long as the registry is not swapped under it, the entry its query was   *)
(* built from is the one its metric still has, so the match is by the      *)
(* label the query grouped by.  Its items are what the entry it was        *)
(* matched by makes of the answer, whichever that is.                      *)
(***************************************************************************)
KnowledgeOf(q, registered) ==
  /\ q.pc # "done" => q.outcome = "none"
  /\ q.pc \in {"query", "match"} /\ ~q.swapped
       => q.metric \in DOMAIN registered /\ q.entry = registered[q.metric]
  /\ q.outcome = "value" => /\ ItemsBy(q.names, q.samples, q.items, q.matchedBy)
                            /\ ~q.swapped => q.matchedBy = q.entry

MatchInv == \A r \in Requests : KnowledgeOf(req[r], info)

\* A request not yet sent knows nothing, which is true whatever is registered.
LEMMA FreshKnowledge ==
  ASSUME NEW where \in {"idle", "list", "build"}, NEW k, NEW m, NEW ns, NEW registered
  PROVE  KnowledgeOf(Request(where, k, m, ns), registered)
BY DEF KnowledgeOf, Request

LEMMA MatchInit == Init => MatchInv
BY FreshKnowledge DEF Init, Idle, MatchInv

LEMMA MatchStep == TypeOK /\ MatchInv /\ [Next]_vars => MatchInv'
<1> SUFFICES ASSUME TypeOK, MatchInv, [Next]_vars PROVE MatchInv'
  OBVIOUS
<1>1. req \in [Requests -> RequestType]
  BY DEF TypeOK, RequestType
<1>2. CASE UNCHANGED <<req, info>>
  BY <1>2 DEF MatchInv
<1>3. CASE (Scrape \/ Relist \/ StoreList) /\ UNCHANGED req
  <2>1. info' = info
    BY <1>3 DEF Scrape, Relist, StartListing, ListingFails, ListingSucceeds, StoreList, registry
  <2>2. QED
    BY <1>2, <1>3, <2>1
<1>4. CASE SwapStep
  \* the map changes, and every request in between is marked
  <2>1. ASSUME NEW r \in Requests PROVE KnowledgeOf(req'[r], info')
    <3>1. req'[r] = IF req[r].pc \in {"query", "match"}
                      THEN [req[r] EXCEPT !.swapped = TRUE] ELSE req[r]
      BY <1>4 DEF SwapStep
    <3>2. KnowledgeOf(req[r], info) /\ req[r] \in RequestType
      BY <1>1 DEF MatchInv
    <3>3. QED
      BY <3>1, <3>2 DEF KnowledgeOf, RequestType
  <2>2. QED
    BY <2>1 DEF MatchInv
<1>5. CASE RestartStep
  BY <1>5, FreshKnowledge DEF RestartStep, Idle, MatchInv
<1>6. ASSUME NEW r \in Requests, NEW to, UNCHANGED registryVars, Move(r, to),
             KnowledgeOf(to, info)
      PROVE  MatchInv'
  <2>1. info' = info
    BY <1>6 DEF registryVars, registry
  <2>2. QED
    BY <1>1, <1>6, <2>1 DEF Move, MatchInv
<1>7. ASSUME NEW r \in Requests PROVE KnowledgeOf(req[r], info) /\ req[r] \in RequestType
  BY <1>1, <1>7 DEF MatchInv
<1>8. ASSUME NEW r \in Requests, NEW how \in {"notFound", "internal", "failed"},
             req[r].pc # "done", UNCHANGED registryVars, Finished(r, how)
      PROVE  MatchInv'
  <2>1. KnowledgeOf([req[r] EXCEPT !.pc = "done", !.outcome = how], info)
    BY <1>7, <1>8 DEF KnowledgeOf, RequestType
  <2>2. QED
    BY <1>6, <1>8, <2>1 DEF Finished
<1>9. ASSUME NEW r \in Requests, ArriveByName(r) \/ ArriveBySelector(r) PROVE MatchInv'
  BY <1>6, <1>9, FreshKnowledge DEF ArriveByName, ArriveBySelector
<1>10. ASSUME NEW r \in Requests, ListNames(r) PROVE MatchInv'
  <2>1. ASSUME NEW ns \in SUBSET Names
        PROVE  KnowledgeOf([req[r] EXCEPT !.pc = "build", !.names = ns], info)
    BY <1>7, <1>10 DEF ListNames, KnowledgeOf, RequestType
  <2>2. QED
    BY <1>6, <1>8, <1>10, <2>1 DEF ListNames
<1>11. ASSUME NEW r \in Requests, BuildQuery(r) PROVE MatchInv'
  <2>1. CASE req[r].metric \in DOMAIN info
    <3>1. KnowledgeOf([req[r] EXCEPT !.pc = "query", !.entry = info[req[r].metric]], info)
      BY <1>7, <1>11, <2>1 DEF BuildQuery, KnowledgeOf, RequestType
    <3>2. QED
      BY <1>6, <1>8, <1>11, <3>1 DEF BuildQuery
  <2>2. CASE req[r].metric \notin DOMAIN info
    BY <1>8, <1>11, <2>2 DEF BuildQuery
  <2>3. QED
    BY <2>1, <2>2
<1>12. ASSUME NEW r \in Requests, AskPrometheus(r) PROVE MatchInv'
  <2>1. ASSUME NEW found \in SUBSET Samples
        PROVE  KnowledgeOf([req[r] EXCEPT !.pc = "match", !.samples = found], info)
    BY <1>7, <1>12 DEF AskPrometheus, KnowledgeOf, RequestType
  <2>2. QED
    BY <1>6, <1>8, <1>12, <2>1 DEF AskPrometheus
<1>13. ASSUME NEW r \in Requests, Match(r) PROVE MatchInv'
  <2>1. CASE Finished(r, "notFound") \/ Finished(r, "failed")
    BY <1>8, <1>13, <2>1 DEF Match
  <2>2. ASSUME NEW e, NEW values \in Matched(r, e), e = info[req[r].metric],
               Move(r, [req[r] EXCEPT !.pc = "done", !.outcome = "value",
                                      !.items = Items(r, values), !.matchedBy = e])
        PROVE  MatchInv'
    <3> DEFINE items == Items(r, values)
               to == [req[r] EXCEPT !.pc = "done", !.outcome = "value", !.items = items,
                                    !.matchedBy = e]
    <3>1. ItemsBy(req[r].names, req[r].samples, items, e)
      BY <1>7, ItemsMade
    <3> HIDE DEF items
    <3>2. ~req[r].swapped => e = req[r].entry
      BY <1>7, <1>13, <2>2 DEF Match, KnowledgeOf
    <3>3. /\ to.pc = "done" /\ to.outcome = "value" /\ to.items = items /\ to.matchedBy = e
          /\ to.names = req[r].names /\ to.samples = req[r].samples
          /\ to.swapped = req[r].swapped /\ to.entry = req[r].entry
      BY <1>7 DEF RequestType
    <3> HIDE DEF to
    <3>4. KnowledgeOf(to, info)
      BY <3>1, <3>2, <3>3 DEF KnowledgeOf
    <3>5. QED
      BY <1>6, <1>13, <2>2, <3>4 DEF Match, to, items
  <2>3. QED
    BY <1>13, <2>1, <2>2 DEF Match, Answer
<1>14. ASSUME NEW r \in Requests, Respond(r) PROVE MatchInv'
  BY <1>6, <1>14, FreshKnowledge DEF Respond, Idle
<1>15. CASE UNCHANGED vars
  BY <1>2, <1>15 DEF vars, registryVars, registry
<1>16. QED
  BY <1>3, <1>4, <1>5, <1>9, <1>10, <1>11, <1>12, <1>13, <1>14, <1>15 DEF Next

LEMMA MatchCorrect == Spec => []MatchInv
<1>1. QED
  BY MatchInit, MatchStep, TypeCorrect, PTL DEF Spec

\* What a reply says is right by the entry its query was built from, unless the metric was
\* given to a namer with another label before the match.
LEMMA RightOrRelabelled ==
  ASSUME NEW r \in Requests, KnowledgeOf(req[r], info), req[r].outcome = "value", ~Relabelled(r)
  PROVE  ItemsBy(req[r].names, req[r].samples, req[r].items, req[r].entry)
<1> DEFINE q == req[r]
<1>1. /\ ItemsBy(q.names, q.samples, q.items, q.matchedBy)
      /\ ~q.swapped => q.matchedBy = q.entry
  BY DEF KnowledgeOf
<1>2. LabelOf[q.matchedBy.namer] = LabelOf[q.entry.namer]
  BY <1>1 DEF Relabelled
<1> HIDE DEF q
<1>3. \A s : NameIn(s, q.matchedBy) = NameIn(s, q.entry)
  BY <1>2 DEF NameIn
<1>4. ItemsBy(q.names, q.samples, q.items, q.entry)
  BY <1>1, <1>3 DEF ItemsBy
<1>5. QED
  BY <1>4 DEF q

\* Every value is given for the resource it was measured at, unless the metric was given to a
\* namer with another label between the query and the match: then it may be given for
\* another resource, which the model shows.
THEOREM ValuesAreFiledRight == Spec => []FiledRightUnlessRelabelled
<1>1. MatchInv => FiledRightUnlessRelabelled
  BY RightOrRelabelled DEF MatchInv, FiledRightUnlessRelabelled, ItemsBy
<1>2. QED
  BY <1>1, MatchCorrect, PTL

\* A sampled resource is left out of a reply only in the same case.
THEOREM NothingIsLost == Spec => []NothingLostUnlessRelabelled
<1>1. MatchInv => NothingLostUnlessRelabelled
  BY RightOrRelabelled DEF MatchInv, NothingLostUnlessRelabelled, ItemsBy
<1>2. QED
  BY <1>1, MatchCorrect, PTL

-----------------------------------------------------------------------------

\* The requests only read: seen without them, the system is the relister and its registry
\* alone, whatever is asked for and whenever (series_registry.go:135-203).
THEOREM ReadersLeaveRegistry == Spec => RegistrySpec
<1>1. Init => RegistryInit
  BY DEF Init
<1>2. QED
  BY <1>1, RelisterStep, PTL DEF Spec, RegistrySpec

\* So what the registry promises holds while custom metrics are served from it: list and map
\* agree whenever they can be read, they are those of one relisting, later namers win.
THEOREM ServedRegistry == Spec => [](ListMatchesInfo /\ RegistryIsOneListing /\ LaterNamerWins)
<1>1. QED
  BY ReadersLeaveRegistry, ListAgreesWithMap, OneListingServed, LaterNamerServes, PTL

-----------------------------------------------------------------------------

\* Whatever is swapped in after a request has read its entry, the query it sends is one for the
\* metric it was asked for, made by a namer that exposes it and from a series it exposes it as
\* (series_registry.go:142-170).
IsOfItsMetric(q) == q.entry # NoEntry => q.metric \in MetricsOf[q.entry.namer][q.entry.series]
QueriesItsMetric == \A r \in Requests : IsOfItsMetric(req[r])

LEMMA FreshQuery ==
  ASSUME NEW where, NEW k, NEW m, NEW ns PROVE IsOfItsMetric(Request(where, k, m, ns))
BY DEF IsOfItsMetric, Request

LEMMA QueryStep ==
  TypeOK /\ RegistryIsOneListing /\ QueriesItsMetric /\ [Next]_vars => QueriesItsMetric'
<1> SUFFICES ASSUME TypeOK, RegistryIsOneListing, QueriesItsMetric, [Next]_vars
             PROVE  QueriesItsMetric'
  OBVIOUS
<1>1. req \in [Requests -> RequestType]
  BY DEF TypeOK, RequestType
<1>2. CASE UNCHANGED req
  BY <1>2 DEF QueriesItsMetric
<1>3. ASSUME NEW r \in Requests PROVE IsOfItsMetric(req[r]) /\ req[r] \in RequestType
  BY <1>1, <1>3 DEF QueriesItsMetric
<1>4. CASE SwapStep
  <2>1. ASSUME NEW r \in Requests PROVE IsOfItsMetric(req'[r])
    <3>1. IsOfItsMetric([req[r] EXCEPT !.swapped = TRUE])
      BY <1>3 DEF IsOfItsMetric, RequestType
    <3>2. req'[r] = [req[r] EXCEPT !.swapped = TRUE] \/ req'[r] = req[r]
      BY <1>4 DEF SwapStep
    <3>3. QED
      BY <1>3, <3>1, <3>2
  <2>2. QED
    BY <2>1 DEF QueriesItsMetric
<1>5. CASE RestartStep
  BY <1>5, FreshQuery DEF RestartStep, Idle, QueriesItsMetric
<1>6. ASSUME NEW r \in Requests, NEW to, Move(r, to), IsOfItsMetric(to) PROVE QueriesItsMetric'
  BY <1>1, <1>6 DEF Move, QueriesItsMetric
<1>7. ASSUME NEW r \in Requests, NEW to, Move(r, to),
             to.entry = req[r].entry, to.metric = req[r].metric
      PROVE  QueriesItsMetric'
  BY <1>3, <1>6, <1>7 DEF IsOfItsMetric
<1>8. ASSUME NEW r \in Requests, NEW how, Finished(r, how) PROVE QueriesItsMetric'
  <2> DEFINE to == [req[r] EXCEPT !.pc = "done", !.outcome = how]
  <2>1. to.entry = req[r].entry /\ to.metric = req[r].metric
    BY <1>3 DEF RequestType
  <2>2. QED
    BY <1>7, <1>8, <2>1 DEF Finished
<1>9. ASSUME NEW r \in Requests, ArriveByName(r) \/ ArriveBySelector(r) \/ Respond(r)
      PROVE  QueriesItsMetric'
  BY <1>6, <1>9, FreshQuery DEF ArriveByName, ArriveBySelector, Respond, Idle
<1>10. ASSUME NEW r \in Requests, ListNames(r) PROVE QueriesItsMetric'
  <2>1. ASSUME NEW ns PROVE IsOfItsMetric([req[r] EXCEPT !.pc = "build", !.names = ns])
    BY <1>3 DEF IsOfItsMetric, RequestType
  <2>2. QED
    BY <1>6, <1>8, <1>10, <2>1 DEF ListNames
<1>11. ASSUME NEW r \in Requests, BuildQuery(r) PROVE QueriesItsMetric'
  <2>1. ASSUME req[r].metric \in DOMAIN info
        PROVE  IsOfItsMetric([req[r] EXCEPT !.pc = "query", !.entry = info[req[r].metric]])
    <3>1. req[r].metric \in MetricsOf[info[req[r].metric].namer][info[req[r].metric].series]
      BY <2>1 DEF RegistryIsOneListing, RegistersListing
    <3>2. QED
      BY <1>3, <3>1 DEF IsOfItsMetric, RequestType
  <2>2. QED
    BY <1>6, <1>8, <1>11, <2>1 DEF BuildQuery
<1>12. ASSUME NEW r \in Requests, AskPrometheus(r) PROVE QueriesItsMetric'
  <2>1. ASSUME NEW found PROVE IsOfItsMetric([req[r] EXCEPT !.pc = "match", !.samples = found])
    BY <1>3 DEF IsOfItsMetric, RequestType
  <2>2. QED
    BY <1>6, <1>8, <1>12, <2>1 DEF AskPrometheus
<1>13. ASSUME NEW r \in Requests, Match(r) PROVE QueriesItsMetric'
  <2>1. ASSUME NEW e, NEW items
        PROVE  IsOfItsMetric([req[r] EXCEPT !.pc = "done", !.outcome = "value", !.items = items,
                                            !.matchedBy = e])
    BY <1>3 DEF IsOfItsMetric, RequestType
  <2>2. QED
    BY <1>6, <1>8, <1>13, <2>1 DEF Match, Answer
<1>14. QED
  BY <1>2, <1>4, <1>5, <1>9, <1>10, <1>11, <1>12, <1>13 DEF Next, vars

\* This holds of every query of both kinds of requests.
THEOREM QueriesAreForTheirMetric == Spec => []QueriesItsMetric
<1>1. Init => QueriesItsMetric
  BY FreshQuery DEF Init, Idle, QueriesItsMetric
<1>2. Spec => []RegistryIsOneListing
  BY ReadersLeaveRegistry, OneListingServed, PTL
<1>3. QED
  BY <1>1, <1>2, QueryStep, TypeCorrect, PTL DEF Spec
=============================================================================
