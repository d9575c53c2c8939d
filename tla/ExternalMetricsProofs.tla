----------------------- MODULE ExternalMetricsProofs -----------------------
(***************************************************************************)
(* The safety invariants of ExternalMetrics, for any number of requests    *)
(* and any registry.  The relister's steps are those of SeriesRegistry, so *)
(* its invariants are carried over step by step (RelisterStep); what is    *)
(* added is the gap between a request's two reads.                         *)
(***************************************************************************)
EXTENDS ExternalMetrics, SeriesRegistryProofs

\* Whatever happens here, the registry makes one of its own steps or none.
LEMMA RelisterStep == [Next]_vars => [RegistryNext]_registryVars
<1> SUFFICES ASSUME [Next]_vars PROVE [RegistryNext]_registryVars
  OBVIOUS
<1>1. CASE (Scrape \/ Relist \/ StoreList) /\ UNCHANGED req
  BY <1>1 DEF RegistryNext
<1>2. CASE SwapStep \/ RestartStep
  BY <1>2 DEF SwapStep, RestartStep, RegistryNext
<1>3. CASE \E r \in Requests : \/ Arrive(r) \/ ServeFromAlibaba(r) \/ ReadList(r) \/ LookUp(r)
                               \/ AskPrometheus(r) \/ Respond(r)
  BY <1>3 DEF Arrive, ServeFromAlibaba, ReadList, LookUp, AskPrometheus, Respond
<1>4. CASE UNCHANGED vars
  BY <1>4 DEF vars
<1>5. QED
  BY <1>1, <1>2, <1>3, <1>4 DEF Next

-----------------------------------------------------------------------------

RequestType ==
  [pc : {"idle", "route", "lookup", "query", "done"}, metric : Asked,
   entry : Entry \cup {NoEntry}, outcome : Outcome, swapped : BOOLEAN]

LEMMA FreshRequest ==
  ASSUME NEW m \in Asked, NEW where \in {"idle", "route"}
  PROVE  Request(where, m) \in RequestType
BY DEF Request, RequestType, Outcome

LEMMA TypeInit == Init => TypeOK
<1> SUFFICES ASSUME Init PROVE TypeOK
  OBVIOUS
<1>1. PICK m \in Asked : req = [r \in Requests |-> Request("idle", m)]
  BY DEF Init
<1>2. req \in [Requests -> RequestType]
  BY <1>1, FreshRequest
<1>3. QED
  BY <1>2, RegistryTypeInit DEF Init, TypeOK, RequestType

LEMMA TypeStep == TypeOK /\ [Next]_vars => TypeOK'
<1> SUFFICES ASSUME TypeOK, [Next]_vars PROVE TypeOK'
  OBVIOUS
<1>1. RegistryTypeOK /\ req \in [Requests -> RequestType]
  BY DEF TypeOK, RequestType
<1>2. RegistryTypeOK'
  BY <1>1, RelisterStep, RegistryTypeStep
<1>3. req' \in [Requests -> RequestType]
  <2>1. CASE UNCHANGED req
    BY <1>1, <2>1
  <2>2. CASE SwapStep
    BY <1>1, <2>2 DEF SwapStep, RequestType
  <2>3. CASE RestartStep
    <3>1. \A r \in Requests : req[r].metric \in Asked
      BY <1>1 DEF RequestType
    <3>2. QED
      BY <2>3, <3>1, FreshRequest DEF RestartStep
  <2>4. ASSUME NEW r \in Requests, Arrive(r)
        PROVE  req' \in [Requests -> RequestType]
    <3>1. PICK m \in Asked : req' = [req EXCEPT ![r] = Request("route", m)]
      BY <2>4 DEF Arrive
    <3>2. QED
      BY <1>1, <3>1, FreshRequest
  <2>5. ASSUME NEW r \in Requests, NEW how \in Outcome, Finished(r, how)
        PROVE  req' \in [Requests -> RequestType]
    <3>1. [req[r] EXCEPT !.pc = "done", !.outcome = how] \in RequestType
      BY <1>1, <2>5 DEF RequestType
    <3>2. req' = [req EXCEPT ![r] = [req[r] EXCEPT !.pc = "done", !.outcome = how]]
      BY <1>1, <2>5 DEF Finished, RequestType
    <3>3. QED
      BY <1>1, <3>1, <3>2
  <2>6. ASSUME NEW r \in Requests, ServeFromAlibaba(r) \/ AskPrometheus(r)
        PROVE  req' \in [Requests -> RequestType]
    BY <2>5, <2>6 DEF ServeFromAlibaba, AskPrometheus, Outcome
  <2>7. ASSUME NEW r \in Requests, ReadList(r)
        PROVE  req' \in [Requests -> RequestType]
    <3>1. CASE req' = [req EXCEPT ![r].pc = "lookup"]
      BY <1>1, <3>1 DEF RequestType
    <3>2. CASE Finished(r, "unmatched")
      BY <2>5, <3>2 DEF Outcome
    <3>3. QED
      BY <2>7, <3>1, <3>2 DEF ReadList
  <2>8. ASSUME NEW r \in Requests, LookUp(r)
        PROVE  req' \in [Requests -> RequestType]
    <3>1. CASE /\ req[r].metric \in DOMAIN info
               /\ req' = [req EXCEPT ![r].pc = "query", ![r].entry = info[req[r].metric]]
      <4>1. info[req[r].metric] \in Entry
        BY <1>1, <3>1 DEF RegistryTypeOK
      <4>2. QED
        BY <1>1, <3>1, <4>1 DEF RequestType
    <3>2. CASE Finished(r, "internal") \/ Finished(r, "notFound")
      BY <2>5, <3>2 DEF Outcome
    <3>3. QED
      BY <2>8, <3>1, <3>2 DEF LookUp
  <2>9. ASSUME NEW r \in Requests, Respond(r)
        PROVE  req' \in [Requests -> RequestType]
    <3>1. req[r].metric \in Asked
      BY <1>1 DEF RequestType
    <3>2. QED
      BY <1>1, <2>9, <3>1, FreshRequest DEF Respond
  <2>10. QED
    BY <2>1, <2>2, <2>3, <2>4, <2>6, <2>7, <2>8, <2>9 DEF Next, vars
<1>4. QED
  BY <1>2, <1>3 DEF TypeOK, RequestType

\* The registry and every request are of their types, in every reachable state.
THEOREM TypeCorrect == Spec => []TypeOK
<1>1. QED
  BY TypeInit, TypeStep, PTL DEF Spec

-----------------------------------------------------------------------------

(***************************************************************************)
(* The gap.  The list read under the lock is that of the map (LockInv), so *)
(* a request about to look its metric up finds it unless the map has been  *)
(* swapped; an outcome "notFound" is only ever given in that case.         *)
(***************************************************************************)
GapInv ==
  \A r \in Requests :
    /\ req[r].pc = "lookup" /\ ~req[r].swapped => req[r].metric \in DOMAIN info
    /\ req[r].outcome = "notFound" => req[r].swapped

LEMMA GapInit == Init => LockInv /\ GapInv
BY DEF Init, RegistryInit, Request, GapInv, LockInv, ListMatchesInfo, NoMetrics

LEMMA GapStep == TypeOK /\ LockInv /\ GapInv /\ [Next]_vars => GapInv'
<1> SUFFICES ASSUME TypeOK, LockInv, GapInv, [Next]_vars PROVE GapInv'
  OBVIOUS
<1>1. req \in [Requests -> RequestType]
  BY DEF TypeOK, RequestType
<1> USE DEF GapInv
<1>2. CASE UNCHANGED <<req, info>>
  BY <1>2
<1>3. CASE SwapStep
  \* the map changes, and every request in the gap is marked
  BY <1>1, <1>3 DEF SwapStep, RequestType
<1>4. CASE RestartStep
  BY <1>1, <1>4 DEF RestartStep, Request
<1>5. ASSUME NEW r \in Requests, UNCHANGED registryVars,
             NEW q, req' = [req EXCEPT ![r] = q],
             q.pc = "lookup" /\ ~q.swapped => q.metric \in DOMAIN info,
             q.outcome = "notFound" => q.swapped
      PROVE  GapInv'
  <2>1. info' = info
    BY <1>5 DEF registryVars, registry
  <2>2. QED
    BY <1>1, <1>5, <2>1
<1>6. ASSUME NEW r \in Requests, Arrive(r) PROVE GapInv'
  <2>1. PICK m \in Asked : req' = [req EXCEPT ![r] = Request("route", m)]
    BY <1>6 DEF Arrive
  <2>2. QED
    BY <1>5, <1>6, <2>1 DEF Arrive, Request
<1>7. ASSUME NEW r \in Requests, ServeFromAlibaba(r) \/ AskPrometheus(r) PROVE GapInv'
  BY <1>1, <1>7 DEF ServeFromAlibaba, AskPrometheus, Finished, registryVars, registry, RequestType
<1>8. ASSUME NEW r \in Requests, ReadList(r) PROVE GapInv'
  \* the lock is free: the list is the domain of the map
  BY <1>1, <1>8 DEF ReadList, CanRead, Finished, LockInv, ListMatchesInfo, registryVars,
                    registry, RequestType
<1>9. ASSUME NEW r \in Requests, LookUp(r) PROVE GapInv'
  BY <1>1, <1>9 DEF LookUp, Finished, registryVars, registry, RequestType
<1>10. ASSUME NEW r \in Requests, Respond(r) PROVE GapInv'
  BY <1>5, <1>10 DEF Respond, Request
<1>11. CASE (Scrape \/ Relist \/ StoreList) /\ UNCHANGED req
  <2>1. info' = info
    BY <1>11 DEF Scrape, Relist, StartListing, ListingFails, ListingSucceeds, StoreList, registry
  <2>2. QED
    BY <1>2, <1>11, <2>1
<1>12. CASE UNCHANGED vars
  BY <1>2, <1>12 DEF vars, registryVars, registry
<1>13. QED
  BY <1>3, <1>4, <1>6, <1>7, <1>8, <1>9, <1>10, <1>11, <1>12 DEF Next

\* A request that found its metric in the list is told it does not exist only after a whole
\* swap came between its two reads.
THEOREM ListedIsFound == Spec => []ListedThenFound
<1>1. TypeOK /\ LockInv /\ [Next]_vars => LockInv'
  BY RelisterStep, LockInvStep DEF TypeOK
<1>2. GapInv => ListedThenFound
  BY DEF GapInv, ListedThenFound
<1>3. QED
  BY GapInit, <1>1, GapStep, <1>2, TypeCorrect, PTL DEF Spec

-----------------------------------------------------------------------------

\* The requests only read: seen without them, the system is the relister and its registry
\* alone, whatever is asked for and whenever (external_series_registry.go:108-127).
THEOREM ReadersLeaveRegistry == Spec => RegistrySpec
<1>1. Init => RegistryInit
  BY DEF Init
<1>2. QED
  BY <1>1, RelisterStep, PTL DEF Spec, RegistrySpec

\* So what the registry promises holds while external metrics are served from it: list and map
\* agree whenever they can be read, they are those of one relisting, later namers win.
THEOREM ServedRegistry == Spec => [](ListMatchesInfo /\ RegistryIsOneListing /\ LaterNamerWins)
<1>1. QED
  BY ReadersLeaveRegistry, ListAgreesWithMap, OneListingServed, LaterNamerServes, PTL

\* What a request q was given of the registry: an entry that exposes the metric it asks for.
EntryOf(q) == q.entry # NoEntry => q.metric \in MetricsOf[q.entry.namer][q.entry.series]

QueriesItsMetric == \A r \in Requests : EntryOf(req[r])

LEMMA EntryStep ==
  TypeOK /\ RegistryIsOneListing /\ QueriesItsMetric /\ [Next]_vars => QueriesItsMetric'
<1> SUFFICES ASSUME TypeOK, RegistryIsOneListing, QueriesItsMetric, [Next]_vars
             PROVE  QueriesItsMetric'
  OBVIOUS
<1>1. req \in [Requests -> RequestType]
  BY DEF TypeOK, RequestType
<1>2. CASE UNCHANGED req
  BY <1>2 DEF QueriesItsMetric
<1>3. \A r \in Requests : EntryOf(req[r]) /\ req[r] \in RequestType
  BY <1>1 DEF QueriesItsMetric
<1>4. CASE SwapStep
  <2>1. ASSUME NEW r \in Requests PROVE EntryOf(req'[r])
    <3>1. req'[r].entry = req[r].entry /\ req'[r].metric = req[r].metric
      BY <1>3, <1>4 DEF SwapStep, RequestType
    <3>2. QED
      BY <1>3, <3>1 DEF EntryOf
  <2>2. QED
    BY <2>1 DEF QueriesItsMetric
<1>5. \A where, m : EntryOf(Request(where, m))
  BY DEF EntryOf, Request
<1>6. CASE RestartStep
  BY <1>5, <1>6 DEF RestartStep, QueriesItsMetric
<1>7. ASSUME NEW r \in Requests, NEW q, EntryOf(q), req' = [req EXCEPT ![r] = q]
      PROVE  QueriesItsMetric'
  BY <1>1, <1>3, <1>7 DEF QueriesItsMetric
<1>8. ASSUME NEW r \in Requests, Arrive(r) \/ Respond(r) PROVE QueriesItsMetric'
  <2>1. PICK where, m : req' = [req EXCEPT ![r] = Request(where, m)]
    BY <1>8 DEF Arrive, Respond
  <2>2. QED
    BY <1>5, <1>7, <2>1
<1>9. ASSUME NEW r \in Requests, NEW q \in RequestType, req' = [req EXCEPT ![r] = q],
             q.entry = req[r].entry, q.metric = req[r].metric
      PROVE  QueriesItsMetric'
  <2>1. EntryOf(q)
    BY <1>3, <1>9 DEF EntryOf
  <2>2. QED
    BY <1>7, <1>9, <2>1
<1>10. ASSUME NEW r \in Requests, NEW how \in Outcome, Finished(r, how) PROVE QueriesItsMetric'
  <2> DEFINE q == [req[r] EXCEPT !.pc = "done", !.outcome = how]
  <2>1. q \in RequestType /\ q.entry = req[r].entry /\ q.metric = req[r].metric
    BY <1>3 DEF RequestType
  <2>2. req' = [req EXCEPT ![r] = q]
    BY <1>1, <1>10 DEF Finished, RequestType
  <2>3. QED
    BY <1>9, <2>1, <2>2
<1>11. ASSUME NEW r \in Requests, ServeFromAlibaba(r) \/ AskPrometheus(r) PROVE QueriesItsMetric'
  BY <1>10, <1>11 DEF ServeFromAlibaba, AskPrometheus, Outcome
<1>12. ASSUME NEW r \in Requests, ReadList(r) PROVE QueriesItsMetric'
  <2>1. CASE req' = [req EXCEPT ![r].pc = "lookup"]
    <3> DEFINE q == [req[r] EXCEPT !.pc = "lookup"]
    <3>1. q \in RequestType /\ q.entry = req[r].entry /\ q.metric = req[r].metric
      BY <1>3 DEF RequestType
    <3>2. req' = [req EXCEPT ![r] = q]
      BY <1>1, <2>1 DEF RequestType
    <3>3. QED
      BY <1>9, <3>1, <3>2
  <2>2. QED
    BY <1>10, <1>12, <2>1 DEF ReadList, Outcome
<1>13. ASSUME NEW r \in Requests, LookUp(r) PROVE QueriesItsMetric'
  <2>1. CASE /\ req[r].metric \in DOMAIN info
             /\ req' = [req EXCEPT ![r].pc = "query", ![r].entry = info[req[r].metric]]
    <3> DEFINE q == [req[r] EXCEPT !.pc = "query", !.entry = info[req[r].metric]]
    <3>1. q.entry = info[req[r].metric] /\ q.metric = req[r].metric
      BY <1>3 DEF RequestType
    <3>2. EntryOf(q)
      BY <2>1, <3>1 DEF EntryOf, RegistryIsOneListing, RegistersListing
    <3>3. req' = [req EXCEPT ![r] = q]
      BY <1>1, <2>1 DEF RequestType
    <3>4. QED
      BY <1>7, <3>2, <3>3
  <2>2. QED
    BY <1>10, <1>13, <2>1 DEF LookUp, Outcome
<1>14. QED
  BY <1>2, <1>4, <1>6, <1>8, <1>11, <1>12, <1>13 DEF Next, vars

\* Whatever is swapped in after a request has read its entry, the query it sends is one for the
\* metric it was asked for, made by a namer that exposes it and from a series it exposes it as
\* (external_series_registry.go:115-127, provider.go:42-65 of external-provider).
THEOREM QueriesAreForTheirMetric == Spec => []QueriesItsMetric
<1>1. Init => QueriesItsMetric
  BY DEF Init, Request, QueriesItsMetric, EntryOf
<1>2. Spec => []RegistryIsOneListing
  BY ReadersLeaveRegistry, OneListingServed, PTL
<1>3. QED
  BY <1>1, <1>2, EntryStep, TypeCorrect, PTL DEF Spec
=============================================================================
