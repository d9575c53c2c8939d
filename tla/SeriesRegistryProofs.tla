------------------------ MODULE SeriesRegistryProofs ------------------------
(***************************************************************************)
(* The safety invariants of SeriesRegistry, for any number of namers, any  *)
(* series and metrics and any way of naming them.  What a registration     *)
(* owes to the relisting it comes from is established once, when the       *)
(* listing is turned into a map (RegistrationsAreOneListing), and only     *)
(* carried along from there: through pending while the lock is waited for  *)
(* and held, and into info.                                                *)
(***************************************************************************)
EXTENDS SeriesRegistry, TLAPS

\* The type invariant is inductive on its own.
LEMMA RegistryTypeInit == RegistryInit => RegistryTypeOK
  BY RegistryAssumption DEF RegistryInit, RegistryTypeOK, NoMetrics

\* A registration maps metrics to entries.
LEMMA RegistrationsType ==
  ASSUME NEW listed \in [Namer -> SUBSET Series], NEW f \in Registrations(listed)
  PROVE  /\ DOMAIN f = UNION {Exposed(listed, n) : n \in Namer}
         /\ DOMAIN f \subseteq Metrics
         /\ \A m \in DOMAIN f : f[m] \in Entry
<1>1. f \in [UNION {Exposed(listed, n) : n \in Namer} -> Entry]
  BY DEF Registrations
<1>2. \A n \in Namer : Exposed(listed, n) \subseteq Metrics
  BY RegistryAssumption DEF Exposed
<1>3. QED
  BY <1>1, <1>2

LEMMA RegistryTypeStep == RegistryTypeOK /\ [RegistryNext]_registryVars => RegistryTypeOK'
<1> SUFFICES ASSUME RegistryTypeOK, [RegistryNext]_registryVars PROVE RegistryTypeOK'
  OBVIOUS
<1> USE DEF RegistryTypeOK, registry
<1>1. CASE Scrape
  BY <1>1 DEF Scrape
<1>2. CASE StartListing
  BY <1>2 DEF StartListing
<1>3. CASE ListingFails
  BY <1>3 DEF ListingFails
<1>4. CASE ListingSucceeds
  <2>1. PICK listed \in [Namer -> window] : pending' \in Registrations(listed)
    BY <1>4 DEF ListingSucceeds
  <2>2. listed \in [Namer -> SUBSET Series]
    BY <2>1
  <2>3. DOMAIN pending' \subseteq Metrics /\ \A m \in DOMAIN pending' : pending'[m] \in Entry
    BY <2>1, <2>2, RegistrationsType
  <2>4. QED
    BY <1>4, <2>3 DEF ListingSucceeds
<1>5. CASE StoreList
  BY <1>5 DEF StoreList
<1>6. CASE StoreInfo
  BY <1>6 DEF StoreInfo, NewInfo, NoMetrics
<1>7. CASE Restart
  BY <1>7, RegistryAssumption DEF Restart, NoMetrics
<1>8. CASE UNCHANGED registryVars
  BY <1>8 DEF registryVars
<1>9. QED
  BY <1>1, <1>2, <1>3, <1>4, <1>5, <1>6, <1>7, <1>8 DEF RegistryNext, Relist

\* Every value the relister and the registry hold is of its type, in every reachable state.
THEOREM RegistryTypeCorrect == RegistrySpec => []RegistryTypeOK
<1>1. RegistryInit => RegistryTypeOK
  BY RegistryTypeInit
<1>2. RegistryTypeOK /\ [RegistryNext]_registryVars => RegistryTypeOK'
  BY RegistryTypeStep
<1>3. QED
  BY <1>1, <1>2, PTL DEF RegistrySpec

-----------------------------------------------------------------------------

(***************************************************************************)
(* The write lock is held exactly between the two assignments; while it is *)
(* held the list already is that of the map to come, and while it is free  *)
(* list and map agree.                                                     *)
(***************************************************************************)
LockInv ==
  /\ lock = "writer" <=> lister = "storing"
  /\ lister = "storing" => metrics = DOMAIN pending
  /\ ListMatchesInfo

LEMMA LockInvStep == RegistryTypeOK /\ LockInv /\ [RegistryNext]_registryVars => LockInv'
<1> SUFFICES ASSUME RegistryTypeOK, LockInv, [RegistryNext]_registryVars PROVE LockInv'
  OBVIOUS
<1> USE DEF RegistryTypeOK, LockInv, ListMatchesInfo, registry
<1>1. CASE Scrape
  BY <1>1 DEF Scrape
<1>2. CASE StartListing
  BY <1>2 DEF StartListing
<1>3. CASE ListingFails
  BY <1>3 DEF ListingFails
<1>4. CASE ListingSucceeds
  BY <1>4 DEF ListingSucceeds
<1>5. CASE StoreList
  BY <1>5 DEF StoreList
<1>6. CASE StoreInfo
  BY <1>6 DEF StoreInfo, NewInfo
<1>7. CASE Restart
  BY <1>7 DEF Restart, NoMetrics
<1>8. CASE UNCHANGED registryVars
  BY <1>8 DEF registryVars
<1>9. QED
  BY <1>1, <1>2, <1>3, <1>4, <1>5, <1>6, <1>7, <1>8 DEF RegistryNext, Relist

\* What ListAllMetrics announces under the read lock is what QueryForMetric can serve.
THEOREM ListAgreesWithMap == RegistrySpec => []ListMatchesInfo
<1>1. RegistryInit => LockInv
  BY DEF RegistryInit, LockInv, ListMatchesInfo, NoMetrics
<1>2. RegistryTypeOK /\ LockInv /\ [RegistryNext]_registryVars => LockInv'
  BY LockInvStep
<1>3. LockInv => ListMatchesInfo
  BY DEF LockInv
<1>4. QED
  BY <1>1, <1>2, <1>3, RegistryTypeCorrect, PTL DEF RegistrySpec

-----------------------------------------------------------------------------

(***************************************************************************)
(* Whatever each namer's selector saw of the relisting's window, the map   *)
(* made of it is a registration of that window, and later namers have      *)
(* overwritten earlier ones.                                               *)
(***************************************************************************)
LEMMA RegistrationsAreOneListing ==
  ASSUME NEW w \in SUBSET SUBSET Series, NEW listed \in [Namer -> w],
         NEW f \in Registrations(listed)
  PROVE  RegistersListing(f, w) /\ GivesToLaterNamer(f, w)
<1> USE DEF Namer
<1>1. listed \in [Namer -> SUBSET Series]
  OBVIOUS
<1>2. /\ DOMAIN f = UNION {Exposed(listed, n) : n \in Namer}
      /\ \A m \in DOMAIN f : f[m] \in Entry
  BY <1>1, RegistrationsType
<1>3. ASSUME NEW m \in DOMAIN f
      PROVE  /\ f[m].series \in listed[f[m].namer]
             /\ m \in MetricsOf[f[m].namer][f[m].series]
             /\ \A n \in Namer : n > f[m].namer => m \notin Exposed(listed, n)
  BY <1>2, <1>3 DEF Registrations
<1>4. ASSUME NEW n \in Namer, NEW s \in Series, \A x \in w : s \in x
      PROVE  MetricsOf[n][s] \subseteq Exposed(listed, n)
  BY <1>4 DEF Exposed
<1>5. \A m \in DOMAIN f : f[m].series \in UNION w /\ m \in MetricsOf[f[m].namer][f[m].series]
  <2> SUFFICES ASSUME NEW m \in DOMAIN f PROVE f[m].series \in UNION w
    BY <1>3
  <2>1. f[m].namer \in Namer
    BY <1>2 DEF Entry
  <2>2. QED
    BY <2>1, <1>3
<1>6. \A n \in Namer : \A s \in Series :
        (\A x \in w : s \in x) => MetricsOf[n][s] \subseteq DOMAIN f
  BY <1>2, <1>4
<1>7. \A m \in DOMAIN f : \A n \in Namer : \A s \in Series :
        m \in MetricsOf[n][s] /\ (\A x \in w : s \in x) => n <= f[m].namer
  <2> SUFFICES ASSUME NEW m \in DOMAIN f, NEW n \in Namer, NEW s \in Series,
                      m \in MetricsOf[n][s], \A x \in w : s \in x
               PROVE  n <= f[m].namer
    OBVIOUS
  <2>1. m \in Exposed(listed, n)
    BY <1>4
  <2>2. ~(n > f[m].namer)
    BY <2>1, <1>3
  <2>3. f[m].namer \in Namer
    BY <1>2 DEF Entry
  <2>4. QED
    BY <2>2, <2>3, RegistryAssumption
<1>8. QED
  BY <1>5, <1>6, <1>7 DEF RegistersListing, GivesToLaterNamer

\* The registration waiting to be stored and the one being served each owe to the states of
\* Prometheus that their relisting saw.
ListingInv ==
  /\ lister \in {"store", "storing"} =>
       RegistersListing(pending, window) /\ GivesToLaterNamer(pending, window)
  /\ RegistersListing(info, basis) /\ GivesToLaterNamer(info, basis)

LEMMA NoMetricsIsARegistration ==
  RegistersListing(NoMetrics, {}) /\ GivesToLaterNamer(NoMetrics, {})
BY DEF RegistersListing, GivesToLaterNamer, NoMetrics

LEMMA ListingInvStep ==
  RegistryTypeOK /\ ListingInv /\ [RegistryNext]_registryVars => ListingInv'
<1> SUFFICES ASSUME RegistryTypeOK, ListingInv, [RegistryNext]_registryVars PROVE ListingInv'
  OBVIOUS
<1>0. /\ (<<info, basis>>' = <<info, basis>>
            => RegistersListing(info, basis)' /\ GivesToLaterNamer(info, basis)')
      /\ (<<pending, window>>' = <<pending, window>> /\ lister \in {"store", "storing"}
            => RegistersListing(pending, window)' /\ GivesToLaterNamer(pending, window)')
  BY DEF ListingInv, RegistersListing, GivesToLaterNamer
<1> USE DEF ListingInv, registry
<1>1. CASE Scrape
  BY <1>0, <1>1 DEF Scrape
<1>2. CASE StartListing
  BY <1>0, <1>2 DEF StartListing
<1>3. CASE ListingFails
  BY <1>0, <1>3 DEF ListingFails
<1>4. CASE ListingSucceeds
  <2>1. PICK listed \in [Namer -> window] : pending' \in Registrations(listed)
    BY <1>4 DEF ListingSucceeds
  <2>2. window \in SUBSET SUBSET Series /\ window' = window
    BY <1>4 DEF ListingSucceeds, RegistryTypeOK
  <2>3. RegistersListing(pending', window) /\ GivesToLaterNamer(pending', window)
    BY <2>1, <2>2, RegistrationsAreOneListing
  <2>4. (RegistersListing(pending, window) /\ GivesToLaterNamer(pending, window))'
    BY <2>2, <2>3 DEF RegistersListing, GivesToLaterNamer
  <2>5. QED
    BY <1>0, <1>4, <2>4 DEF ListingSucceeds
<1>5. CASE StoreList
  BY <1>0, <1>5 DEF StoreList
<1>6. CASE StoreInfo
  <2>1. lister' = "idle" /\ info' = pending /\ basis' = window /\ lister = "storing"
    BY <1>6 DEF StoreInfo, NewInfo
  <2>2. (RegistersListing(info, basis) /\ GivesToLaterNamer(info, basis))'
    BY <2>1 DEF RegistersListing, GivesToLaterNamer
  <2>3. QED
    BY <2>1, <2>2
<1>7. CASE Restart
  <2>1. lister' = "idle" /\ info' = NoMetrics /\ basis' = {}
    BY <1>7 DEF Restart
  <2>2. (RegistersListing(info, basis) /\ GivesToLaterNamer(info, basis))'
    BY <2>1 DEF RegistersListing, GivesToLaterNamer, NoMetrics
  <2>3. QED
    BY <2>1, <2>2
<1>8. CASE UNCHANGED registryVars
  BY <1>0, <1>8 DEF registryVars
<1>9. QED
  BY <1>1, <1>2, <1>3, <1>4, <1>5, <1>6, <1>7, <1>8 DEF RegistryNext, Relist

LEMMA ListingInvCorrect == RegistrySpec => []ListingInv
<1>1. RegistryInit => ListingInv
  BY NoMetricsIsARegistration DEF RegistryInit, ListingInv
<1>2. RegistryTypeOK /\ ListingInv /\ [RegistryNext]_registryVars => ListingInv'
  BY ListingInvStep
<1>3. QED
  BY <1>1, <1>2, RegistryTypeCorrect, PTL DEF RegistrySpec

\* Whatever Prometheus does while it is asked, and whenever the process is restarted, the
\* registry served is that of one relisting: nothing older in it and nothing missing.
THEOREM OneListingServed == RegistrySpec => []RegistryIsOneListing
<1>1. ListingInv => RegistryIsOneListing
  BY DEF ListingInv, RegistryIsOneListing
<1>2. QED
  BY <1>1, ListingInvCorrect, PTL

\* A metric exposed by several namers is served by one at least as late as any that had a
\* series for it all through the relisting.
THEOREM LaterNamerServes == RegistrySpec => []LaterNamerWins
<1>1. ListingInv => LaterNamerWins
  BY DEF ListingInv, LaterNamerWins
<1>2. QED
  BY <1>1, ListingInvCorrect, PTL

\* If Prometheus did not change during a relisting, there is nothing left to chance in the
\* registry but the series within a namer: it has the metrics of all namers and no other, and
\* the last namer that exposes a metric serves it.
ExactWhenQuiet ==
  \A w \in SUBSET Series :
    basis = {w} =>
      /\ DOMAIN info = UNION {MetricsOf[p[1]][p[2]] : p \in Namer \X w}
      /\ \A m \in DOMAIN info : \A n \in Namer : \A s \in w :
           m \in MetricsOf[n][s] => n <= info[m].namer

LEMMA QuietListing == ASSUME RegistryTypeOK, ListingInv PROVE ExactWhenQuiet
<1> SUFFICES ASSUME NEW w \in SUBSET Series, basis = {w}
             PROVE  /\ DOMAIN info = UNION {MetricsOf[p[1]][p[2]] : p \in Namer \X w}
                    /\ \A m \in DOMAIN info : \A n \in Namer : \A s \in w :
                         m \in MetricsOf[n][s] => n <= info[m].namer
  BY DEF ExactWhenQuiet
<1> DEFINE all == UNION {MetricsOf[p[1]][p[2]] : p \in Namer \X w}
<1>1. RegistersListing(info, {w}) /\ GivesToLaterNamer(info, {w})
  BY DEF ListingInv
<1>2. ASSUME NEW m \in DOMAIN info PROVE m \in all
  <2>1. info[m].series \in w /\ m \in MetricsOf[info[m].namer][info[m].series]
    BY <1>1 DEF RegistersListing
  <2>2. info[m].namer \in Namer
    BY DEF RegistryTypeOK, Entry
  <2>3. <<info[m].namer, info[m].series>> \in Namer \X w
    BY <2>1, <2>2
  <2>4. QED
    BY <2>1, <2>3
<1>3. ASSUME NEW m \in all PROVE m \in DOMAIN info
  <2>1. PICK n \in Namer, s \in w : m \in MetricsOf[n][s]
    BY <1>3
  <2>2. s \in Series /\ \A x \in {w} : s \in x
    BY <2>1
  <2>3. MetricsOf[n][s] \subseteq DOMAIN info
    BY <1>1, <2>2 DEF RegistersListing
  <2>4. QED
    BY <2>1, <2>3
<1>4. ASSUME NEW m \in DOMAIN info, NEW n \in Namer, NEW s \in w, m \in MetricsOf[n][s]
      PROVE  n <= info[m].namer
  BY <1>1, <1>4 DEF GivesToLaterNamer
<1>5. DOMAIN info = all
  BY <1>2, <1>3
<1>6. QED
  BY <1>4, <1>5

\* After a relisting during which Prometheus did not change, the registry has exactly the
\* metrics the namers expose, each served by the last of them
\* (external_series_registry.go:74-105, series_registry.go:87-129).
THEOREM QuietListingIsExact == RegistrySpec => []ExactWhenQuiet
<1>1. RegistryTypeOK /\ ListingInv => ExactWhenQuiet
  BY QuietListing
<1>2. QED
  BY <1>1, RegistryTypeCorrect, ListingInvCorrect, PTL

-----------------------------------------------------------------------------
(***************************************************************************)
(* From SeriesListing to this module.  There the listing that is returned  *)
(* leaves out the namers whose selector was answered with nil, namers with *)
(* the same selector share one answer, and a namer's series are those of   *)
(* its selector that FilterSeries keeps.  Here ListingSucceeds lets every  *)
(* namer see some state of the window for itself.  No registry is lost by  *)
(* that: what the code makes of any such listing is among Registrations.   *)
(***************************************************************************)

\* The maps the listing `result` of some of the namers can be turned into.
RegistrationsOf(result) ==
  LET Of(n)  == UNION {MetricsOf[n][s] : s \in result[n]}
      found  == UNION {Of(n) : n \in DOMAIN result}
      Wins(m, e) == /\ e.namer \in DOMAIN result
                    /\ e.series \in result[e.namer]
                    /\ m \in MetricsOf[e.namer][e.series]
                    /\ \A n \in DOMAIN result : n > e.namer => m \notin Of(n)
  IN  {f \in [found -> Entry] : \A m \in found : Wins(m, f[m])}

\* Each selector was answered with the series it matches in some state of the window, or with
\* nil if it matched none; the map made of the answers is one ListingSucceeds may store
\* (basic_metric_lister.go:81-157, provider.go:240-299 of custom-provider).
THEOREM ListingsAreCovered ==
  ASSUME NEW w \in SUBSET SUBSET Series,
         NEW Selectors, NEW selector \in [Namer -> Selectors],
         NEW matches \in [Selectors -> SUBSET Series],
         NEW keeps \in [Namer -> SUBSET Series],
         \A n \in Namer : \A s \in Series :
           s \notin matches[selector[n]] \cap keeps[n] => MetricsOf[n][s] = {},
         NEW seen \in [Selectors -> w],
         NEW nils \in SUBSET {q \in Selectors : seen[q] \cap matches[q] = {}}
  PROVE  LET result == [n \in {m \in Namer : selector[m] \notin nils} |->
                          (seen[selector[n]] \cap matches[selector[n]]) \cap keeps[n]]
         IN  \E listed \in [Namer -> w] : RegistrationsOf(result) = Registrations(listed)
<1> DEFINE result == [n \in {m \in Namer : selector[m] \notin nils} |->
                        (seen[selector[n]] \cap matches[selector[n]]) \cap keeps[n]]
           listed == [n \in Namer |-> seen[selector[n]]]
           Of(n) == UNION {MetricsOf[n][s] : s \in result[n]}
           found == UNION {Of(n) : n \in DOMAIN result}
           all == UNION {Exposed(listed, n) : n \in Namer}
<1>1. listed \in [Namer -> w]
  OBVIOUS
<1>2. DOMAIN result = {m \in Namer : selector[m] \notin nils}
  OBVIOUS
<1>3. ASSUME NEW n \in Namer, NEW s \in listed[n], NEW m \in MetricsOf[n][s]
      PROVE  n \in DOMAIN result /\ s \in result[n]
  <2>1. s \in seen[selector[n]] /\ s \in Series /\ selector[n] \in Selectors
    BY <1>1
  <2>2. s \in matches[selector[n]] /\ s \in keeps[n]
    BY <2>1
  <2>3. selector[n] \notin nils
    BY <2>1, <2>2
  <2>4. QED
    BY <2>1, <2>2, <2>3
<1>4. \A n \in DOMAIN result : n \in Namer /\ result[n] \subseteq listed[n]
  OBVIOUS
<1> HIDE DEF result, listed
<1>5. \A n \in DOMAIN result : Of(n) = Exposed(listed, n)
  BY <1>3, <1>4 DEF Exposed
<1>6. \A n \in Namer : n \notin DOMAIN result => Exposed(listed, n) = {}
  BY <1>3 DEF Exposed
<1>7. found = all
  <2>1. \A m : m \in found => m \in all
    BY <1>4, <1>5
  <2>2. \A m : m \in all => m \in found
    BY <1>5, <1>6
  <2>3. QED
    BY <2>1, <2>2
<1> DEFINE Given(m, e) == /\ e.namer \in DOMAIN result
                           /\ e.series \in result[e.namer]
                           /\ m \in MetricsOf[e.namer][e.series]
                           /\ \A n \in DOMAIN result : n > e.namer => m \notin Of(n)
           Wins(m, e) == /\ e.series \in listed[e.namer]
                         /\ m \in MetricsOf[e.namer][e.series]
                         /\ \A n \in Namer : n > e.namer => m \notin Exposed(listed, n)
<1>8. ASSUME NEW m, NEW e \in Entry PROVE Given(m, e) <=> Wins(m, e)
  <2>1. e.namer \in Namer
    BY DEF Entry
  <2>2. (\A n \in DOMAIN result : n > e.namer => m \notin Of(n))
        <=> (\A n \in Namer : n > e.namer => m \notin Exposed(listed, n))
    <3> HIDE DEF Of
    <3>1. QED
      BY <1>4, <1>5, <1>6
  <2>3. m \in MetricsOf[e.namer][e.series] =>
          (e.series \in listed[e.namer] <=> e.namer \in DOMAIN result /\ e.series \in result[e.namer])
    BY <1>3, <1>4, <2>1
  <2> HIDE DEF Of
  <2>4. QED
    BY <2>2, <2>3
<1>9. RegistrationsOf(result) = Registrations(listed)
  <2>1. RegistrationsOf(result) = {f \in [found -> Entry] : \A m \in found : Given(m, f[m])}
    BY Zenon DEF RegistrationsOf
  <2>2. Registrations(listed) = {f \in [all -> Entry] : \A m \in all : Wins(m, f[m])}
    BY Zenon DEF Registrations
  <2> HIDE DEF Of, found, all, Given, Wins
  <2>3. ASSUME NEW f \in [all -> Entry]
        PROVE  (\A m \in all : Given(m, f[m])) <=> (\A m \in all : Wins(m, f[m]))
    <3>1. \A m \in all : f[m] \in Entry
      OBVIOUS
    <3>2. QED
      BY <1>8, <3>1
  <2>4. QED
    BY <1>7, <2>1, <2>2, <2>3, Zenon
<1>10. QED
  BY <1>1, <1>9 DEF result
=============================================================================
