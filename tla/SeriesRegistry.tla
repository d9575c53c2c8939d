--------------------------- MODULE SeriesRegistry ---------------------------
(***************************************************************************)
(* The registry of metrics found in Prometheus and the goroutine that      *)
(* keeps it up to date: periodicMetricLister and externalSeriesRegistry of *)
(* external-provider/, cachingMetricsLister and basicSeriesRegistry of     *)
(* custom-provider/.  The two providers have the same shape: a wait.Until  *)
(* loop relists, a failed relisting changes nothing, and a successful one  *)
(* is turned into a list and a map that are swapped in under a             *)
(* sync.RWMutex.                                                           *)
(*                                                                         *)
(* A relisting is not a snapshot: SeriesFanOut asks each selector at its   *)
(* own time, so each namer's series are those of some moment since the     *)
(* relisting began.  MetricsOf[n][s] is what namer n registers for series  *)
(* s: nothing if its selector or FilterSeries leaves it out or             *)
(* MetricNameForSeries fails, one name in the external registry, one entry *)
(* per resource in the custom one.                                         *)
(*                                                                         *)
(* The external registry assigns the list before the map and the custom    *)
(* one the map before the list; the write lock hides the order.            *)
(***************************************************************************)
EXTENDS Naturals, FiniteSets

CONSTANTS
  N,           \* how many namers (rules) the configuration has
  Series,      \* the series Prometheus may hold
  Metrics,     \* the metrics they may be exposed as
  MetricsOf,   \* MetricsOf[n][s] = the metrics namer n exposes series s as
  MaxRestarts, \* bound: how often /reload may restart the adapter
  MaxSeen      \* bound: how many states Prometheus goes through during a relisting

Namer == 1..N

ASSUME RegistryAssumption ==
  /\ N \in Nat
  /\ MetricsOf \in [Namer -> [Series -> SUBSET Metrics]]
  /\ MaxRestarts \in Nat /\ MaxSeen \in Nat

Entry == [namer : Namer, series : Series]

VARIABLES
  world,       \* the series Prometheus reports for the lookback window (maxAge) now
  window,      \* the states Prometheus went through since the current relisting began
  lister,      \* the relister: "idle", "listing", "store" or "storing"
  pending,     \* rawMetricsCache / newInfo: the registration about to be swapped in
  lock,        \* is the registry's write lock held?
  metrics,     \* the list served by ListAllMetrics, as a set
  info,        \* metricsInfo / info: metric |-> the namer and series that serve it
  basis,       \* history: the window of the relisting that info came from ({} before any)
  restarts     \* how often the process was restarted

registry == <<lock, metrics, info, basis>>
registryVars == <<world, window, lister, pending, registry, restarts>>

NoMetrics == [m \in {} |-> {}]

RegistryInit ==
  /\ world \in SUBSET Series
  /\ window = {}
  /\ lister = "idle"
  /\ pending = NoMetrics
  /\ lock = "free"
  /\ metrics = {}
  /\ info = NoMetrics
  /\ basis = {}
  /\ restarts = 0

-----------------------------------------------------------------------------

\* Targets come and go; every state a relisting in progress may have seen is remembered.
Scrape ==
  /\ \E w \in (SUBSET Series) \ {world} :
       /\ world' = w
       /\ lister = "listing" => Cardinality(window \cup {w}) <= MaxSeen
       /\ window' = IF lister = "listing" THEN window \cup {w} ELSE window
  /\ UNCHANGED <<lister, pending, registry, restarts>>

\* Mutant: the lock is taken before Prometheus is asked.
StartListing_Locked ==
  /\ lister = "idle"
  /\ lister' = "listing"
  /\ window' = {world}
  /\ lock' = "writer"
  /\ UNCHANGED <<world, pending, metrics, info, basis, restarts>>

\* wait.Until calls the update function at once and then after every interval.
StartListing ==
  /\ lister = "idle"
  /\ lister' = "listing"
  /\ window' = {world}
  /\ UNCHANGED <<world, pending, registry, restarts>>

\* Mutant: the loop ends at the first error.
ListingFails_GiveUp ==
  /\ lister = "listing"
  /\ lister' = "ended"
  /\ window' = {}
  /\ UNCHANGED <<world, pending, registry, restarts>>

\* ListAllMetrics returned an error: updateMetrics returns it, the old result stays.
ListingFails ==
  /\ lister = "listing"
  /\ lister' = "idle"
  /\ window' = {}
  /\ UNCHANGED <<world, pending, registry, restarts>>

\* The metrics namer n's part of a listing registers.
Exposed(listed, n) == UNION {MetricsOf[n][s] : s \in listed[n]}

\* Mutant: the earlier of two namers keeps the metric.
Registrations_FirstWins(listed) ==
  LET found == UNION {Exposed(listed, n) : n \in Namer}
      Wins(m, e) == /\ e.series \in listed[e.namer]
                    /\ m \in MetricsOf[e.namer][e.series]
                    /\ \A n \in Namer : n < e.namer => m \notin Exposed(listed, n)
  IN  {f \in [found -> Entry] : \A m \in found : Wins(m, f[m])}

\* Mutant: what was registered before is kept.
Registrations_Merge(listed) ==
  LET found == DOMAIN info \cup UNION {Exposed(listed, n) : n \in Namer}
  IN  {f \in [found -> Entry] :
         \A m \in found :
           \/ m \in Exposed(listed, f[m].namer) /\ f[m].series \in listed[f[m].namer]
              /\ m \in MetricsOf[f[m].namer][f[m].series]
           \/ m \in DOMAIN info /\ f[m] = info[m]}

(***************************************************************************)
(* The maps a listing can be turned into.  Namers are walked in the order  *)
(* of the configuration and a later one overwrites the entry of an earlier *)
(* one for the same metric; within a namer the last series in Prometheus'  *)
(* order, which is arbitrary, wins.                                        *)
(***************************************************************************)
Registrations(listed) ==
  LET found == UNION {Exposed(listed, n) : n \in Namer}
      Wins(m, e) == /\ e.series \in listed[e.namer]
                    /\ m \in MetricsOf[e.namer][e.series]
                    /\ \A n \in Namer : n > e.namer => m \notin Exposed(listed, n)
  IN  {f \in [found -> Entry] : \A m \in found : Wins(m, f[m])}

ListingSucceeds ==
  /\ lister = "listing"
  /\ \E listed \in [Namer -> window] : pending' \in Registrations(listed)
  /\ lister' = "store"
  /\ UNCHANGED <<world, window, registry, restarts>>

\* Mutant: the list is replaced before the lock is taken.
StoreList_Early ==
  /\ lister = "store" /\ lock = "free"
  /\ metrics' = DOMAIN pending
  /\ lister' = "storing"
  /\ UNCHANGED <<world, window, pending, lock, info, basis, restarts>>

\* r.mu.Lock(); r.metrics = apiMetricsCache.  The list is made from the keys of the map.
StoreList ==
  /\ lister = "store" /\ lock = "free"
  /\ lock' = "writer"
  /\ metrics' = DOMAIN pending
  /\ lister' = "storing"
  /\ UNCHANGED <<world, window, pending, info, basis, restarts>>

\* Mutant: a metric that is already registered is left alone.
NewInfo_KeepOld ==
  [m \in DOMAIN pending |-> IF m \in DOMAIN info THEN info[m] ELSE pending[m]]

\* The map that is swapped in.
NewInfo == pending

\* r.metricsInfo = rawMetricsCache; the deferred Unlock.
StoreInfo ==
  /\ lister = "storing"
  /\ info' = NewInfo
  /\ basis' = window
  /\ lock' = "free"
  /\ lister' = "idle"
  /\ pending' = NoMetrics
  /\ window' = {}
  /\ UNCHANGED <<world, metrics, restarts>>

\* The /reload handler calls os.Exit(0) and Kubernetes starts a new process, with an empty
\* registry (main.go:41-43).
Restart ==
  /\ restarts < MaxRestarts
  /\ restarts' = restarts + 1
  /\ lister' = "idle" /\ pending' = NoMetrics /\ window' = {}
  /\ lock' = "free" /\ metrics' = {} /\ info' = NoMetrics /\ basis' = {}
  /\ UNCHANGED world

Relist == StartListing \/ ListingFails \/ ListingSucceeds

RegistryNext == Scrape \/ Relist \/ StoreList \/ StoreInfo \/ Restart

RegistrySpec == RegistryInit /\ [][RegistryNext]_registryVars

-----------------------------------------------------------------------------

RegistryTypeOK ==
  /\ world \in SUBSET Series
  /\ window \in SUBSET SUBSET Series
  /\ lister \in {"idle", "listing", "store", "storing"}
  /\ DOMAIN pending \subseteq Metrics /\ \A m \in DOMAIN pending : pending[m] \in Entry
  /\ lock \in {"free", "writer"}
  /\ metrics \subseteq Metrics
  /\ DOMAIN info \subseteq Metrics /\ \A m \in DOMAIN info : info[m] \in Entry
  /\ basis \in SUBSET SUBSET Series
  /\ restarts \in 0..MaxRestarts

\* Whenever a reader can get the read lock, the list and the map agree: what
\* ListAllMetrics announces is what QueryForMetric can serve, and nothing else
\* (external_series_registry.go:101-105, series_registry.go:125-129).
ListMatchesInfo == lock = "free" => metrics = DOMAIN info

\* f is a registration of a relisting that saw the states w of Prometheus: an entry's series
\* was there at some time of the relisting and is exposed as that metric, and a series that
\* was there all the time has its metrics registered.
RegistersListing(f, w) ==
  /\ \A m \in DOMAIN f : f[m].series \in UNION w /\ m \in MetricsOf[f[m].namer][f[m].series]
  /\ w # {} => \A n \in Namer : \A s \in Series :
                (\A x \in w : s \in x) => MetricsOf[n][s] \subseteq DOMAIN f

\* The registry is what the last successful relisting may have seen: no registration of an
\* older relisting survives in it, and no part of the last one is missing, whatever
\* Prometheus did while the selectors were being asked (external_series_registry.go:74-105,
\* series_registry.go:87-129).
RegistryIsOneListing == RegistersListing(info, basis)

\* f gives every metric to a namer at least as late as any that had a series for it during
\* the whole of a relisting that saw the states w.
GivesToLaterNamer(f, w) ==
  w # {} => \A m \in DOMAIN f : \A n \in Namer : \A s \in Series :
    m \in MetricsOf[n][s] /\ (\A x \in w : s \in x) => n <= f[m].namer

\* Of the namers that expose a metric, one later in the configuration serves it whenever it
\* had a series for it during the whole of the relisting; an earlier one never takes it
\* back (the map is overwritten in the order of the namers, external_series_registry.go:88).
LaterNamerWins == GivesToLaterNamer(info, basis)

\* Relistings are answered, and succeed again and again: an assumption about Prometheus, the
\* weakest under which the registry can follow it.
PrometheusAnswers ==
  /\ WF_registryVars(ListingFails \/ ListingSucceeds)
  /\ SF_registryVars(ListingSucceeds)

\* If Prometheus answers, a metric all of whose series are gone for good is in the end not
\* served any more, in spite of failed relistings and restarts.
GoneIsDropped ==
  PrometheusAnswers =>
    \A m \in Metrics :
      <>[](\A s \in world : \A n \in Namer : m \notin MetricsOf[n][s]) => <>[](m \notin DOMAIN info)
=============================================================================
