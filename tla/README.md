# A TLA+ verification of alibaba-cloud-metrics-adapter

The adapter serves the Kubernetes custom and external metrics APIs. It answers
from Prometheus, whose series it relists periodically, or from Alibaba Cloud
services, and it has an HTTP server of its own for cost reports that are
computed from its own external metrics. This directory holds TLA+ modules of
the parts in which order, concurrency, failure or arithmetic matter, the TLC
configurations that check them on small instances, and TLAPS proofs.

To check: `tlc -config MCx.cfg MCx.tla` for the runs in the table of section 3,
`tlapm M.tla` for the eight modules `*Proofs.tla`.

## 1. Inventory

Paths are under `src/pkg/` unless they begin with `src/`.

| Component | State | Operations | Hard behaviour | What makes it correct |
|---|---|---|---|---|
| Relisting: `external-provider/basic_metric_lister.go`, same code in `custom-provider/provider.go` | per call: two buffered channels, `selectors`, `seriesCacheByQuery` | `ListAllMetrics`, `updateMetrics` | one goroutine per distinct selector, arbitrary order of pushes, early return at the first error, `close` | no push blocks or hits a closed channel, the collector is never starved, no goroutine leaks, the result is what an atomic relisting could return |
| Registries and relister: `external_series_registry.go`, `periodic_metric_lister.go`, `custom-provider/series_registry.go` | list, map, RWMutex, most recent result | `wait.Until` loop, swap, `/reload` restart | relistings that fail or hang, a Prometheus that changes meanwhile, readers between the two assignments, namers that compete for a name | list and map agree, the registry is one relisting, later namers win, it follows Prometheus in the end |
| External metrics: `providerManager.go`, `external-provider/provider.go`, `metric_converter.go`, `alibabaCloudProvider/` | none of its own | `GetExternalMetric`, `ListAllExternalMetrics` | two reads of the registry under two locks, provider precedence | a listed metric is missing only after a whole swap; requests end, also while a relisting hangs |
| Custom metrics: `custom-provider/provider.go` | none of its own | `GetMetricByName`, `GetMetricBySelector` | query and match use the registry at two times; samples may have the labels of both namers | each value is given for the resource it was measured at, and none is left out, while the metric stays with its label |
| Cost ranges: `costv2/cost_manager.go` (`GetRangeAllocation`, handlers, `preprocessFilter`) | one request's window, step, filter | `/v2/cost`, `/v2/allocation` | loop bounds, a filter that is changed in place by each step while the cluster changes, API errors that are only logged | the sets tile the window, every step has the same pods, the filter is not lost silently, the loop ends |
| One allocation: `ComputeAllocation`, `types/allocation.go` | pod map, allocation set | twelve list requests, idle cost, aggregation | each list may fail or show other pods than the one before; divisions by zero | costs and ratios are conserved |
| Windows, steps: `costv2/types/window.go`, `util/timeutil.go` | none | parsing | calendar arithmetic, local time and UTC, overflow | a named window is the local day, week or month; windows move forward; no overflow goes unnoticed in a step |
| Filters, label selectors: `costv2/types/filter.go` | none | `ParseFilter`, `GetLabelSelectorStr` | terms that run into each other, requirements that cannot be made | a filter arrives whole |
| Cost source, version 2: `costv2/cost_metrics.go` | none | `GetExternalMetric` | the window loses its time zone on the way; bills at midnight; resolution against window | the query is about the window, each bill is counted once, sums cover the window to a step |
| Cost version 1: `cost/cost_http.go`, `cost/cost.go` | the package variable `CostTotal` | `/cost`, `GetExternalMetric` | unsynchronized requests share the divisor; a selector goes through five conversions | a request divides by its own total and shows the pods it asked for |
| SLS source: `metrics/sls/` | none | `GetExternalMetric` | retries of incomplete answers, labels with any number, an interval that is fixed before the first try | values from complete answers, retries that end, rates over the interval they count |
| SLB, CMS, AHAS sources: `metrics/slb/`, `metrics/cms/`, `metrics/ahas/` | none | `GetExternalMetric` | durations that overflow, two readings of the clock, annotations of several deployments in one pair of names | the span asked for is long enough, application and AHAS namespace come from one deployment |
| Manager of sources: `metrics/manager.go` | a map filled in `init` | lookup | none | a metric goes to the source that registered it |
| Credentials `utils/client.go`; client and flags `prometheusProvider/prometheus.go`, `utils/metrics.go`; start `src/main.go` | files, environment | start-up I/O | `/reload` | - |

How they interact: the relister calls Prometheus through the fan-out and swaps
the registry; requests from the API server read the registry under the read
lock and then call Prometheus without it; the cost endpoints are clients of the
API server, which routes their list requests back to the adapter's external
metrics, where the cost sources ask Prometheus. Nothing is persisted: a restart
starts with empty registries.

## 2. Modules

| Module | Models | State and actions |
|---|---|---|
| `SeriesListing` | what a relisting promises | the answers per selector; `Reply`, `Succeed`, `Fail` |
| `SeriesFanOut` | the goroutines and channels that carry it out | `pc` and `next` are the collector's position, `goroutine[n]` that of namer n's goroutine, channels are sequences of the namers whose values are in them; one action per channel operation, loop turn and return |
| `SeriesRegistry` | relister, registry and Prometheus beside it | `world` is Prometheus, `window` the states it went through during the current relisting; `StartListing`, `ListingFails`, `ListingSucceeds`, then the two assignments `StoreList` and `StoreInfo` with the lock between them, `Restart` |
| `ExternalMetrics` | requests for external metrics beside the relister (extends `SeriesRegistry`) | one record per request; `Arrive`, `ServeFromAlibaba`, `ReadList`, `LookUp`, `AskPrometheus`, `Respond` |
| `CustomMetrics` | requests for custom metrics beside the relister (extends `SeriesRegistry`) | a sample is a function from labels to names; one record per request, with the entry the query was built from and that the samples were matched by; `ArriveByName`, `ArriveBySelector`, `ListNames`, `BuildQuery`, `AskPrometheus`, `Match`, `Respond` |
| `AllocationRange` | one request of the cost API: checks, loop, filter | time is counted in units from the start of the window, a step may fail or panic as `CostAllocation` does; `Handle`, `NextStep`, `ResolveName`, `SetFilter`, `SetComputed` or `SetFails`, `LoopEnds`, `AggregateRange`, and `Churn` for the cluster |
| `Fractions` | the arithmetic of `CostAllocation` | exact fractions for float64; a denominator 0 stands for NaN and infinities |
| `CostAllocation` | one step of a range | one action per list that is fetched, `Compute`, `Aggregate`; a nil list or an unknown pod leads to `panic` |
| `CostWindow` | the texts of window and step of a cost request (a function, with a clock beside it) | instants and durations are integers in half seconds; `Pass` moves the clock, `ParseWindow` and `ParseStep` answer a text at that time |
| `CostFilter` | the text of a filter, from `ParseFilter` to the matchers (operators only) | a text is a sequence of terms; `Parts`, `Assign`, `Selector`, `Matchers` are the conversions it goes through |
| `CostQuery` | what Prometheus is asked for a window and a filter (extends `CostWindow` and `CostFilter`) | `query` is the last query; `Ask` makes one, at once or later, `Return` ends it |
| `CostHttp` | concurrent requests to `/cost` | `costTotal` says who stored each of its words; `FetchTotal` and `StoreTotal` are the two halves of the assignment, `DivideValue` and `DivideScale` those of the division |
| `CostRequests` | the same with what requests ask for (extends `CostHttp`) | `asked` holds the parameters; each action of `CostHttp` with what the selectors let through |
| `SlsSource` | one request to the SLS source | `ReadParams`, `MakeClient`, `GetLogs`, then `TakeNothing`, `Retry` or `TakeValue`; `GiveUp` |
| `CloudSources` | one request to any of the four cloud sources, through their manager (extends `SlsSource`) | `ReadLabels`, `FindGroup`, `MakeCloudClient`, `FixSlbSpan` or `FixStart` and `FixEnd`, `Measure`, `TakeMeasured`, with a clock that ticks between them; `NoSource` |
| `SeriesFanOutProofs`, `SeriesRegistryProofs`, `ExternalMetricsProofs`, `CustomMetricsProofs`, `AllocationProofs` (of `AllocationRange` and `CostAllocation`), `CostHttpProofs`, `CostQueryProofs`, `CloudSourcesProofs` | proofs | |

How they compose. `SeriesFanOut` refers to `SeriesListing` by `INSTANCE` and is
shown to implement it; a relisting in `SeriesRegistry` is an abstraction of it
one level up: every namer sees some state that Prometheus was in since the
relisting began, which is what the atomic listing of `SeriesListing` allows.
That nothing is lost by this abstraction is proved (`ListingsAreCovered`): what
the code makes of the answers, with namers that share a selector, filters and nil
answers, is a registration that `SeriesRegistry` considers.
The two registries and the two copies of the fan-out differ in ways the modules
do not tell apart (a name or one entry per resource; the order of two
assignments under one lock), so one module stands for both.
`ExternalMetrics` and `CustomMetrics` are the registry with its readers, and
both are proved to implement `SeriesRegistry` (`ReadersLeaveRegistry`);
`CostRequests` implements `CostHttp`, and `CostQuery` follows a window and a
filter all the way from the URL to Prometheus. `CostQuery` ends where
`AllocationRange` begins, with a window and a step that is any integer; a window
that is cut into steps is a window for each step. The sources of `CloudSources`
are those that `ExternalMetrics` only lets answer or fail.

Abstractions that matter: series, metrics, selectors, pods and nodes are model
values or members of small sets; metric values are only present or absent, or
samples that are told apart by their labels (`CustomMetrics`), except in
`CostAllocation`; math.Round is left out, so sums are exact; logging,
formatting, CSV and JSON are left out except for what a NaN does to JSON. Texts
are taken as cut up by the regular expressions or the scanner; what the code
itself cuts (the terms of a filter) is modelled.

## 3. Runs

| Run | Instance | Shows |
|---|---|---|
| `fanout` | 3 namers, 3 selectors, 1 series; 1.6 million states, 2 minutes | `RoomToSend`, `CollectorIsFed`, `NoSendOnClosed`, the refinement `ImplementsListing`; `EveryCallReturns`, `NoGoroutineLeak` |
| `external` | the registry of 2 namers, 2 series and 2 metrics, one request, a metric of Prometheus and one that both providers list, 1 restart | `ListMatchesInfo`, `RegistryIsOneListing`, `LaterNamerWins`, `ListedThenFound`; `EveryRequestEnds`, `StaysKnown`, `GoneIsDropped` |
| `custom` | the registry with one metric, one request, 2 resources, 2 namers with a label each, samples with the same name in both labels, with two names, and with one label only; 1 restart; 3.4 million states | `FiledRightUnlessRelabelled`, `NothingLostUnlessRelabelled` |
| `custom_swap` | the same | finding: `ValuesAreTheirs` is violated |
| `range` | windows -1, 0, 1 and 5, steps -1, 0, 2, 6 and the window's length, a day of 2, two names, two replica sets | `StepsTileWindow`, `SameReplicaSets`, `WidenedOnlyByLoss`, `EveryRequestEnds` |
| `cost_alloc` | 2 pods, 2 nodes, all parameters, legal and illegal; 4.3 million states | `CostIsConserved`, `RatiosSumToOne`, `NodeIdleIsWhatPodsLeave`, `FiniteUnlessDividedByZero` |
| `cost_alloc_empty` | the same | finding: `EmptyListIsSurvived` is violated |
| `cost_http` | 2 requests, 2 pods that differ in every label, selectors of up to two terms with every operator that `labels.Parse` knows, `in`, `notin`, equality, existence and its opposite, `>` and `<`, symmetric in the requests; 1.8 million states | `OwnTotalUnlessDisturbed`, `DetailFindsATotal`, `MemoryLimitShown`, `SelectsWhatWasAsked` |
| `query` | 4 time zones, a clock read every 9 hours and half a second for 115 days that hold a new year and a leap day, 18 windows, 8 steps, filters of up to 2 of 12 terms, queries at once and 10 seconds later | `NamedIsLocal`, `PastDaysAreLocal`, `StepIsExact`, `RightWhileDatesAgree`, `BillsCountedOnce`, `SumsCoverWindow`, `WholeFilterOrNone`, `NeverEarlier` |
| `query_instant` | the same | finding: `EvaluatedAtWindowEnd` is violated |
| `cloud` | all four sources and a metric of none, numbers on both sides of every bound, up to 3 deployments with every combination of annotations, up to a second's delay at any steps, every kind of answer | `CompleteOrSpent`, `RateIsOverItsInterval`, `SpansItsPeriod`, `FirstPilotIsAsked`, `EveryRequestEnds` |
| `sls_incomplete` | requests to SLS alone | finding: `IncompleteIsRetried` is violated |

Type invariants, where a module has one, are proved and not repeated in a run.

Why the bounds are enough. Three namers are the fewest with a duplicate, a
failure and a success at once. Two namers and two series give a metric that
changes hands in every way. `MaxSeen` limits how many states Prometheus goes
through in one relisting; a listing of two namers depends on at most two, so
two are enough for `external` and `custom` (a longer window would only promise
less). Requests do not influence each other in
`ExternalMetrics` and `CustomMetrics` (readers never exclude readers), so one
is enough; in `CostHttp` two are, because a request can be disturbed by one
other. A request of `CostRequests` that asks for something in particular is
alone: what a selector lets through does not depend on others. Two pods on two
nodes separate what is grouped from what is not, with one of the nodes possibly
free or unpriced. A window of five and a step of two have a full first step, a
full later one and one that is cut off; the step of six is longer than the
window. `MaxSets`, the number of sets after which the model stops a loop that
does not come to the end by itself, `MaxRestarts`, `MaxSeen`, `MaxLag` (how long
a request to a cloud source is interrupted altogether) and the clock's `Until`
are the only bounds on behaviours; steps that do come to the end do so within
`MaxSets`. In `CostWindow` an answer is remembered up to the next reading of the
clock: that a window never goes back from one reading to the next is enough for
it never to go back. Instants that are nine hours and half a second apart come
by every third hour of the day on either side of midnight in each zone. One
query is made for a window, and what has nothing to do with time, filters and
resolutions, is tried at the first reading of the clock only. `Word` stands for
2^64 and is small enough for days by the thousand, or five times 300 seconds in
`CloudSources`, to overflow. Three deployments are the fewest with a first that
names only a namespace, one that names the application and one after it. All
runs check for deadlock: where the system stops (a relisting has returned, a
request is answered) the module has an action that stutters.

Fairness. Goroutines that can run do run (WF); a `sync.RWMutex` lets waiting
readers in before the next writer, hence SF for the reads in `ExternalMetrics`.
That Prometheus answers is no part of the fairness of the relister, as the code
sets no time limit: `EveryRequestEnds` holds of `external` also while a
relisting hangs for ever. It is the antecedent of `StaysKnown` and
`GoneIsDropped` instead (`PrometheusAnswers`: listings end, and a relisting that
is retried for ever succeeds again and again), without which nothing could be
said of what is served in the end. A request's own query to Prometheus is
assumed to be answered, and so are the lists of `SeriesFanOut`. The fairness of
`AllocationRange` and `CloudSources` is that the handler runs and the API server
or the cloud service answers.

### Findings

1. `cost_alloc_empty`. The checks for empty lists in `initPodMap` log and fall
   through to the use of the nil list (`cost_manager.go:232-235`, 300-303,
   325-329; 127-128 has no check). A cluster without, say, `kube_pod_labels`
   gets no answer at all.
2. `query_instant`. A window is written into a selector without its time zone
   and shifted back by the hours that two clocks differ when the query is made,
   without their dates (`timeutil.go:84-88`): in UTC+8 a window that ends
   between midnight and eight is evaluated a day off; zones with minutes and
   windows given in UTC are off too. `RightWhileDatesAgree` says when it is right.
3. `custom_swap`. The samples of an answer are matched by the label of the namer
   that has the metric when the answer is there (`series_registry.go:182-199`),
   not by the label that the query was made for. If the metric changed hands in
   between, a sample that has both labels, which is up to the text of the query,
   is filed under the name in the wrong one: the value of one resource is given
   for another. `FiledRightUnlessRelabelled` says that it takes just this, and
   `NothingLostUnlessRelabelled` that values are left out only for the same reason.
4. `sls_incomplete`. An incomplete answer without logs is passed on as an empty
   result (`ingress.go:91-93`), although incomplete answers should be retried
   (95).

Three more disagreements with what the repository says have no run of their own.
A property that passes states what the code does in each case:

* A filter that `ParseFilter` accepted is dropped as a whole if one of its
  requirements cannot be made (`filter.go:48`), and costs are computed for all
  pods; `filter_test.go:17` calls such a text a "Valid filter string".
  `WholeFilterOrNone` says that a filter is never dropped by half, and what it
  takes for it to be dropped.
* The comment at `window.go:272-275` defines the past X days as whole days from
  midnight to midnight UTC, the entirety of today included, and says that both ends
  are rounded forward. The end is not (line 277 is commented out), so that the
  window ends now, and the start is a local midnight (279). `PastDaysAreLocal` is
  about what the code does; the definition of the comment holds of no time zone.
* With AHAS, "the appName and namespace can be retrieved from the annotation of
  target Deployment automatically" (`src/docs/metrics/ahas_sentinel.md:133-134`,
  `src/examples/ahas-sentinel.yaml:105-106`). They are those of the first
  deployment in the namespace that names an application (`k8s_helper.go:65-79`),
  whichever is the target of the HPA, and the AHAS namespace may come from one
  before it that names no application. `FirstPilotIsAsked` says when the two at
  least belong together.

Things the models show that are not findings, as nothing in the repository
promises otherwise:

* `/v2/cost` with a step of zero or less never ends (`EveryRequestEnds` excludes
  it); a first step longer than the window is not cut off (`StepsTileWindow`); a
  filter that names only deployments without replica sets is computed as if
  there were no filter (`WidenedOnlyByLoss`); a pod that appears between two
  list requests panics the request (`ApplyUnknownPod`).
* The number of a window is not checked for overflow, that of a step is
  (`Fits`); a number that wraps can leave a window that begins in the first
  second of a day, whose bill is then not in it (`BillsCountedOnce` excludes it); an offset in weeks counts 24 weeks each (`OffsetUnit`); `today` and `1d` are always shorter than the
  day that `/v2/allocation` asks for; a resolution that was asked for may be
  longer than the window, and zero (`SumsCoverWindow` excludes it).
* A subquery of Prometheus 2.x has the samples of both ends of its range. Where
  both are multiples of the step, as for `yesterday` in hours in a zone of whole
  hours, a sum has a sample more than the window has steps and is a whole step too
  much, 25 hours for a day; otherwise it is off by less than a step, either way
  (`SumsCoverWindow`). Only for bills does the code take a second off.
  `BillsCountedOnce` counts the midnights in the range, which bills are stamped
  with, not the samples that a finer resolution would take between them.
* `/cost`: summaries divide by whatever total is there; the CPU limit is stored
  in `Limit.Memory` (`cost_http.go:112`, 132), which `MemoryLimitShown` explains
  to go mostly unnoticed, as the memory limit comes later and overwrites it;
  only the first label of a selector gets its prefix, so that a later one selects
  by a label of the series itself if there is one of that name; only the first
  value of a term is used, `!=` selects the equal ones, terms of one key are
  alternatives, and a term without values panics the source; a comparison such as
  `app>3`, which `labels.Parse` accepts, becomes `=~"3"`, so that the pods with 3
  are shown and those with more are not (`SelectsWhatWasAsked` excludes these, by
  name, and nothing else); costs by the minute are never shown, since the text
  of `cost_min` is malformed (`cost.go:136`) and `cost_custom_min` is served by
  nobody, so that the missing total or cost panics the request.
* A rate of SLS whose interval and delay exceed 100 seconds is divided by more
  seconds than it counts (`RateIsOverItsInterval`); SLB takes a list without
  points for the value 0 and no list for an error, CMS takes the first for an
  error if it is written `[]` and for no values and no error if it is `null`, as it
  does an unsuccessful answer; AHAS without
  machines is 0 (`SlbOutcome`, `CmsOutcome`, `AhasOutcome`). An interval of AHAS
  of one second may be asked for as an empty span, as the clock is read twice.

## 4. Proofs

For every value of the constants, from the named assumptions of the modules
(`FanOutAssumption`: N is a natural number and the special values differ from
lists; `RegistryAssumption`: `MetricsOf` is a function of the right type;
`RequestAssumption`: what stands for no entry is none and for no name is none, every
namer has a label or fails to give one, samples are functions of the labels;
`RangeAssumption`: a day is positive, times are integers, workloads and replica
sets have different names; `AllocationAssumption`: there are finitely many pods
and nodes, every node has a name, amounts and weights are whole multiples of some
unit; `WindowAssumption`: zones are of whole minutes and
within a day of UTC, a duration has an even number of values and can hold a
week; `CalendarAssumption`: two months have begun when the clock starts;
`TextAssumption`: what the regular expressions and the scanner let pass;
`FilterAssumption` and `QueryAssumption`: what is garbled is illegal, the names
of kinds are legal, every term of a filter has a value; `CostHttpAssumption`:
there is a pod, and `Unset` is no request; `RequestsAssumption`: every series
has a pod and a namespace, selectors are sequences of requirements that
`labels.Parse` gives, what is compared with is an integer;
`NumberAssumption` and `CloudAssumption`: the numbers of requests
are integers and no other value is, a duration has an even number of values):

* `SeriesFanOutProofs`: type correctness; `RoomToSend` and `CollectorIsFed`;
  `NoSendOnClosed`; `ImplementsListing`. The inductive invariant counts. Every
  value pushed to a channel is pushed by a different namer, so the values in a
  channel, those received from it and those still to come add up to the number
  of namers; N is therefore room enough, and as long as the collector has
  received fewer than N values one is in the channel or on its way. For the
  refinement, `cache` is shown to hold, for each selector, the answer of the
  goroutine that asked, so that when all N have been received the assembled
  result is the listing of the answers. Termination, as far as it is a matter of
  safety: the moves left to the collector and, counted as a set of pairs, to the
  goroutines are at most 7N + 2 and every step uses one up (`RelistingIsBounded`);
  until all is over something can move, and after an early return every goroutine
  that is left can (`NeverStuck`); a success leaves neither a goroutine nor a value
  behind (`SuccessLeavesNothing`).
* `SeriesRegistryProofs`: the lock is held exactly between the two assignments
  and the list already is the domain of the map to come (`LockInv`), which gives
  `ListMatchesInfo`. What a registration owes to its relisting is shown once,
  about `Registrations` (lemma `RegistrationsAreOneListing`), and carried by
  `ListingInv` through `pending` into `info`. If Prometheus did not change during
  the relisting, the registry is exact (`QuietListingIsExact`). `ListingsAreCovered`
  is the step from `SeriesListing` to this module.
* `ExternalMetricsProofs`: the list read under the lock is that of the map, so a
  request about to look its metric up finds it unless a swap was noted in it
  (`GapInv`), which gives `ListedThenFound`. Each step is one of the registry or
  leaves it alone (lemma `RelisterStep`), so that what is proved of the registry
  holds while it is read (`ReadersLeaveRegistry`, `ServedRegistry`); hence every
  entry that a request was given exposes its metric (`QueriesAreForTheirMetric`).
* `CustomMetricsProofs`: what a request knows (`MatchInv`): until a swap is noted
  in it the entry of its query is still the registered one, and its items are
  what its samples make when they are matched by the entry it was answered from.
  If that entry has the label of the query's, what a sample is filed under is what
  it is of, whatever its other labels say, and `FiledRightUnlessRelabelled` and
  `NothingLostUnlessRelabelled` follow.
* `AllocationProofs`, of ranges: `LoopInv` says where the next set begins and ends and
  that a set that is cut off is the last; `FilterInv` says that what a step's
  filter is made of (the names to be looked at and the new list) keeps every
  replica set of earlier sets and every name that is not lost. `LengthInv` ties
  where the next set begins to the number of sets: it is what makes the loop end
  for a positive step (`RangeIsBounded`), and never for any other
  (`NoStepNoAnswer`).
* `AllocationProofs`, of one set. The inductive invariant `AllocationInv` says that
  an answer is the function of what was fetched that the source computes; its
  parts are needed because the four properties are about the entries before they
  are merged, which an answer no longer shows. All four then are facts about that
  function, by three layers of lemmas. Fractions: `gcd` is a recursive function
  that must be shown to exist and to compute a divisor (`GcdExists`, `GcdIs`);
  fractions of equal value are equal in lowest terms (`FracEq`), which gives the
  laws of arithmetic, and what a division by zero leaves is not undone
  (`InfiniteStays`). Sums: a fold in an order that is chosen is the same in any
  (`SumMore`, `SumUnion`), term by term (`SumPlus`, `SumTimes`), under other names
  (`SumRenamed`) and by groups (`SumGroups`), by induction over the subsets of a
  finite set (`SubsetInduction`). The allocation: shares of the idle cost are all
  of it (`PartsSum`), merging keeps sums (`AggSetIs`), and by node what is taken
  off the nodes is what their pods have (`NodeAnswerSum`), so that
  `CostIsConserved` and `RatiosSumToOne` hold for every way of showing, sharing
  and merging. `FiniteUnlessDividedByZero` says which divisions can be by zero
  (`EntriesHaveValues` shows that there is no other); the two sums rest on it,
  since an answer that is finite tells that none was. Without idle cost there is no
  division left that can be by zero, and `PodsAddUp` says what an answer adds up to
  then, whatever it is aggregated by.
* `CostHttpProofs`: that `CostRequests` implements `CostHttp`, so that
  everything else holds whatever is asked for; then, from the order of the metric
  list, what a request has and has not stored at each point (`TypeInv`), and
  whose words of the total it can find there (`TotalInv`): both its own unless
  another request stored in between, and never one that nobody stored.
  `SelectsWhatWasAsked` is about a chain of conversions: what a term of the
  selector is turned into is found again among the matchers, and every matcher
  comes from a term (lemmas `Matches`, `FromTerms`); that what is shown came
  through such a list is the invariant `AskedInv`.
* `CostQueryProofs`, the largest. Windows: `ClockInv` says of the last answer
  what its text meant when it was parsed (`Means`), in terms of the days and
  months of the time zone; the calendar is any set of days on which months begin.
  `NamedIsLocal` and `PastDaysAreLocal` follow, and `NeverEarlier` from the order
  of what a text means at two times (`MeansOrder`). Queries: `QueryInv` says that
  a query was made of the window that was answered last. `HourOffsetIs` computes
  the difference of the two clocks from their dates, which gives
  `RightWhileDatesAgree`; that windows begin on whole seconds outside the first
  second of a day (`StartsByTheMinute`) gives `BillsCountedOnce`. `SumsCoverWindow`
  counts samples by the quotients of the two ends (`OppositeMultiple`). Folds: the
  definition of a fold is a recursive function, which must be shown to exist
  before it says anything (`FoldExists`), and then followed term by term. Both
  are inductions over a set of numbers (`Climb`), which need no induction theorem
  with an operator as a parameter. `StepIsExact` then says that a sum of
  any length that was not refused never wrapped on the way (`PlusIsExact`), and
  `WholeFilterOrNone` is shown by following a text through its two folds: what
  the parts say of the terms so far (`PartsMean`: all of them, each by itself,
  or something garbled), and what the filter says of the parts so far
  (`FilterMeans`).
* `CloudSourcesProofs`, for SLS alone too: the parameters are within their
  bounds whatever the labels say. `CompleteOrSpent` follows from an invariant
  that says what answer is there at which point of the loop (`SpentInv`), of the
  other sources from `DecidedInv`; `RateIsOverItsInterval` from the cardinality
  of an interval. `SpanInv` follows the two ends of a span through the clock's
  ticks and gives `SpansItsPeriod` for any width of a duration: SLB refuses what
  comes out too short, whatever overflowed; for CMS and AHAS a product that fits is
  what `Wrap` leaves alone (lemma `WrapKeeps`). `PilotInv`
  says which deployment the application is from, and that the namespace is from
  it too or, if it has none, from one before it, which gives `FirstPilotIsAsked`. A request that the manager
  passes to SLS is one to SLS alone (`ManagerServesSls`), so what is proved of
  `SlsSource` holds there too, and measures that every step counts down bound what
  a request can take (`SlsRequestIsBounded`, `CloudRequestIsBounded`).

Each proof follows the same plan: type correctness first, an invariant that is
inductive relative to it, one step per action, and a temporal step by PTL.

What the proofs corrected. `BillsCountedOnce` did not hold of numbers of days
that wrap, of which the instance has none that ends up in the first second of a
day. The prefix of a label was modelled by cases on the labels of the instance;
as a function of any label it showed that a second label can be one of the
series itself, which `SelectsWhatWasAsked` now excludes and the instance has.
`NodeIdleIsWhatPodsLeave` needs every node to have a name: the pods of a node
without one are merged as unallocated and would stay in its idle cost.

Only model-checked: every liveness property (liveness under fairness and
`ENABLED` are beyond this prover). What is proved towards some of them are the
facts of safety they rest on, a measure that every step counts down and guards
that cannot all be false: for `EveryCallReturns` and `NoGoroutineLeak` of the
fan-out completely, for `EveryRequestEnds` of the cloud sources and of ranges the
measure only. Every safety property of a passing run is proved.

## 5. Not modelled, and why

* Credentials and metadata (`utils/client.go`, `utils/region.go`): I/O and
  decryption without state; that making a client may fail is in `SlsSource` and
  `CloudSources`.
* The Prometheus client and its instrumentation (`prometheus.go`,
  `utils/metrics.go`): flags, TLS and transport. What matters of it, that no call
  has a time limit, is in the fairness of `ExternalMetrics`.
* Start and HTTP registration (`src/main.go`, `providerManager.go`), except for
  `/reload`, which is `Restart`.
* The texts of PromQL: fixed formats, apart from the matchers, ranges and
  instants put into them. The CSV and JSON output, the units and quantities of
  what is shown.
* The conversion of samples: a NaN that becomes an integer
  (`metric_converter.go:66`) is a matter of the processor.
* Calendars beyond what is asked of them (summer time, numbers beyond int64) and
  functions that no caller uses.
* Everything under `src/vendor`, which appears only as the code uses it.
