--------------------------- MODULE SeriesListing ---------------------------
(***************************************************************************)
(* What one relisting of Prometheus promises, whatever the goroutines and  *)
(* channels that carry it out: every distinct selector of the configured   *)
(* namers is answered at most once, in any order; the relisting either     *)
(* fails, and then some selector was answered with an error, or returns a  *)
(* listing made of every selector's answer, none of them an error.         *)
(*                                                                         *)
(* This is the contract of MetricLister.ListAllMetrics in                  *)
(* external-provider/basic_metric_lister.go and of the first part of       *)
(* cachingMetricsLister.updateMetrics in custom-provider/provider.go;      *)
(* SeriesFanOut is the code.                                               *)
(***************************************************************************)
EXTENDS Naturals

CONSTANTS
  N,          \* how many namers the configuration has
  Selectors,  \* the series selectors namers may ask Prometheus for
  Series,     \* the series Prometheus may hold
  Nil,        \* the nil slice: Prometheus answered "data": null
  Error,      \* the query failed
  Pending     \* no answer yet (these three differ from each other and from any list)

\* The lists of series Prometheus may answer with (enumerated, for TLC to compare them with Nil).
Lists == {l : l \in SUBSET Series}

Namer  == 1..N
Answer == Lists \cup {Nil, Error}

VARIABLES
  selector,   \* selector[n] = namer n's series selector (configuration)
  keeps,      \* keeps[n] = the series FilterSeries of namer n lets through (configuration)
  answers,    \* answers[s] = what Prometheus answered to selector s
  status,     \* "listing", "done" or "failed"
  result      \* the listing returned: namer |-> the series it keeps

vars == <<selector, keeps, answers, status, result>>

(***************************************************************************)
(* The listing made of the answers `ans`: the series each namer keeps of   *)
(* its selector's answer, leaving out the namers whose selector has no     *)
(* list of series.                                                         *)
(***************************************************************************)
Listing(sel, kept, ans) ==
  [n \in {m \in Namer : ans[sel[m]] \in Lists} |-> ans[sel[n]] \cap kept[n]]

Asked == {selector[n] : n \in Namer}

Init ==
  /\ selector \in [Namer -> Selectors]
  /\ keeps \in [Namer -> SUBSET Series]
  /\ answers = [s \in Selectors |-> Pending]
  /\ status = "listing"
  /\ result = [n \in {} |-> {}]

Reply(s) ==
  /\ s \in Asked
  /\ answers[s] = Pending
  /\ \E a \in Answer : answers' = [answers EXCEPT ![s] = a]
  /\ UNCHANGED <<selector, keeps, status, result>>

Succeed ==
  /\ status = "listing"
  /\ \A s \in Asked : answers[s] \notin {Pending, Error}
  /\ status' = "done"
  /\ result' = Listing(selector, keeps, answers)
  /\ UNCHANGED <<selector, keeps, answers>>

Fail ==
  /\ status = "listing"
  /\ \E s \in Asked : answers[s] = Error
  /\ status' = "failed"
  /\ UNCHANGED <<selector, keeps, answers, result>>

Next == (\E s \in Selectors : Reply(s)) \/ Succeed \/ Fail

Spec == Init /\ [][Next]_vars
=============================================================================
