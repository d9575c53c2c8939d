---------------------------- MODULE SeriesFanOut ----------------------------
(***************************************************************************)
(* One relisting of Prometheus as the adapter runs it, in                  *)
(* external-provider/basic_metric_lister.go (ListAllMetrics) and, line for *)
(* line the same, in custom-provider/provider.go (updateMetrics).          *)
(*                                                                         *)
(* The calling goroutine (the collector) walks the namers and starts one   *)
(* goroutine per distinct selector; a namer whose selector was already     *)
(* asked for is answered on the spot with a nil error and an empty         *)
(* selectorSeries.  Every goroutine queries Prometheus, pushes its error   *)
(* (or nil) to errs and then, if it succeeded, its series to               *)
(* selectorSeriesChan.  The collector receives one error and one series    *)
(* per namer; it returns at the first error, leaving the other goroutines  *)
(* to the buffers of the two channels.                                     *)
(*                                                                         *)
(* A channel is the sequence of the namers whose values are in it: namer   *)
(* n's value in errs is an error iff answer[n] = Error, its value in       *)
(* seriesChan is <<selector[n], answer[n]>>, or the zero selectorSeries    *)
(* when n was a duplicate (answer[n] = Pending).                           *)
(***************************************************************************)
EXTENDS Naturals, Sequences, FiniteSets

CONSTANTS
  N,          \* how many namers the configuration has: len(l.namers)
  Selectors,  \* the series selectors namers may ask Prometheus for
  Series,     \* the series Prometheus may hold
  Nil,        \* a nil slice of series: Prometheus answered "data": null
  Error,      \* promClient.Series returned an error
  Pending     \* no answer yet, or (for a duplicate) none asked for

\* The lists of series Prometheus may answer with (enumerated, for TLC to compare them with Nil).
Lists == {l : l \in SUBSET Series}

ASSUME FanOutAssumption ==
  /\ N \in Nat
  /\ Nil # Error /\ Nil # Pending /\ Error # Pending
  /\ {Nil, Error, Pending} \cap Lists = {}

Namer  == 1..N
Answer == Lists \cup {Nil, Error}

VARIABLES
  selector,   \* selector[n] = namer n's selector (configuration, never changes)
  keeps,      \* keeps[n] = the series namer n's FilterSeries lets through (configuration)
  pc,         \* where the collector is: "spawn", "recvErr", "recvSeries", "done", "failed"
  next,       \* the namer its loop has reached
  selectors,  \* the selectors already asked for
  goroutine,  \* goroutine[n]: "none", "query", "sendErr", "sendSeries" or "exited"
  answer,     \* answer[n]: what Prometheus answered to n's goroutine
  errs,       \* the buffered channel of errors
  seriesChan, \* the buffered channel of selectorSeries
  errsState,  \* is the channel errs "open" or "closed"?
  cache,      \* seriesCacheByQuery: cache[s] \in Lists, or Pending if s is absent
  result      \* the listing returned: namer |-> the series it keeps

config == <<selector, keeps>>
collector == <<pc, next, selectors, errsState, cache, result>>
vars == <<selector, keeps, pc, next, selectors, goroutine, answer, errs, seriesChan,
          errsState, cache, result>>

-----------------------------------------------------------------------------

\* Mutant: room for the distinct selectors only.
ChanCap_Distinct == Cardinality({selector[n] : n \in Namer})

\* Mutant: room for one value.
ChanCap_One == 1

\* make(chan ..., len(l.namers)), for both channels
ChanCap == N

\* What the goroutine of namer n, or the collector on behalf of a duplicate, puts in errs.
IsError(n) == answer[n] = Error

Init ==
  /\ selector \in [Namer -> Selectors]
  /\ keeps \in [Namer -> SUBSET Series]
  /\ pc = "spawn"
  /\ next = 1
  /\ selectors = {}
  /\ goroutine = [n \in Namer |-> "none"]
  /\ answer = [n \in Namer |-> Pending]
  /\ errs = << >>
  /\ seriesChan = << >>
  /\ errsState = "open"
  /\ cache = [s \in Selectors |-> Pending]
  /\ result = [n \in {} |-> {}]

(***************************************************************************)
(* The collector, first loop: one goroutine per distinct selector.         *)
(***************************************************************************)
Spawn ==
  /\ pc = "spawn" /\ next \in Namer
  /\ selector[next] \notin selectors
  /\ selectors' = selectors \cup {selector[next]}
  /\ goroutine' = [goroutine EXCEPT ![next] = "query"]
  /\ next' = next + 1
  /\ UNCHANGED <<config, pc, answer, errs, seriesChan, errsState, cache, result>>

\* Mutant: a duplicate pushes its nil error only.
SkipDuplicate_ErrOnly ==
  /\ pc = "spawn" /\ next \in Namer
  /\ selector[next] \in selectors
  /\ Len(errs) < ChanCap
  /\ errs' = Append(errs, next)
  /\ goroutine' = [goroutine EXCEPT ![next] = "exited"]
  /\ next' = next + 1
  /\ UNCHANGED <<config, pc, selectors, answer, seriesChan, errsState, cache, result>>

\* The collector pushes both values itself; nothing else receives, so the two
\* pushes are one step that waits for room in both channels.
SkipDuplicate ==
  /\ pc = "spawn" /\ next \in Namer
  /\ selector[next] \in selectors
  /\ Len(errs) < ChanCap /\ Len(seriesChan) < ChanCap
  /\ errs' = Append(errs, next)
  /\ seriesChan' = Append(seriesChan, next)
  /\ goroutine' = [goroutine EXCEPT ![next] = "exited"]
  /\ next' = next + 1
  /\ UNCHANGED <<config, pc, selectors, answer, errsState, cache, result>>

StartCollecting ==
  /\ pc = "spawn" /\ next > N
  /\ pc' = "recvErr"
  /\ next' = 1
  /\ UNCHANGED <<config, selectors, goroutine, answer, errs, seriesChan, errsState, cache, result>>

(***************************************************************************)
(* The goroutine of namer n.                                               *)
(***************************************************************************)
Query(n) ==
  /\ goroutine[n] = "query"
  /\ \E a \in Answer : answer' = [answer EXCEPT ![n] = a]
  /\ goroutine' = [goroutine EXCEPT ![n] = "sendErr"]
  /\ UNCHANGED <<config, collector, errs, seriesChan>>

\* Mutant: a goroutine that succeeded pushes no nil error.
SendErr_OnlyErrors(n) ==
  /\ goroutine[n] = "sendErr"
  /\ Len(errs) < ChanCap /\ errsState = "open"
  /\ errs' = IF IsError(n) THEN Append(errs, n) ELSE errs
  /\ goroutine' = [goroutine EXCEPT ![n] = IF IsError(n) THEN "exited" ELSE "sendSeries"]
  /\ UNCHANGED <<config, collector, answer, seriesChan>>

\* A push to a closed channel panics: the guard on errsState is what NoSendOnClosed shows.
SendErr(n) ==
  /\ goroutine[n] = "sendErr"
  /\ Len(errs) < ChanCap /\ errsState = "open"
  /\ errs' = Append(errs, n)
  /\ goroutine' = [goroutine EXCEPT ![n] = IF IsError(n) THEN "exited" ELSE "sendSeries"]
  /\ UNCHANGED <<config, collector, answer, seriesChan>>

SendSeries(n) ==
  /\ goroutine[n] = "sendSeries"
  /\ Len(seriesChan) < ChanCap
  /\ seriesChan' = Append(seriesChan, n)
  /\ goroutine' = [goroutine EXCEPT ![n] = "exited"]
  /\ UNCHANGED <<config, collector, answer, errs>>

(***************************************************************************)
(* The collector, second loop: one error and one series per namer.         *)
(***************************************************************************)
\* Mutant: errs is closed on every return (defer close(errs)).
RecvErr_DeferClose ==
  /\ pc = "recvErr" /\ next \in Namer
  /\ errs # << >>
  /\ errs' = Tail(errs)
  /\ pc' = IF IsError(Head(errs)) THEN "failed" ELSE "recvSeries"
  /\ errsState' = IF IsError(Head(errs)) THEN "closed" ELSE "open"
  /\ UNCHANGED <<config, next, selectors, goroutine, answer, seriesChan, cache, result>>

RecvErr ==
  /\ pc = "recvErr" /\ next \in Namer
  /\ errs # << >>
  /\ errs' = Tail(errs)
  /\ pc' = IF IsError(Head(errs)) THEN "failed" ELSE "recvSeries"
  /\ UNCHANGED <<config, next, selectors, goroutine, answer, seriesChan, errsState, cache, result>>

\* Mutant: a nil slice is cached too.
CacheWith_Nil(n) ==
  IF answer[n] # Pending THEN [cache EXCEPT ![selector[n]] = answer[n]] ELSE cache

\* Mutant: the answers are taken to arrive in the order of the namers.
CacheWith_InOrder(n) ==
  IF answer[n] \in Lists THEN [cache EXCEPT ![selector[next]] = answer[n]] ELSE cache

\* What the selectorSeries of namer n does to seriesCacheByQuery.
CacheWith(n) ==
  IF answer[n] \in Lists THEN [cache EXCEPT ![selector[n]] = answer[n]] ELSE cache

RecvSeries ==
  /\ pc = "recvSeries"
  /\ seriesChan # << >>
  /\ seriesChan' = Tail(seriesChan)
  /\ cache' = CacheWith(Head(seriesChan))
  /\ pc' = "recvErr"
  /\ next' = next + 1
  /\ UNCHANGED <<config, selectors, goroutine, answer, errs, errsState, result>>

(***************************************************************************)
(* newNamers and newSeries, filled side by side: every namer whose         *)
(* selector is in the cache, with what its FilterSeries keeps of it.       *)
(***************************************************************************)
Assemble ==
  [n \in {m \in Namer : cache[selector[m]] \in Lists} |-> cache[selector[n]] \cap keeps[n]]

Finish ==
  /\ pc = "recvErr" /\ next > N
  /\ errsState' = "closed"
  /\ result' = Assemble
  /\ pc' = "done"
  /\ UNCHANGED <<config, next, selectors, goroutine, answer, errs, seriesChan, cache>>

\* The call has returned and every goroutine it started is gone.
Returned ==
  /\ pc \in {"done", "failed"}
  /\ \A n \in Namer : goroutine[n] \in {"none", "exited"}
  /\ UNCHANGED vars

Next ==
  \/ Spawn \/ SkipDuplicate \/ StartCollecting
  \/ RecvErr \/ RecvSeries \/ Finish
  \/ \E n \in Namer : Query(n) \/ SendErr(n) \/ SendSeries(n)
  \/ Returned

Spec == Init /\ [][Next]_vars

(***************************************************************************)
(* Prometheus answers every query (promClient.Series is called with        *)
(* context.TODO() and no time limit, so this is an assumption about        *)
(* Prometheus, not something the adapter enforces) and the Go scheduler    *)
(* runs every goroutine that can move.                                     *)
(***************************************************************************)
Fairness ==
  /\ WF_vars(Spawn \/ SkipDuplicate \/ StartCollecting \/ RecvErr \/ RecvSeries \/ Finish)
  /\ \A n \in Namer : WF_vars(Query(n) \/ SendErr(n) \/ SendSeries(n))

FairSpec == Spec /\ Fairness

-----------------------------------------------------------------------------
(***************************************************************************)
(* Properties.                                                             *)
(***************************************************************************)

TypeOK ==
  /\ selector \in [Namer -> Selectors]
  /\ keeps \in [Namer -> SUBSET Series]
  /\ pc \in {"spawn", "recvErr", "recvSeries", "done", "failed"}
  /\ next \in 1..N+1
  /\ selectors \in SUBSET Selectors
  /\ goroutine \in [Namer -> {"none", "query", "sendErr", "sendSeries", "exited"}]
  /\ answer \in [Namer -> Answer \cup {Pending}]
  /\ errs \in Seq(Namer) /\ seriesChan \in Seq(Namer)
  /\ errsState \in {"open", "closed"}
  /\ cache \in [Selectors -> Lists \cup {Pending}]
  /\ DOMAIN result \subseteq Namer
  /\ \A n \in DOMAIN result : result[n] \subseteq keeps[n]

\* No push ever blocks, whether the collector is still receiving or has returned at the
\* first error: a buffer of len(l.namers) is enough, so no goroutine is left behind for
\* ever (basic_metric_lister.go:92-93, and the comment at 121-122).
RoomToSend ==
  /\ \A n \in Namer : /\ goroutine[n] = "sendErr" => Len(errs) < ChanCap
                      /\ goroutine[n] = "sendSeries" => Len(seriesChan) < ChanCap
  /\ (pc = "spawn" /\ next \in Namer /\ selector[next] \in selectors)
       => Len(errs) < ChanCap /\ Len(seriesChan) < ChanCap

\* The collector never waits on a channel nobody will write to: while it receives from
\* errs, and while it receives the series that must follow a nil error, a value is in the
\* channel or a goroutine is still on its way to push one (basic_metric_lister.go:123-133).
CollectorIsFed ==
  /\ (pc = "recvErr" /\ next \in Namer) =>
       errs # << >> \/ \E n \in Namer : goroutine[n] \in {"query", "sendErr"}
  /\ pc = "recvSeries" =>
       seriesChan # << >> \/ \E n \in Namer : goroutine[n] = "sendSeries"

\* errs is closed only once nobody can push to it: a push to a closed channel would panic
\* in a goroutine of its own and take the whole adapter down (basic_metric_lister.go:134).
NoSendOnClosed ==
  errsState = "closed" => \A n \in Namer : goroutine[n] \notin {"query", "sendErr"}

\* What the answers to the selectors are, taken from the goroutines that asked.
AnswerTo(s) ==
  LET asked == {n \in Namer : selector[n] = s /\ answer[n] # Pending}
  IN  IF asked = {} THEN Pending ELSE answer[CHOOSE n \in asked : TRUE]

\* Status of the call as a caller of ListAllMetrics sees it.
Status == CASE pc = "done" -> "done" [] pc = "failed" -> "failed" [] OTHER -> "listing"

\* The fan-out implements the atomic relisting: it fails only if Prometheus failed some
\* selector, and when it succeeds every selector was answered, none with an error, and the
\* listing holds the answer of every namer's selector, duplicates included, however the
\* goroutines' pushes were interleaved.
Listed == INSTANCE SeriesListing
            WITH answers <- [s \in Selectors |-> AnswerTo(s)], status <- Status

ImplementsListing == Listed!Spec

\* Every relisting returns, provided Prometheus answers.
EveryCallReturns == <>(pc \in {"done", "failed"})

\* After an early return at the first error the remaining goroutines still come to an end.
NoGoroutineLeak ==
  pc = "failed" ~> \A n \in Namer : goroutine[n] \in {"none", "exited"}
=============================================================================
