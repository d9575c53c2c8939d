----------------------------- MODULE CostQuery -----------------------------
(***************************************************************************)
(* What Prometheus is asked for a request to the cost API: the window of   *)
(* CostWindow and the filter of CostFilter, written into a label selector  *)
(* (GetLabelSelectorStr of costv2/types/), sent as an external metrics     *)
(* request to the adapter itself, and read there by costv2/cost_metrics.go.*)
(* On the way the window loses its time zone: it is written as the wall    *)
(* clock shows it, read as if that were UTC and then shifted by the hours  *)
(* that the two clocks differ when the query is made.                      *)
(*                                                                         *)
(* A window that is cut into steps is a window for each step; here it is   *)
(* one step long.                                                          *)
(***************************************************************************)
EXTENDS CostWindow, CostFilter

CONSTANTS
  Lags,        \* how much later than the window is parsed Prometheus may be asked
  Filters,     \* the filter texts requests may have
  Resolutions  \* the resolutions they may have, texts of a step

ASSUME QueryAssumption ==
  /\ Lags \subseteq Nat
  /\ Nothing \notin Resolutions
  /\ \A text \in Filters : /\ text \in Seq([key : STRING, values : Seq(STRING)])
                           /\ \A i \in DOMAIN text : text[i].values # <<>>

VARIABLE query  \* the last query to Prometheus, and what it was made for

vars == <<windowVars, query>>

\* "pod", "node" (CostTotal, CostNode, KubeNodeInfo) or "billing" (the three BILLING metrics).
Metric == {"pod", "node", "billing"}

Init == WindowInit /\ query = Nothing

-----------------------------------------------------------------------------

\* Windows that are counted back from now are in local time, the others in UTC.
IsLocal(w) == w.kind # "between"

\* Format(WindowLayout) and time.Parse: the instant at which UTC's clock shows t's wall clock.
WallClock(w, t) == IF IsLocal(w) THEN t + zone ELSE t

\* Mutant: the second is not taken off.
Told_Exact(metric, end) == end

\* Bills are stamped 00:00:00; a second is taken off "to avoid data duplication".
Told(metric, end) == IF metric = "billing" /\ end % Day = 0 THEN end - Second ELSE end

\* Mutant: the clocks are subtracted the other way round.
GetUTCTime_Swapped(t, at) == t - HourOffset(at)

GetUTCTime(t, at) == t + HourOffset(at)

\* DurationString: the largest unit that divides the duration, and how often.
DurationUnit(d) ==
  CASE d % Day = 0 -> Day [] d % Hour = 0 -> Hour [] d % Minute = 0 -> Minute [] OTHER -> Second

\* Mutant: a minute and more is looked at every ten minutes.
Resolution_Coarse(d) ==
  CASE d > Hour -> Hour [] d > Minute -> 10 * Minute [] d > 10 * Second -> 10 * Second
    [] OTHER -> Second

\* ResolutionStringAndSeconds.
Resolution(d) ==
  CASE d > Hour -> Hour [] d > 10 * Minute -> 10 * Minute [] d > Minute -> Minute
    [] d > 10 * Second -> 10 * Second [] OTHER -> Second

\* A resolution that was asked for and cannot be parsed is passed over.
StepOf(d, resolution) ==
  IF resolution = Nothing \/ ParseDuration(resolution) = Refused
    THEN Resolution(d) ELSE ParseDuration(resolution)

\* GetExternalMetric: expression[range:step] at an instant, times the seconds of a step.
Query(metric, filter, resolution, at) ==
  LET w == answer.text
      start == WallClock(w, answer.result.start)
      end == WallClock(w, answer.result.end)
      d == end - start
  IN  [metric |-> metric, filter |-> filter, resolution |-> resolution, at |-> at,
       instant |-> GetUTCTime(Told(metric, end), at),
       range |-> (d \div DurationUnit(d)) * DurationUnit(d),
       step |-> StepOf(d, resolution),
       matchers |-> Matchers(Selector(ParseFilter(filter)), metric)]

\* GetRangeAllocation makes no step, and no query, of a window that is empty or negative.
\* Bound: one query for a window.
Ask(metric, filter, resolution, lag) ==
  /\ query = Nothing
  /\ IsWindow /\ answer.at = now
  /\ answer.result.start < answer.result.end
  /\ Accepted(filter)
  /\ query' = Query(metric, filter, resolution, now + lag)
  /\ UNCHANGED windowVars

\* Prometheus has answered.
Return ==
  /\ query # Nothing
  /\ query' = Nothing
  /\ UNCHANGED windowVars

\* Bound: what is not about time (filters and resolutions) is tried at the first reading only.
Next ==
  \/ query = Nothing /\ WindowNext /\ UNCHANGED query
  \/ \E metric \in Metric, lag \in Lags : Ask(metric, <<>>, Nothing, lag)
  \/ /\ now = Begin
     /\ \E metric \in Metric :
          \/ \E filter \in Filters : Ask(metric, filter, Nothing, 0)
          \/ \E resolution \in Resolutions : Ask(metric, <<>>, resolution, 0)
  \/ Return

Spec == Init /\ [][Next]_vars

-----------------------------------------------------------------------------

IsAsked == query # Nothing

\* What the query is to look at: up to the window's end, or the second before.
End ==
  LET end == answer.result.end
  IN  IF query.metric = "billing" /\ WallClock(answer.text, end) % Day = 0
        THEN end - Second ELSE end

\* A query is evaluated at the end of its window (window.go:323-338, cost_metrics.go:118-126).
EvaluatedAtWindowEnd == IsAsked => query.instant = End

\* In zones of whole hours the difference of the two clocks can only be wrong by a day; while
\* they show the same date it is right, and the query is evaluated at the end of its window
\* (timeutil.go:84-88).
HoursSuffice == IsLocal(answer.text) /\ zone % Hour = 0
SameDate(t) == LocalDay(t) = t \div Day
RightWhileDatesAgree ==
  IsAsked /\ HoursSuffice =>
    /\ query.instant - End \in {-Day, 0, Day}
    /\ SameDate(query.at) => query.instant = End

\* A bill is stamped at midnight, and is in the window that begins with it and in no other:
\* the query sees the bills of its window, the first of them included and that of the
\* window's end not (cost_metrics.go:118-123).  A number that does not fit in int64 can leave a
\* window to start in the first second of a day, and is excepted.
Midnights(from, to) == -((-(from + zone)) \div Day) .. (to + zone) \div Day
BillsCountedOnce ==
  IsAsked /\ query.metric = "billing" /\ HoursSuffice /\ SameDate(query.at) /\ Fits(answer.text) =>
    Midnights(query.instant - query.range, query.instant)
      = Midnights(answer.result.start, answer.result.end - Second)

\* The samples of expression[range:step]: one at every multiple of the step, both ends of the
\* range included.
SamplesIn(from, to, step) == to \div step + (-from) \div step + 1

\* A sum over the range, times the seconds of a step, stands for the whole window: it has a
\* sample, and is off by less than a step, except where both ends of the range are multiples
\* of the step.  Then it counts a step too much, 25 hours for a day of whole hours: only of
\* bills is a second taken off (timeutil.go:44-82, cost_metrics.go:118-123, 247-258).
\* A resolution that was asked for may be longer than the window, and zero.
SumsCoverWindow ==
  IsAsked /\ query.resolution = Nothing =>
    LET from == query.instant - query.range
        length == answer.result.end - answer.result.start
        samples == SamplesIn(from, query.instant, query.step)
        off == samples * query.step - length
    IN  /\ samples >= 1 /\ -query.step < off
        /\ IF from % query.step = 0 /\ query.instant % query.step = 0
             THEN off = query.step ELSE off < query.step

\* The values the terms of a text ask for, by key.
AskedFor(text) ==
  [k \in {t.key : t \in ToSet(text)} |->
     LET t == CHOOSE u \in ToSet(text) : u.key = k
     IN  IF k = "controllerKind" THEN {Kind[v] : v \in ToSet(t.values)} ELSE ToSet(t.values)]
NamesNoKeyTwice(text) ==
  \A i, j \in DOMAIN text : i # j => /\ text[i].key # text[j].key
                                     /\ ~({text[i].key, text[j].key} \subseteq LabelKeys)

\* A filter restricts the query by all its terms or by none, never by some of them or by
\* values it does not have; it gets lost only if one of its terms is no legal requirement or
\* a key that is not cut at, as that of the cluster, is not named first (filter.go:20-76,
\* 79-162, cost_metrics.go:180-233).
WholeFilterOrNone ==
  IsAsked /\ query.metric = "pod" /\ NamesNoKeyTwice(query.filter) =>
    \/ query.matchers = AskedFor(query.filter)
    \/ /\ DOMAIN query.matchers = {}
       /\ \E i \in DOMAIN query.filter :
            LET t == query.filter[i]
            IN  \/ ~IsRequirement(t.key, t.values)
                \/ t.key \in LabelKeys /\ Len(t.values) > 1
                \/ t.key \notin CutBefore /\ i > 1
=============================================================================
