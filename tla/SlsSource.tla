----------------------------- MODULE SlsSource -----------------------------
(***************************************************************************)
(* One request for a metric of the log service: SLSMetricSource of         *)
(* metrics/sls/.  The labels of the request are read into parameters, a    *)
(* client is made, the interval to look at is fixed by the clock, and SLS  *)
(* is asked up to MaxRetry times, as long as its answers are incomplete.   *)
(*                                                                         *)
(* Time is in seconds, and 0 is when the interval is fixed.  The query     *)
(* selects the log lines from queryRealBegin up to end, of those that the  *)
(* call asks SLS for, from begin up to end.                                *)
(***************************************************************************)
EXTENDS Integers, FiniteSets

CONSTANTS
  Intervals, Delays, Retries, \* the numbers a request may give
  Absent,                     \* a label that is not given, or given without a value
  Garbled                     \* a label whose value is not a number

ASSUME NumberAssumption ==
  /\ Intervals \cup Delays \cup Retries \subseteq Int
  /\ {Absent, Garbled} \cap Int = {}

VARIABLES
  asked,    \* the labels: are project and logstore named, and the three numbers
  params,   \* SLSIngressParams
  pc,       \* "params", "client", "ask", "reply" or "done"
  tries,    \* how often GetLogs was called
  reply,    \* the last answer of SLS
  outcome   \* "none", "value", "empty" (no values and no error), "error" or "timeout"

slsVars == <<asked, params, pc, tries, reply, outcome>>

Label(numbers) == numbers \cup {Absent, Garbled}

MinInterval == 15
DefaultRetry == 5
Default == [interval |-> MinInterval, delay |-> 10, retry |-> DefaultRetry]

\* first: what Logs[0]["value"] holds: a number, no digit at all, or what is no number even
\* without the other characters; "noLogs": there is no Logs[0].
Reply == [complete : BOOLEAN, first : {"number", "noDigits", "malformed", "noLogs"}]
NoReply == [complete |-> FALSE, first |-> "noLogs"]

SlsInit ==
  /\ asked \in [located : BOOLEAN, interval : Label(Intervals), delay : Label(Delays),
                retry : Label(Retries)]
  /\ params = Default
  /\ pc = "params"
  /\ tries = 0
  /\ reply = NoReply
  /\ outcome = "none"

End(how) == pc' = "done" /\ outcome' = how

-----------------------------------------------------------------------------

Given(key) == IF asked[key] = Absent THEN Default[key] ELSE asked[key]

\* Less than MIN_INTERVAL is MIN_INTERVAL.
Interval == IF Given("interval") < MinInterval THEN MinInterval ELSE Given("interval")

\* Less than one is the default.
MaxRetry == IF Given("retry") < 1 THEN DefaultRetry ELSE Given("retry")

\* Mutant: the delay is not taken off the start of what is asked for.
QueryRealBegin_NoDelay == -params.interval

\* getSLSIngressQuery: the bounds, in seconds from now.
QueryRealBegin == -params.delay - params.interval
QueryEnd == -params.delay
Begin == -100

\* The seconds whose log lines the query counts.
Counted == {t \in QueryRealBegin..(QueryEnd - 1) : t >= Begin /\ t < 0}

\* getSLSParams.  Nothing is done about a negative delay.
ReadParams ==
  /\ pc = "params"
  /\ IF ~asked.located \/ Garbled \in {asked.interval, asked.delay, asked.retry}
       THEN End("error") /\ UNCHANGED params
       ELSE /\ pc' = "client"
            /\ params' = [interval |-> Interval, delay |-> Given("delay"), retry |-> MaxRetry]
            /\ UNCHANGED outcome
  /\ UNCHANGED <<asked, tries, reply>>

\* Client: the credentials can be read or not.
MakeClient ==
  /\ pc = "client"
  /\ \/ pc' = "ask" /\ UNCHANGED outcome
     \/ End("error")
  /\ UNCHANGED <<asked, params, tries, reply>>

\* GetLogs: an error ends the request, whichever try it is.
GetLogs ==
  /\ pc = "ask" /\ tries < params.retry
  /\ tries' = tries + 1
  /\ \/ reply' \in Reply /\ pc' = "reply" /\ UNCHANGED outcome
     \/ End("error") /\ UNCHANGED reply
  /\ UNCHANGED <<asked, params>>

\* No logs: done, complete or not.
TakeNothing ==
  /\ pc = "reply" /\ reply.first = "noLogs"
  /\ End("empty")
  /\ UNCHANGED <<asked, params, tries, reply>>

\* Mutant: an incomplete answer is not counted as a try.
Retry_Uncounted ==
  /\ pc = "reply" /\ reply.first # "noLogs" /\ ~reply.complete
  /\ pc' = "ask"
  /\ tries' = tries - 1
  /\ UNCHANGED <<asked, params, reply, outcome>>

Retry ==
  /\ pc = "reply" /\ reply.first # "noLogs" /\ ~reply.complete
  /\ pc' = "ask"
  /\ UNCHANGED <<asked, params, tries, reply, outcome>>

\* Mutant: an incomplete answer is taken on the last try.
MayTake_Last == reply.complete \/ tries = params.retry

MayTake == reply.complete

\* All but digits and points is dropped; without any the value is 0.
TakeValue ==
  /\ pc = "reply" /\ reply.first # "noLogs" /\ MayTake
  /\ End(IF reply.first = "malformed" THEN "error" ELSE "value")
  /\ UNCHANGED <<asked, params, tries, reply>>

\* The loop has come to its end.
GiveUp ==
  /\ pc = "ask" /\ tries >= params.retry
  /\ End("timeout")
  /\ UNCHANGED <<asked, params, tries, reply>>

Answered == pc = "done" /\ UNCHANGED slsVars

SlsNext ==
  \/ ReadParams \/ MakeClient \/ GetLogs
  \/ TakeNothing \/ Retry \/ TakeValue \/ GiveUp
  \/ Answered

SlsSpec == SlsInit /\ [][SlsNext]_slsVars

-----------------------------------------------------------------------------

TypeOK ==
  /\ params.interval \in {Default.interval} \cup {i \in Intervals : i >= MinInterval}
  /\ params.delay \in {Default.delay} \cup Delays
  /\ params.retry \in {Default.retry} \cup {n \in Retries : n >= 1}
  /\ pc \in {"params", "client", "ask", "reply", "done"}
  /\ tries \in 0..params.retry
  /\ reply \in Reply
  /\ outcome \in {"none", "value", "empty", "error", "timeout"}

\* A value comes from a complete answer, and the request gives up on SLS only after it has
\* used all its tries, at least one, each of them on an incomplete answer
\* (ingress.go:87-129, sls.go:159-162).
CompleteOrSpent ==
  /\ outcome = "value" => reply.complete
  /\ outcome = "timeout" => tries >= 1 /\ tries = params.retry /\ ~reply.complete

\* What a rate is divided by is how long its log lines were counted, provided that the
\* interval and the delay are at most the 100 seconds that SLS is asked for and the delay is
\* not negative (ingress.go:33-46).  (Beyond 100 seconds lines are left out and the rate
\* comes out too small; the labels are not checked for that.)
RateIsOverItsInterval ==
  pc \notin {"params", "client"} /\ params.delay >= 0 /\ params.interval + params.delay <= 100
    => Cardinality(Counted) = params.interval

\* Every request comes to an end.
EveryRequestEnds == <>(pc = "done")

\* "if there are too many logs in sls, query may be not completed, we should retry"
\* (ingress.go:95): nothing is made of an incomplete answer, an empty one included.
IncompleteIsRetried ==
  outcome = "empty" => reply.complete
=============================================================================
