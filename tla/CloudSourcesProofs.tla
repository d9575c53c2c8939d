------------------------- MODULE CloudSourcesProofs -------------------------
(***************************************************************************)
(* Proofs about SlsSource and CloudSources, for all numbers that requests  *)
(* may give, any width of a duration, any deployments and any delay in     *)
(* between.                                                                *)
(***************************************************************************)
EXTENDS CloudSources, FiniteSetTheorems, WellFoundedInduction, TLAPS

\* SlsSource first, for a request that goes to it alone.

\* TypeOK as an invariant that is inductive: until the labels are read the parameters are the
\* defaults, and nothing has been asked.
TypeInv ==
  /\ asked \in [located : BOOLEAN, interval : Label(Intervals), delay : Label(Delays),
                retry : Label(Retries)]
  /\ params \in [interval : Int, delay : Int, retry : Int]
  /\ TypeOK
  /\ pc \in {"params", "client"} => tries = 0

LEMMA DefaultType ==
  /\ Default \in [interval : Int, delay : Int, retry : Int]
  /\ Default.interval = 15 /\ Default.delay = 10 /\ Default.retry = 5
  /\ MinInterval = 15 /\ DefaultRetry = 5
BY DEF Default, MinInterval, DefaultRetry

\* What a label stands for, once none of them is garbled.
LEMMA GivenType ==
  ASSUME TypeInv, Garbled \notin {asked.interval, asked.delay, asked.retry}
  PROVE  /\ Given("interval") \in Int
         /\ Given("delay") \in {Default.delay} \cup Delays
         /\ Given("retry") \in Int
         /\ Interval \in {Default.interval} \cup {i \in Intervals : i >= MinInterval}
         /\ MaxRetry \in {Default.retry} \cup {n \in Retries : n >= 1}
<1> USE NumberAssumption, DefaultType
<1>1. /\ asked.interval \in Intervals \cup {Absent}
      /\ asked.delay \in Delays \cup {Absent}
      /\ asked.retry \in Retries \cup {Absent}
  BY DEF TypeInv, Label
<1>2. /\ Given("interval") \in {Default.interval} \cup Intervals
      /\ Given("delay") \in {Default.delay} \cup Delays
      /\ Given("retry") \in {Default.retry} \cup Retries
  BY <1>1 DEF Given
<1>3. Given("interval") \in Int /\ Given("retry") \in Int
  BY <1>2
<1>4. Interval \in {Default.interval} \cup {i \in Intervals : i >= MinInterval}
  BY <1>2, <1>3 DEF Interval
<1>5. MaxRetry \in {Default.retry} \cup {n \in Retries : n >= 1}
  BY <1>2, <1>3 DEF MaxRetry
<1> QED BY <1>2, <1>3, <1>4, <1>5

LEMMA TypeInit == SlsInit => TypeInv
BY NumberAssumption, DefaultType DEF SlsInit, TypeInv, TypeOK, Reply, NoReply

LEMMA TypeStep == TypeInv /\ [SlsNext]_slsVars => TypeInv'
<1> SUFFICES ASSUME TypeInv, [SlsNext]_slsVars PROVE TypeInv'
  OBVIOUS
<1> USE NumberAssumption, DefaultType
<1>1. CASE ReadParams
  <2>1. CASE ~asked.located \/ Garbled \in {asked.interval, asked.delay, asked.retry}
    BY <1>1, <2>1 DEF TypeInv, TypeOK, ReadParams, End
  <2>2. CASE ~(~asked.located \/ Garbled \in {asked.interval, asked.delay, asked.retry})
    <3>1. /\ params' = [interval |-> Interval, delay |-> Given("delay"), retry |-> MaxRetry]
          /\ pc' = "client" /\ pc = "params" /\ UNCHANGED <<asked, tries, reply, outcome>>
      BY <1>1, <2>2 DEF ReadParams
    <3>2. /\ Interval \in {Default.interval} \cup {i \in Intervals : i >= MinInterval}
          /\ Given("delay") \in {Default.delay} \cup Delays
          /\ MaxRetry \in {Default.retry} \cup {n \in Retries : n >= 1}
      BY <2>2, GivenType
    <3>3. tries = 0 /\ 0 \in 0..MaxRetry
      BY <3>1, <3>2 DEF TypeInv
    <3>4. params' \in [interval : Int, delay : Int, retry : Int]
      BY <3>1, <3>2
    <3> QED BY <3>1, <3>2, <3>3, <3>4 DEF TypeInv, TypeOK
  <2> QED BY <2>1, <2>2
<1>2. CASE MakeClient
  BY <1>2 DEF TypeInv, TypeOK, MakeClient, End
<1>3. CASE GetLogs
  <2>1. tries' \in 0..params.retry
    BY <1>3 DEF GetLogs, TypeInv, TypeOK
  <2> QED BY <1>3, <2>1 DEF TypeInv, TypeOK, GetLogs, End
<1>4. CASE TakeNothing \/ TakeValue \/ GiveUp
  BY <1>4 DEF TypeInv, TypeOK, TakeNothing, TakeValue, GiveUp, End
<1>5. CASE Retry
  BY <1>5 DEF TypeInv, TypeOK, Retry
<1>6. CASE UNCHANGED slsVars
  BY <1>6 DEF TypeInv, TypeOK, slsVars
<1> QED
  BY <1>1, <1>2, <1>3, <1>4, <1>5, <1>6 DEF SlsNext, Answered

\* The parameters of a request that is served are numbers in their bounds, and SLS is never
\* asked more often than MaxRetry says (sls.go:104-169, ingress.go:88).
THEOREM SlsTypeCorrect == SlsSpec => []TypeOK
<1>1. TypeInv => TypeOK
  BY DEF TypeInv
<1> QED
  BY <1>1, TypeInit, TypeStep, PTL DEF SlsSpec

-----------------------------------------------------------------------------

\* Whoever is about to ask again has only incomplete answers, and an answer is there only
\* after a try; nothing is decided before the request is done.
SpentInv ==
  /\ pc # "done" => outcome = "none"
  /\ pc = "reply" => tries >= 1
  /\ pc = "ask" /\ tries >= 1 => ~reply.complete
  /\ CompleteOrSpent

LEMMA SpentStep == TypeInv /\ SpentInv /\ [SlsNext]_slsVars => SpentInv'
<1> SUFFICES ASSUME TypeInv, SpentInv, [SlsNext]_slsVars PROVE SpentInv'
  OBVIOUS
<1> USE NumberAssumption, DefaultType
<1>0. tries \in Int /\ params.retry \in Int /\ params.retry >= 1
  BY DEF TypeInv, TypeOK
<1>1. CASE ReadParams
  BY <1>1 DEF SpentInv, CompleteOrSpent, TypeInv, ReadParams, End
<1>2. CASE MakeClient
  BY <1>2 DEF SpentInv, CompleteOrSpent, TypeInv, MakeClient, End
<1>3. CASE GetLogs
  BY <1>0, <1>3 DEF SpentInv, CompleteOrSpent, TypeInv, TypeOK, GetLogs, End
<1>4. CASE TakeNothing
  BY <1>4 DEF SpentInv, CompleteOrSpent, TakeNothing, End
<1>5. CASE Retry
  BY <1>5 DEF SpentInv, CompleteOrSpent, Retry
<1>6. CASE TakeValue
  BY <1>6 DEF SpentInv, CompleteOrSpent, TakeValue, MayTake, End
<1>7. CASE GiveUp
  <2>1. tries = params.retry /\ tries >= 1
    BY <1>0, <1>7 DEF GiveUp, TypeInv, TypeOK
  <2> QED BY <1>7, <2>1 DEF SpentInv, CompleteOrSpent, GiveUp, End
<1>8. CASE UNCHANGED slsVars
  BY <1>8 DEF SpentInv, CompleteOrSpent, slsVars
<1> QED
  BY <1>1, <1>2, <1>3, <1>4, <1>5, <1>6, <1>7, <1>8 DEF SlsNext, Answered

\* A value is taken from a complete answer only, and a request gives up on SLS only after
\* MaxRetry incomplete answers, and at least one (ingress.go:87-129).
THEOREM ValuesAreComplete == SlsSpec => []CompleteOrSpent
<1>1. SlsInit => SpentInv
  BY DEF SlsInit, SpentInv, CompleteOrSpent
<1>2. SpentInv => CompleteOrSpent
  BY DEF SpentInv
<1> QED
  BY <1>1, <1>2, TypeInit, TypeStep, SpentStep, PTL DEF SlsSpec

-----------------------------------------------------------------------------

\* The log lines that a rate counts are those of as many seconds as it is divided by, for
\* every interval and delay that fit into the 100 seconds (ingress.go:33-46).
THEOREM RatesCountTheirInterval == SlsSpec => []RateIsOverItsInterval
<1>1. TypeInv => RateIsOverItsInterval
  <2> SUFFICES ASSUME TypeInv, params.delay >= 0, params.interval + params.delay <= 100
               PROVE  Cardinality(Counted) = params.interval
    BY DEF RateIsOverItsInterval
  <2>1. params.interval \in Int /\ params.delay \in Int /\ params.interval >= 15
    BY NumberAssumption, DefaultType DEF TypeInv, TypeOK
  <2>2. Counted = (-params.delay - params.interval)..(-params.delay - 1)
    BY <2>1 DEF Counted, QueryRealBegin, QueryEnd, Begin
  <2>3. /\ -params.delay - params.interval \in Int /\ -params.delay - 1 \in Int
        /\ ~(-params.delay - params.interval > -params.delay - 1)
        /\ (-params.delay - 1) - (-params.delay - params.interval) + 1 = params.interval
    BY <2>1
  <2>4. Cardinality((-params.delay - params.interval)..(-params.delay - 1))
          = (-params.delay - 1) - (-params.delay - params.interval) + 1
    BY <2>3, FS_Interval
  <2> QED BY <2>2, <2>3, <2>4
<1> QED
  BY <1>1, TypeInit, TypeStep, PTL DEF SlsSpec

-----------------------------------------------------------------------------

\* Division with remainder.
LEMMA DivMod ==
  ASSUME NEW a \in Int, NEW b \in Nat \ {0}
  PROVE  /\ a \div b \in Int /\ a % b \in Int
         /\ a = b * (a \div b) + (a % b)
         /\ 0 <= a % b /\ a % b < b
OBVIOUS

\* The quotient is the only number of its kind.
LEMMA Quotient ==
  ASSUME NEW a \in Int, NEW b \in Nat \ {0}, NEW q \in Int, b * q <= a, a < b * q + b
  PROVE  a \div b = q
<1> DEFINE p == a \div b
<1>1. p \in Int /\ b * p <= a /\ a < b * p + b
  BY DivMod
<1> HIDE DEF p
<1>2. ~(p <= q - 1)
  <2> SUFFICES ASSUME p <= q - 1 PROVE FALSE
    OBVIOUS
  <2>1. b * p <= b * (q - 1)
    BY <1>1
  <2>2. QED
    BY <1>1, <2>1
<1>3. ~(p >= q + 1)
  <2> SUFFICES ASSUME p >= q + 1 PROVE FALSE
    OBVIOUS
  <2>1. b * p >= b * (q + 1)
    BY <1>1
  <2>2. QED
    BY <1>1, <2>1
<1>4. QED
  BY <1>1, <1>2, <1>3 DEF p

\* Whole seconds pass through the cutting off of fractions.
LEMMA SecondsShift ==
  ASSUME NEW t \in Int, NEW k \in Int
  PROVE  InSeconds(t + k * Second) = InSeconds(t) + k
<1> DEFINE q == t \div Second
<1>1. /\ Second \in Nat \ {0} /\ q \in Int
      /\ Second * q <= t /\ t < Second * q + Second
  BY CloudAssumption, DivMod
<1> HIDE DEF q
<1>2. /\ Second * (q + k) <= t + k * Second
      /\ t + k * Second < Second * (q + k) + Second
      /\ t + k * Second \in Int
  BY <1>1
<1>3. (t + k * Second) \div Second = q + k
  BY <1>1, <1>2, Quotient
<1>4. QED
  BY <1>1, <1>3 DEF InSeconds, q

LEMMA SecondsType == ASSUME NEW t \in Int PROVE InSeconds(t) \in Int
BY CloudAssumption, DivMod DEF InSeconds

\* A later time is not cut off to an earlier second.
LEMMA SecondsOrder ==
  ASSUME NEW t \in Int, NEW u \in Int, t <= u
  PROVE  InSeconds(t) <= InSeconds(u)
<1> DEFINE p == t \div Second
           q == u \div Second
<1>1. /\ Second \in Nat \ {0} /\ p \in Int /\ q \in Int
      /\ Second * p <= t /\ u < Second * q + Second
  BY CloudAssumption, DivMod
<1> HIDE DEF p, q
<1>2. ~(p >= q + 1)
  <2> SUFFICES ASSUME p >= q + 1 PROVE FALSE
    OBVIOUS
  <2>1. Second * p >= Second * (q + 1)
    BY <1>1
  <2>2. QED
    BY <1>1, <2>1
<1>3. QED
  BY <1>1, <1>2 DEF InSeconds, p, q

\* What fits in a duration is kept.
LEMMA WrapKeeps ==
  ASSUME NEW x \in Int, -(Word \div 2) <= x, x < Word \div 2
  PROVE  Wrap(x) = x
<1> DEFINE h == Word \div 2
<1>1. Word \in Nat \ {0} /\ h \in Int /\ Word = 2 * h
  BY CloudAssumption
<1> HIDE DEF h
<1>2. 0 <= x + h /\ x + h < Word /\ x + h \in Int
  BY <1>1 DEF h
<1>3. (x + h) \div Word = 0
  BY <1>1, <1>2, Quotient
<1>4. (x + h) % Word = x + h
  BY <1>1, <1>2, <1>3, DivMod
<1>5. QED
  BY <1>1, <1>4 DEF Wrap, h

-----------------------------------------------------------------------------

Cloud == {"slb", "cms", "ahas"}

\* Where a request to each source may be, and the types of what it works with; a request to
\* SLS is as SlsSource has it.
CloudTypeInv ==
  /\ source \in {"sls", "none"} \cup Cloud
  /\ asked \in [located : BOOLEAN, interval : Label(Intervals), delay : Label(Delays),
                retry : Label(Retries)]
  /\ params \in [interval : Int, delay : Int, retry : Int]
  /\ now \in 0..(Second - 1 + MaxLag)
  /\ span \in [start : Int, end : Int]
  /\ source = "sls" => TypeInv /\ SpentInv
  /\ source = "none" => pc \in {"params", "done"}
  /\ source \in Cloud =>
       pc \in {"params", "groups", "client", "start", "end", "request", "measured", "done"}

\* A source other than SLS decides nothing before it is done, never gives up, and takes a
\* value from a complete answer only; only CMS has answers that are not.
DecidedInv ==
  source # "sls" =>
    /\ pc # "done" => outcome = "none"
    /\ pc = "measured" /\ source # "cms" => reply.complete
    /\ outcome # "timeout"
    /\ outcome = "value" => reply.complete

LEMMA CloudInit == Init => CloudTypeInv /\ DecidedInv
<1> SUFFICES ASSUME Init PROVE CloudTypeInv /\ DecidedInv
  OBVIOUS
<1>1. SlsInit /\ source \in {"sls", "none"} \cup Cloud
  BY CloudAssumption DEF Init, Cloud
<1>2. TypeInv /\ SpentInv
  BY <1>1, TypeInit DEF SlsInit, SpentInv, CompleteOrSpent
<1>3. now \in 0..(Second - 1 + MaxLag)
  BY CloudAssumption DEF Init
<1>4. QED
  BY <1>1, <1>2, <1>3 DEF Init, SlsInit, CloudTypeInv, DecidedInv, TypeInv

\* What a label stands for, to a source that reads garbled numbers as zero.
LEMMA NumberType ==
  ASSUME CloudTypeInv
  PROVE  Number("interval") \in Int /\ Number("delay") \in Int
<1>1. asked.interval \in Label(Intervals) /\ asked.delay \in Label(Delays)
  BY DEF CloudTypeInv
<1>2. QED
  BY <1>1, NumberAssumption DEF Number, Label

\* The parameters each source makes of them.
LEMMA ParamsType ==
  ASSUME CloudTypeInv, NEW s \in Cloud
  PROVE  /\ ParamsOf[s] \in [interval : Int, delay : Int, retry : Int]
         /\ s = "cms" => ParamsOf[s].interval >= 60
         /\ s = "ahas" => ParamsOf[s].interval > 0 /\ ParamsOf[s].delay > 0
<1>1. /\ AtLeast(60, Number("interval")) \in Int /\ AtLeast(60, Number("interval")) >= 60
      /\ OrDefault(Number("interval"), 10) \in Int /\ OrDefault(Number("interval"), 10) > 0
      /\ OrDefault(Number("delay"), 10) \in Int /\ OrDefault(Number("delay"), 10) > 0
  BY NumberType DEF AtLeast, OrDefault
<1> DEFINE i == AtLeast(60, Number("interval"))
           j == OrDefault(Number("interval"), 10)
           d == OrDefault(Number("delay"), 10)
<1>2. /\ ParamsOf.slb = [Default EXCEPT !.interval = i]
      /\ ParamsOf.cms = [Default EXCEPT !.interval = i]
      /\ ParamsOf.ahas = [Default EXCEPT !.interval = j, !.delay = d]
  BY DEF ParamsOf, SlbParams, CmsParams, AhasParams
<1>3. i \in Int /\ i >= 60 /\ j \in Int /\ j > 0 /\ d \in Int /\ d > 0
  BY <1>1
<1> HIDE DEF i, j, d
<1>4. CASE s = "slb"
  BY <1>2, <1>3, <1>4, DefaultType
<1>5. CASE s = "cms"
  BY <1>2, <1>3, <1>5, DefaultType
<1>6. CASE s = "ahas"
  BY <1>2, <1>3, <1>6, DefaultType
<1>7. QED
  BY <1>4, <1>5, <1>6 DEF Cloud

\* The spans that are fixed are whole numbers of seconds.
LEMMA WrapType == ASSUME NEW x \in Int PROVE Wrap(x) \in Int
<1>1. Word \in Nat \ {0} /\ Word \div 2 \in Int
  BY CloudAssumption
<1>2. QED
  BY <1>1, DivMod DEF Wrap

LEMMA CloudTypeStep == CloudTypeInv /\ DecidedInv /\ [Next]_vars => CloudTypeInv' /\ DecidedInv'
<1> SUFFICES ASSUME CloudTypeInv, DecidedInv, [Next]_vars PROVE CloudTypeInv' /\ DecidedInv'
  OBVIOUS
<1> USE DEF DecidedInv
<1>0. /\ Second \in Nat \ {0} /\ now \in Int /\ params.interval \in Int /\ params.delay \in Int
      /\ span.start \in Int /\ span.end \in Int
  BY CloudAssumption DEF CloudTypeInv
<1>1. CASE source = "sls" /\ (SlsNext \/ UNCHANGED slsVars) /\ UNCHANGED cloudVars
  <2>1. TypeInv' /\ SpentInv'
    BY <1>1, TypeStep, SpentStep DEF CloudTypeInv
  <2>2. /\ asked' \in [located : BOOLEAN, interval : Label(Intervals), delay : Label(Delays),
                       retry : Label(Retries)]
        /\ params' \in [interval : Int, delay : Int, retry : Int]
    BY <2>1 DEF TypeInv
  <2>3. QED
    BY <1>1, <2>1, <2>2 DEF CloudTypeInv, cloudVars, Cloud
<1>2. CASE source \in Cloud /\ ReadLabels
  <2>1. CASE End("error") /\ UNCHANGED <<params, target>>
    <3>1. UNCHANGED <<asked, tries, reply, source, deployments, space, now, span, params>>
      BY <1>2, <2>1 DEF ReadLabels
    <3>2. pc' = "done" /\ outcome' = "error" /\ source # "sls" /\ source # "none"
      BY <1>2, <2>1 DEF End, Cloud
    <3>3. QED
      BY <3>1, <3>2 DEF CloudTypeInv
  <2>2. CASE /\ params' = ParamsOf[source]
             /\ To(IF source = "cms" THEN "groups" ELSE "client")
    <3>1. params' \in [interval : Int, delay : Int, retry : Int]
      BY <1>2, <2>2, ParamsType
    <3>2. pc' \in {"groups", "client"} /\ UNCHANGED outcome /\ pc = "params"
      BY <1>2, <2>2 DEF ReadLabels, To
    <3>3. UNCHANGED <<asked, tries, reply, source, deployments, space, now, span>>
      BY <1>2 DEF ReadLabels
    <3>4. source # "sls" /\ source # "none"
      BY <1>2 DEF Cloud
    <3>5. QED
      BY <1>2, <3>1, <3>2, <3>3, <3>4 DEF CloudTypeInv
  <2>3. QED
    BY <1>2, <2>1, <2>2 DEF ReadLabels
<1>3. CASE source \in Cloud /\ (FindGroup \/ MakeCloudClient)
  BY <1>3 DEF FindGroup, MakeCloudClient, CloudTypeInv, To, End, cloudVars, Cloud
<1>4. CASE source \in Cloud /\ FixSlbSpan
  <2>1. span' \in [start : Int, end : Int]
    <3>1. Wrap(-Wrap(params.interval * Second)) \in Int
      BY <1>0, WrapType
    <3>2. /\ InSeconds(now - 120 * Second) \in Int
          /\ InSeconds(now - 120 * Second + Wrap(-Wrap(params.interval * Second))) \in Int
      BY <1>0, <3>1, SecondsType
    <3>3. QED
      BY <1>4, <3>2 DEF FixSlbSpan, CloudTypeInv
  <2>2. QED
    BY <1>4, <2>1 DEF FixSlbSpan, CloudTypeInv, To, End, Cloud
<1>5. CASE source \in Cloud /\ (FixStart \/ FixEnd)
  <2>1. /\ Wrap(-5 * Wrap(params.interval * Second)) \in Int
        /\ Wrap(-(params.interval + params.delay) * Second) \in Int
        /\ Wrap(-params.delay * Second) \in Int
    <3>1. Wrap(params.interval * Second) \in Int
      BY <1>0, WrapType
    <3>2. QED
      BY <1>0, <3>1, WrapType
  <2>2. \A back \in Int : InSeconds(now + back) \in Int
    BY <1>0, SecondsType
  <2>3. span' \in [start : Int, end : Int]
    BY <1>5, <2>1, <2>2 DEF FixStart, FixEnd, CloudTypeInv
  <2>4. QED
    BY <1>5, <2>3 DEF FixStart, FixEnd, CloudTypeInv, To, Cloud
<1>6. CASE source \in Cloud /\ Measure
  BY <1>6 DEF Measure, CloudTypeInv, To, End, cloudVars, Cloud
<1>7. CASE source \in Cloud /\ TakeMeasured
  <2>1. /\ pc' = "done" /\ outcome' \in {"empty", "value", "error"}
        /\ outcome' = "value" => reply.complete
    <3>1. pc = "measured" /\ source # "sls"
      BY <1>7 DEF TakeMeasured, Cloud
    <3>2. CASE source = "slb"
      BY <1>7, <3>1, <3>2 DEF TakeMeasured, End, SlbOutcome
    <3>3. CASE source = "cms"
      BY <1>7, <3>1, <3>3 DEF TakeMeasured, End, CmsOutcome
    <3>4. CASE source = "ahas"
      BY <1>7, <3>1, <3>4 DEF TakeMeasured, End, AhasOutcome
    <3>5. QED
      BY <1>7, <3>2, <3>3, <3>4 DEF Cloud
  <2>2. UNCHANGED <<asked, params, tries, reply, cloudVars>> /\ source # "sls" /\ source # "none"
    BY <1>7 DEF TakeMeasured, Cloud
  <2>3. QED
    BY <1>7, <2>1, <2>2 DEF CloudTypeInv, cloudVars
<1>8. CASE NoSource
  BY <1>8 DEF NoSource, CloudTypeInv, End, cloudVars, Cloud
<1>9. CASE Tick
  <2>1. now' \in 0..(Second - 1 + MaxLag)
    BY <1>9, <1>0, CloudAssumption DEF Tick, CloudTypeInv
  <2>2. QED
    BY <1>9, <2>1 DEF Tick, CloudTypeInv, slsVars, Cloud
<1>10. CASE UNCHANGED vars
  <2>1. CASE source = "sls"
    BY <1>1, <1>10, <2>1 DEF vars
  <2>2. CASE source # "sls"
    BY <1>10, <2>2 DEF vars, slsVars, cloudVars, CloudTypeInv
  <2>3. QED
    BY <2>1, <2>2
<1>11. Answered /\ UNCHANGED cloudVars => UNCHANGED vars
  BY DEF Answered, vars
<1>12. QED
  BY <1>1, <1>2, <1>3, <1>4, <1>5, <1>6, <1>7, <1>8, <1>9, <1>10, <1>11 DEF Next, Cloud

LEMMA CloudTypeCorrect == Spec => [](CloudTypeInv /\ DecidedInv)
<1>1. QED
  BY CloudInit, CloudTypeStep, PTL DEF Spec

\* Whichever source serves a request, a value comes from a complete answer only, and only a
\* request to SLS gives up, after it has used all its tries on incomplete answers.
THEOREM CloudValuesAreComplete == Spec => []CompleteOrSpent
<1>1. CloudTypeInv /\ DecidedInv => CompleteOrSpent
  BY DEF CloudTypeInv, DecidedInv, SpentInv, CompleteOrSpent
<1>2. QED
  BY <1>1, CloudTypeCorrect, PTL

-----------------------------------------------------------------------------

(***************************************************************************)
(* What is known of the span while it is fixed in two readings of the      *)
(* clock: the bound that is fixed first comes from a reading t that is not *)
(* later than now.                                                         *)
(***************************************************************************)
CmsStart(t) == InSeconds(t + Wrap(-5 * Wrap(params.interval * Second)))
AhasEnd(t) == InSeconds(t + Wrap(-params.delay * Second))

LongEnough ==
  CASE source = "slb" -> Length >= params.interval
    [] source = "cms" -> FitsDuration(5 * params.interval) => Length >= 5 * params.interval
    [] source = "ahas" -> FitsDuration(params.interval + params.delay) =>
         /\ Length <= params.interval
         /\ Length >= params.interval - 1 - MaxLag \div Second

SpanInv ==
  source \in Cloud =>
    /\ pc = "groups" => source = "cms"
    /\ pc \notin {"params", "done"} /\ source = "cms" => params.interval >= 60
    /\ pc \notin {"params", "done"} /\ source = "ahas" => params.interval > 0 /\ params.delay > 0
    /\ source = "cms" /\ pc = "end" => \E t \in 0..now : span.start = CmsStart(t)
    /\ source = "ahas" /\ pc = "start" => \E t \in 0..now : span.end = AhasEnd(t)
    /\ pc \in {"request", "measured"} \/ (source = "cms" /\ pc = "client") => LongEnough

\* Five periods back from an earlier reading is five periods before a later one.
LEMMA CmsSpans ==
  ASSUME NEW i \in Int, i >= 60, FitsDuration(5 * i), NEW t \in Int, NEW u \in Int, t <= u
  PROVE  InSeconds(u + 0) - InSeconds(t + Wrap(-5 * Wrap(i * Second))) >= 5 * i
<1>1. Second \in Nat \ {0} /\ Word \in Nat \ {0} /\ Word \div 2 \in Int /\ Word \div 2 >= 0
  BY CloudAssumption
<1> DEFINE x == i * Second
           h == Word \div 2
<1>2. x \in Int /\ x >= 0 /\ 5 * x < h /\ h \in Int /\ -5 * x = (-5 * i) * Second
  <2>1. x \in Int /\ x >= 0
    BY <1>1
  <2>2. (5 * i) * Second = 5 * x
    BY <1>1
  <2>3. QED
    BY <1>1, <2>1, <2>2 DEF FitsDuration
<1> HIDE DEF x, h
<1>3. Wrap(x) = x
  BY <1>2, WrapKeeps DEF h
<1>4. Wrap(-5 * x) = -5 * x
  BY <1>2, WrapKeeps DEF h
<1>5. InSeconds(t + (-5 * i) * Second) = InSeconds(t) - 5 * i
  <2>1. -5 * i \in Int
    OBVIOUS
  <2>2. QED
    BY <2>1, SecondsShift
<1>6. InSeconds(t) <= InSeconds(u) /\ InSeconds(t) \in Int /\ InSeconds(u) \in Int
  BY SecondsOrder, SecondsType
<1>7. u + 0 = u
  OBVIOUS
<1>8. QED
  BY <1>2, <1>3, <1>4, <1>5, <1>6, <1>7 DEF x

\* An interval back from a later reading, to a delay before an earlier one.
LEMMA AhasSpans ==
  ASSUME NEW i \in Int, NEW d \in Int, i > 0, d > 0, FitsDuration(i + d),
         NEW t \in Int, NEW u \in Int, 0 <= t, t <= u, u <= Second - 1 + MaxLag
  PROVE  LET length == InSeconds(t + Wrap(-d * Second)) - InSeconds(u + Wrap(-(i + d) * Second))
         IN  length <= i /\ length >= i - 1 - MaxLag \div Second
<1>1. /\ Second \in Nat \ {0} /\ Word \in Nat \ {0} /\ Word \div 2 \in Int /\ Word \div 2 >= 0
      /\ MaxLag \in Nat
  BY CloudAssumption
<1> DEFINE x == d * Second
           y == (i + d) * Second
           h == Word \div 2
<1>2. /\ x \in Int /\ y \in Int /\ 0 <= x /\ x <= y /\ y < h /\ h \in Int
      /\ -d * Second = -x /\ -(i + d) * Second = -y
      /\ -x = (-d) * Second /\ -y = (-(i + d)) * Second
  <2>1. x \in Int /\ x >= 0 /\ i * Second >= 0 /\ y = i * Second + x
    BY <1>1
  <2>2. y < h
    BY DEF FitsDuration
  <2>3. QED
    BY <1>1, <2>1, <2>2
<1> HIDE DEF x, y, h
<1>3. Wrap(-x) = -x /\ Wrap(-y) = -y
  BY <1>2, WrapKeeps DEF h
<1>4. /\ InSeconds(t + (-d) * Second) = InSeconds(t) - d
      /\ InSeconds(u + (-(i + d)) * Second) = InSeconds(u) - (i + d)
  <2>1. -d \in Int /\ -(i + d) \in Int
    OBVIOUS
  <2>2. InSeconds(t + (-d) * Second) = InSeconds(t) + (-d)
    BY <2>1, SecondsShift
  <2>3. InSeconds(u + (-(i + d)) * Second) = InSeconds(u) + (-(i + d))
    BY <2>1, SecondsShift
  <2>4. InSeconds(t) \in Int /\ InSeconds(u) \in Int
    BY SecondsType
  <2>5. QED
    BY <2>2, <2>3, <2>4
<1>5. /\ InSeconds(t) <= InSeconds(u) /\ InSeconds(t) \in Int /\ InSeconds(u) \in Int
      /\ 0 <= InSeconds(t)
  <2>1. InSeconds(0) = 0
    BY <1>1, Quotient DEF InSeconds
  <2>2. QED
    BY <2>1, SecondsOrder, SecondsType
<1>6. InSeconds(u) <= 1 + MaxLag \div Second /\ MaxLag \div Second \in Int
  <2>1. InSeconds(u) <= InSeconds(MaxLag + 1 * Second)
    BY <1>1, SecondsOrder
  <2>2. InSeconds(MaxLag + 1 * Second) = InSeconds(MaxLag) + 1
    BY <1>1, SecondsShift
  <2>3. InSeconds(MaxLag) \in Int
    BY <1>1, SecondsType
  <2>4. QED
    BY <1>5, <2>1, <2>2, <2>3 DEF InSeconds
<1>7. QED
  BY <1>2, <1>3, <1>4, <1>5, <1>6

LEMMA SpanStep == CloudTypeInv /\ SpanInv /\ [Next]_vars => SpanInv'
<1> SUFFICES ASSUME CloudTypeInv, SpanInv, [Next]_vars PROVE SpanInv'
  OBVIOUS
<1>0. /\ now \in 0..(Second - 1 + MaxLag) /\ Second \in Nat \ {0} /\ MaxLag \in Nat
      /\ params.interval \in Int /\ params.delay \in Int
      /\ span \in [start : Int, end : Int]
  BY CloudAssumption DEF CloudTypeInv
<1>1. CASE source \notin Cloud /\ UNCHANGED source
  BY <1>1 DEF SpanInv
<1> DEFINE Fixed == UNCHANGED <<source, params, span, now>>
<1>2. Fixed => (LongEnough' <=> LongEnough)
  BY DEF LongEnough, Length, FitsDuration
<1>3. ASSUME pc' = "done" PROVE SpanInv'
  BY <1>3 DEF SpanInv
<1>4. CASE source \in Cloud /\ ReadLabels
  <2>1. /\ UNCHANGED source
        /\ pc' \in {"groups", "client"} => params' = ParamsOf[source]
        /\ pc' \in {"groups", "client", "done"} /\ (pc' = "client" => source # "cms")
    BY <1>4 DEF ReadLabels, To, End
  <2>2. CASE pc' # "done"
    <3>1. /\ source = "cms" => params'.interval >= 60
          /\ source = "ahas" => params'.interval > 0 /\ params'.delay > 0
      BY <1>4, <2>1, <2>2, ParamsType
    <3>2. pc' = "groups" => source = "cms"
      BY <1>4, <2>2 DEF ReadLabels, To, End
    <3>3. QED
      BY <2>1, <2>2, <3>1, <3>2 DEF SpanInv
  <2>3. QED
    BY <1>3, <2>2
<1>5. CASE source \in Cloud /\ FindGroup
  <2>1. CASE pc' = "start"
    <3>1. UNCHANGED <<source, params>> /\ source = "cms" /\ params.interval >= 60
      BY <1>5 DEF FindGroup, SpanInv, cloudVars
    <3>2. QED
      BY <2>1, <3>1 DEF SpanInv
  <2>2. QED
    BY <1>3, <1>5, <2>1 DEF FindGroup, To, End
<1>6. CASE source \in Cloud /\ MakeCloudClient
  <2>1. CASE pc' = "request"
    BY <1>2, <1>6, <2>1 DEF MakeCloudClient, To, End, SpanInv, cloudVars
  <2>2. CASE pc' = "end" /\ source # "cms"
    BY <1>6, <2>2 DEF MakeCloudClient, SpanInv, cloudVars
  <2>3. QED
    BY <1>3, <1>6, <2>1, <2>2 DEF MakeCloudClient, To, End
<1>7. CASE source \in Cloud /\ FixSlbSpan
  <2>1. CASE pc' = "request" /\ UNCHANGED <<source, params>>
    <3>1. span'.end - span'.start >= params'.interval
      BY <1>7, <2>1 DEF FixSlbSpan, JudgeWithPeriod, To, End
    <3>2. source' = "slb"
      BY <1>7, <2>1 DEF FixSlbSpan
    <3>3. LongEnough'
      BY <3>1, <3>2 DEF LongEnough, Length
    <3>4. QED
      BY <2>1, <3>2, <3>3 DEF SpanInv
  <2>2. QED
    BY <1>3, <1>7, <2>1 DEF FixSlbSpan, To, End
<1>8. CASE source = "cms" /\ FixStart
  <2>1. /\ UNCHANGED <<source, params, now>> /\ pc' = "end" /\ pc = "start"
        /\ span' = [span EXCEPT !.start = CmsStart(now)]
    BY <1>8 DEF FixStart, To, CmsStart
  <2>2. span'.start = CmsStart(now) /\ now \in 0..now
    BY <1>0, <2>1
  <2>3. (\E t \in 0..now : span.start = CmsStart(t))'
    BY <2>1, <2>2 DEF CmsStart
  <2>4. params'.interval >= 60
    BY <1>8, <2>1 DEF SpanInv, Cloud
  <2>5. QED
    BY <1>8, <2>1, <2>3, <2>4 DEF SpanInv
<1>9. CASE source = "ahas" /\ FixStart
  <2>1. /\ UNCHANGED <<source, params, now>> /\ pc' = "request" /\ pc = "start"
        /\ span' = [span EXCEPT !.start =
                      InSeconds(now + Wrap(-(params.interval + params.delay) * Second))]
    BY <1>9 DEF FixStart, To
  <2>2. params.interval > 0 /\ params.delay > 0
    BY <1>9, <2>1 DEF SpanInv, Cloud
  <2>3. PICK t \in 0..now : span.end = AhasEnd(t)
    BY <1>9, <2>1 DEF SpanInv, Cloud
  <2>4. /\ span'.start = InSeconds(now + Wrap(-(params.interval + params.delay) * Second))
        /\ span'.end = InSeconds(t + Wrap(-params.delay * Second))
    BY <1>0, <2>1, <2>3 DEF AhasEnd
  <2>5. FitsDuration(params.interval + params.delay) =>
          /\ span'.end - span'.start <= params.interval
          /\ span'.end - span'.start >= params.interval - 1 - MaxLag \div Second
    <3>1. t \in Int /\ now \in Int /\ 0 <= t /\ t <= now /\ now <= Second - 1 + MaxLag
      BY <1>0
    <3>2. QED
      BY <1>0, <2>2, <2>4, <3>1, AhasSpans
  <2>6. LongEnough'
    BY <1>9, <2>1, <2>5 DEF LongEnough, Length, FitsDuration
  <2>7. QED
    BY <1>9, <2>1, <2>2, <2>6 DEF SpanInv
<1>10. CASE source = "cms" /\ FixEnd
  <2>1. /\ UNCHANGED <<source, params, now>> /\ pc' = "client" /\ pc = "end"
        /\ span' = [span EXCEPT !.end = InSeconds(now + 0)]
    BY <1>10 DEF FixEnd, To
  <2>2. params.interval >= 60
    BY <1>10, <2>1 DEF SpanInv, Cloud
  <2>3. PICK t \in 0..now : span.start = CmsStart(t)
    BY <1>10, <2>1 DEF SpanInv, Cloud
  <2>4. span'.end = InSeconds(now + 0) /\ span'.start = CmsStart(t)
    BY <1>0, <2>1, <2>3
  <2>5. FitsDuration(5 * params.interval) => span'.end - span'.start >= 5 * params.interval
    <3>1. t \in Int /\ now \in Int /\ t <= now
      BY <1>0
    <3>2. QED
      BY <1>0, <2>2, <2>4, <3>1, CmsSpans DEF CmsStart
  <2>6. LongEnough'
    BY <1>10, <2>1, <2>5 DEF LongEnough, Length, FitsDuration
  <2>7. QED
    BY <1>10, <2>1, <2>2, <2>6 DEF SpanInv
<1>11. CASE source = "ahas" /\ FixEnd
  <2>1. /\ UNCHANGED <<source, params, now>> /\ pc' = "start" /\ pc = "end"
        /\ span' = [span EXCEPT !.end = AhasEnd(now)]
    BY <1>11 DEF FixEnd, To, AhasEnd
  <2>2. span'.end = AhasEnd(now) /\ now \in 0..now
    BY <1>0, <2>1
  <2>3. (\E t \in 0..now : span.end = AhasEnd(t))'
    BY <2>1, <2>2 DEF AhasEnd
  <2>4. params'.interval > 0 /\ params'.delay > 0
    BY <1>11, <2>1 DEF SpanInv, Cloud
  <2>5. QED
    BY <1>11, <2>1, <2>3, <2>4 DEF SpanInv
<1>12. CASE source \in Cloud /\ Measure
  <2>1. CASE pc' = "measured"
    BY <1>2, <1>12, <2>1 DEF Measure, SpanInv, cloudVars
  <2>2. QED
    BY <1>3, <1>12, <2>1 DEF Measure, To, End
<1>13. CASE source \in Cloud /\ TakeMeasured
  <2>1. pc' = "done"
    <3>1. CASE source = "slb"
      BY <1>13, <3>1 DEF TakeMeasured, End
    <3>2. CASE source = "cms"
      BY <1>13, <3>2 DEF TakeMeasured, End
    <3>3. CASE source = "ahas"
      BY <1>13, <3>3 DEF TakeMeasured, End
    <3>4. QED
      BY <1>13, <3>1, <3>2, <3>3 DEF Cloud
  <2>2. QED
    BY <1>3, <2>1
<1>14. CASE NoSource
  BY <1>3, <1>14 DEF NoSource, End
<1>15. CASE Tick
  <2>1. /\ UNCHANGED <<source, params, span, pc>> /\ now' = now + 1
    BY <1>15 DEF Tick, slsVars
  <2>2. 0..now \subseteq 0..now'
    BY <1>0, <2>1
  <2>3. LongEnough' <=> LongEnough
    BY <2>1 DEF LongEnough, Length, FitsDuration
  <2>4. ASSUME NEW t PROVE CmsStart(t)' = CmsStart(t) /\ AhasEnd(t)' = AhasEnd(t)
    BY <2>1 DEF CmsStart, AhasEnd
  <2>5. /\ (\E t \in 0..now : span.start = CmsStart(t))
             => (\E t \in 0..now : span.start = CmsStart(t))'
        /\ (\E t \in 0..now : span.end = AhasEnd(t))
             => (\E t \in 0..now : span.end = AhasEnd(t))'
    BY <2>1, <2>2 DEF CmsStart, AhasEnd
  <2>6. QED
    BY <2>1, <2>3, <2>5 DEF SpanInv
<1>16. CASE UNCHANGED vars
  <2>1. UNCHANGED <<source, params, span, now, pc>>
    BY <1>16 DEF vars, slsVars, cloudVars
  <2>2. QED
    BY <1>2, <2>1 DEF SpanInv, CmsStart, AhasEnd
<1>17. CASE source = "sls" /\ SlsNext /\ UNCHANGED cloudVars
  BY <1>1, <1>17 DEF Cloud, cloudVars
<1>18. Answered /\ UNCHANGED cloudVars => UNCHANGED vars
  BY DEF Answered, vars
<1>19. /\ FixStart /\ source \in Cloud => source \in {"cms", "ahas"}
       /\ FixEnd /\ source \in Cloud => source \in {"cms", "ahas"}
  BY DEF Cloud, FixStart, FixEnd
<1>20. QED
  BY <1>4, <1>5, <1>6, <1>7, <1>8, <1>9, <1>10, <1>11, <1>12, <1>13, <1>14, <1>15, <1>16, <1>17,
     <1>18, <1>19 DEF Next, Cloud

\* Services are asked for a span that is long enough, whatever number of seconds was given,
\* however wide a duration is and however long the request is interrupted.
THEOREM SpansAreLongEnough == Spec => []SpansItsPeriod
<1>1. Init => SpanInv
  BY DEF Init, SlsInit, SpanInv, Cloud
<1>2. CloudTypeInv /\ SpanInv => SpansItsPeriod
  BY DEF CloudTypeInv, SpanInv, SpansItsPeriod, LongEnough, Cloud, TypeInv, TypeOK
<1>3. QED
  BY <1>1, <1>2, SpanStep, CloudTypeCorrect, PTL DEF Spec

-----------------------------------------------------------------------------

\* A set of numbers has a least one ...
LEMMA Least ==
  ASSUME NEW T \in SUBSET Nat, T # {}
  PROVE  \E x \in T : \A y \in T : x <= y
<1> DEFINE R == OpToRel(<, Nat)
<1>1. IsWellFoundedOn(R, Nat)
  BY NatLessThanWellFounded
<1>2. \A x, y \in Nat : y < x => <<y, x>> \in R
  BY DEF OpToRel
<1> HIDE DEF R
<1>3. \E x \in T : \A y \in T : ~ (<<y, x>> \in R)
  BY <1>1, WFMin
<1>4. PICK x \in T : \A y \in T : ~ (<<y, x>> \in R)
  BY <1>3
<1>5. \A y \in T : x <= y
  <2> TAKE y \in T
  <2>1. x \in Nat /\ y \in Nat
    OBVIOUS
  <2>2. ~(y < x)
    BY <1>2, <1>4, <2>1
  <2>3. QED
    BY <2>1, <2>2
<1>6. QED
  BY <1>5

\* ... and, if it has a bound, a greatest one.
LEMMA Greatest ==
  ASSUME NEW n \in Nat, NEW T \in SUBSET (1..n), T # {}
  PROVE  \E x \in T : \A y \in T : x >= y
<1> DEFINE U == {n - x : x \in T}
<1>1. U \in SUBSET Nat /\ U # {}
  <2>1. \A x \in T : n - x \in Nat
    OBVIOUS
  <2>2. QED
    BY <2>1
<1>2. PICK u \in U : \A v \in U : u <= v
  BY <1>1, Least
<1>3. PICK x \in T : u = n - x
  OBVIOUS
<1>4. ASSUME NEW y \in T PROVE x >= y
  <2>1. n - x <= n - y
    BY <1>2, <1>3
  <2>2. x \in Int /\ y \in Int
    OBVIOUS
  <2>3. QED
    BY <2>1, <2>2
<1>5. QED
  BY <1>4

Deployed == [app : Names \cup {Absent}, space : Names \cup {Absent}]

\* What the loop over the deployments finds: the application of the first that names one, in
\* the AHAS namespace sp of the label, or of the same deployment, or of one before it.
IsPilotOf(t, ds, sp) ==
  \E i \in DOMAIN ds :
    /\ t.app = ds[i].app
    /\ \A j \in 1..(i - 1) : ds[j].app = Absent
    /\ IF sp # Absent THEN t.space = sp
       ELSE IF ds[i].space # Absent THEN t.space = ds[i].space
       ELSE t.space \in {Absent} \cup {ds[j].space : j \in 1..(i - 1)}

\* The loop over the deployments finds such an application, if one is named at all.
LEMMA TargetIsPilot ==
  ASSUME deployments \in Seq(Deployed), ~asked.located, Target.app \in Names
  PROVE  IsPilotOf(Target, deployments, space)
<1> DEFINE n == Len(deployments)
           named == {i \in DOMAIN deployments : deployments[i].app # Absent}
<1>1. n \in Nat /\ DOMAIN deployments = 1..n /\ named \in SUBSET (1..n)
  OBVIOUS
<1>2. Target.app = LastOf("app")
      /\ Target.space = IF space = Absent THEN LastOf("space") ELSE space
  BY DEF Target
<1>3. named # {}
  <2> SUFFICES ASSUME named = {} PROVE FALSE
    OBVIOUS
  <2>1. Seen = deployments
    BY DEF Seen
  <2>2. {i \in DOMAIN Seen : Seen[i]["app"] # Absent} = {}
    BY <2>1
  <2>3. LastOf("app") = Absent
    BY <2>2 DEF LastOf
  <2>4. QED
    BY <1>2, <2>3, CloudAssumption
<1> DEFINE m == CHOOSE i \in named : \A j \in named : i <= j
<1>4. m \in named /\ \A j \in named : m <= j
  <2>1. named \in SUBSET Nat
    BY <1>1
  <2>2. \E i \in named : \A j \in named : i <= j
    <3> HIDE DEF named
    <3>1. QED
      BY <1>3, <2>1, Least
  <2>3. QED
    BY <2>2
<1>5. Seen = SubSeq(deployments, 1, m)
  BY <1>3 DEF Seen
<1>6. m \in 1..n /\ deployments[m].app # Absent
  BY <1>1, <1>4
<1>7. \A j \in 1..(m - 1) : deployments[j].app = Absent
  <2> TAKE j \in 1..(m - 1)
  <2>1. j \in 1..n /\ ~(m <= j)
    BY <1>1, <1>6
  <2>2. j \notin named
    BY <1>4, <2>1
  <2>3. QED
    BY <1>1, <2>1, <2>2
<1> HIDE DEF m, n, named
<1>8. DOMAIN Seen = 1..m /\ \A k \in 1..m : Seen[k] = deployments[k]
  BY <1>1, <1>5, <1>6
<1>9. LastOf("app") = deployments[m].app
  <2>1. {i \in DOMAIN Seen : Seen[i]["app"] # Absent} = {m}
    BY <1>6, <1>7, <1>8
  <2>2. (CHOOSE i \in {m} : \A j \in {m} : i >= j) = m
    BY <1>6
  <2>3. QED
    BY <1>6, <1>8, <2>1, <2>2 DEF LastOf
<1> DEFINE given == {i \in DOMAIN Seen : Seen[i]["space"] # Absent}
           g == CHOOSE i \in given : \A j \in given : i >= j
<1>10. given # {} => g \in given /\ \A j \in given : g >= j
  <2>1. given \in SUBSET (1..m) /\ m \in Nat
    BY <1>6, <1>8
  <2>2. given # {} => \E i \in given : \A j \in given : i >= j
    <3> HIDE DEF given
    <3>1. QED
      BY <2>1, Greatest
  <2>3. QED
    BY <2>2
<1>11. LastOf("space") = IF given = {} THEN Absent ELSE Seen[g].space
  BY DEF LastOf
<1>12. deployments[m].space # Absent => LastOf("space") = deployments[m].space
  <2> SUFFICES ASSUME deployments[m].space # Absent PROVE LastOf("space") = deployments[m].space
    OBVIOUS
  <2>1. m \in given
    BY <1>6, <1>8
  <2>2. g \in 1..m /\ g >= m
    BY <1>8, <1>10, <2>1
  <2>3. g = m
    BY <1>6, <2>2
  <2>4. QED
    BY <1>6, <1>8, <1>11, <2>1, <2>3
<1>13. deployments[m].space = Absent
         => LastOf("space") \in {Absent} \cup {deployments[j].space : j \in 1..(m - 1)}
  <2> SUFFICES ASSUME deployments[m].space = Absent, given # {}
               PROVE  LastOf("space") \in {deployments[j].space : j \in 1..(m - 1)}
    BY <1>11
  <2>1. g \in 1..m /\ Seen[g].space # Absent
    BY <1>8, <1>10
  <2>2. g \in 1..(m - 1) /\ Seen[g] = deployments[g]
    BY <1>6, <1>8, <2>1
  <2> HIDE DEF g, given
  <2>3. LastOf("space") = Seen[g].space
    BY <1>11
  <2>4. Seen[g].space = deployments[g].space
    BY <2>2
  <2>5. LastOf("space") = deployments[g].space
    BY <2>3, <2>4, Zenon
  <2>6. QED
    BY <2>2, <2>5, Zenon
<1>14. QED
  BY <1>1, <1>2, <1>6, <1>7, <1>9, <1>12, <1>13 DEF IsPilotOf

\* The application of a request is that of the label, or such an application, or nobody.
PilotInv ==
  /\ deployments \in Seq(Deployed)
  /\ target = [app |-> target.app, space |-> target.space]
  /\ target.app \in Names => IsPilotOf(target, deployments, space)

LEMMA PilotInit == Init => PilotInv
<1> SUFFICES ASSUME Init PROVE PilotInv
  OBVIOUS
<1>1. deployments \in Seq(Deployed)
  BY CloudAssumption DEF Init, Deployed
<1>2. target.app \notin Names /\ target = [app |-> target.app, space |-> target.space]
  BY CloudAssumption DEF Init, Nobody
<1>3. QED
  BY <1>1, <1>2 DEF PilotInv

LEMMA PilotStep == PilotInv /\ [Next]_vars => PilotInv'
<1> SUFFICES ASSUME PilotInv, [Next]_vars PROVE PilotInv'
  OBVIOUS
<1>1. CASE UNCHANGED <<target, deployments, space>>
  BY <1>1 DEF PilotInv, IsPilotOf
<1>2. CASE ReadLabels
  <2>1. UNCHANGED <<deployments, space>>
    BY <1>2 DEF ReadLabels
  <2>2. CASE target' = Nobody
    BY <2>1, <2>2, CloudAssumption DEF PilotInv, Nobody
  <2>3. CASE target' = Target
    <3>1. ~asked.located /\ Target.app \in Names => IsPilotOf(Target, deployments, space)
      BY TargetIsPilot DEF PilotInv
    <3>2. asked.located => Target.app \notin Names
      BY CloudAssumption DEF Target
    <3>3. target'.app \in Names => IsPilotOf(target', deployments', space')
      BY <2>1, <2>3, <3>1, <3>2
    <3>4. target' = [app |-> target'.app, space |-> target'.space]
      BY <2>3 DEF Target
    <3>5. QED
      BY <2>1, <3>3, <3>4 DEF PilotInv, IsPilotOf
  <2>4. QED
    BY <1>1, <1>2, <2>1, <2>2, <2>3 DEF ReadLabels
<1>3. QED
  BY <1>1, <1>2 DEF Next, FindGroup, MakeCloudClient, FixSlbSpan, FixStart, FixEnd, Measure,
     TakeMeasured, NoSource, Tick, cloudVars, vars

\* If the first deployment that has annotations of the pilot names an application, that is the
\* one asked for, with its AHAS namespace, whatever deployments come after it
\* (k8s_helper.go:61-79).
THEOREM FirstPilotFound == Spec => []FirstPilotIsAsked
<1>1. PilotInv => FirstPilotIsAsked
  <2> SUFFICES ASSUME PilotInv, target.app \in Names, NEW i \in DOMAIN deployments,
                      deployments[i].app # Absent,
                      \A j \in 1..(i - 1) : deployments[j] = Nobody
               PROVE  target = [app |-> deployments[i].app,
                                 space |-> IF space # Absent THEN space ELSE deployments[i].space]
    BY DEF FirstPilotIsAsked
  <2>1. PICK m \in DOMAIN deployments :
          /\ target.app = deployments[m].app
          /\ \A j \in 1..(m - 1) : deployments[j].app = Absent
          /\ IF space # Absent THEN target.space = space
             ELSE IF deployments[m].space # Absent THEN target.space = deployments[m].space
             ELSE target.space \in {Absent} \cup {deployments[j].space : j \in 1..(m - 1)}
    BY DEF PilotInv, IsPilotOf
  <2>2. i \in Nat \ {0} /\ m \in Nat \ {0}
    BY DEF PilotInv
  <2>3. deployments[m].app # Absent
    BY <2>1, CloudAssumption
  <2>4. ~(m < i) /\ ~(i < m)
    <3>1. m < i => m \in 1..(i - 1)
      BY <2>2
    <3>2. i < m => i \in 1..(m - 1)
      BY <2>2
    <3>3. Nobody.app = Absent
      BY DEF Nobody
    <3>4. QED
      BY <2>1, <2>3, <3>1, <3>2, <3>3
  <2>5. m = i
    BY <2>2, <2>4
  <2>6. \A j \in 1..(i - 1) : deployments[j].space = Absent
    BY DEF Nobody
  <2>7. target.app = deployments[i].app
    BY <2>1, <2>5
  <2>8. target.space = IF space # Absent THEN space ELSE deployments[i].space
    BY <2>1, <2>5, <2>6
  <2>9. target = [app |-> target.app, space |-> target.space]
    BY DEF PilotInv
  <2>10. QED
    BY <2>7, <2>8, <2>9
<1>2. QED
  BY <1>1, PilotInit, PilotStep, PTL DEF Spec

-----------------------------------------------------------------------------
(***************************************************************************)
(* SLS behind the manager, and how long a request can take: the part of    *)
(* EveryRequestEnds that is a matter of safety.                            *)
(***************************************************************************)

\* A request that the manager passes to SLS is served just as one that goes to SLS alone
\* (manager.go:81-87).
THEOREM ManagerServesSls == Spec => (source = "sls" => SlsSpec)
<1>1. Init => SlsInit
  BY DEF Init
<1>2. source = "sls" /\ [Next]_vars => (source = "sls")' /\ [SlsNext]_slsVars
  <2> SUFFICES ASSUME source = "sls", [Next]_vars PROVE source' = "sls" /\ [SlsNext]_slsVars
    OBVIOUS
  <2>1. CASE SlsNext /\ UNCHANGED cloudVars
    BY <2>1 DEF cloudVars
  <2>2. CASE Answered /\ UNCHANGED cloudVars
    BY <2>2 DEF Answered, cloudVars
  <2>3. CASE UNCHANGED vars
    BY <2>3 DEF vars, cloudVars
  <2>4. ~NoSource /\ ~Tick
    BY DEF NoSource, Tick
  <2>5. QED
    BY <2>1, <2>2, <2>3, <2>4 DEF Next
<1>3. QED
  BY <1>1, <1>2, PTL DEF Spec, SlsSpec

\* So its rates are right behind the manager too.
THEOREM CloudRatesCountTheirInterval == Spec => (source = "sls" => []RateIsOverItsInterval)
<1>1. QED
  BY ManagerServesSls, RatesCountTheirInterval, PTL

\* What a request to SLS has left to do once its labels are read.
SlsLeft ==
  LET rest == [params |-> 0, client |-> 3, ask |-> 1, reply |-> 2, done |-> 0]
  IN  IF pc \in {"params", "done"} THEN 0 ELSE 2 * (params.retry - tries) + rest[pc]

LEMMA SlsLeftStep ==
  TypeInv /\ [SlsNext]_slsVars
    => [pc' # "params" /\ (pc # "params" => SlsLeft' < SlsLeft)]_slsVars
<1> SUFFICES ASSUME TypeInv, SlsNext, ~UNCHANGED slsVars
             PROVE  pc' # "params" /\ (pc # "params" => SlsLeft' < SlsLeft)
  OBVIOUS
<1> USE DEF SlsLeft
<1>1. /\ tries \in 0..params.retry /\ params.retry \in Int
      /\ pc \in {"params", "client", "ask", "reply", "done"}
  BY DEF TypeInv, TypeOK
<1>2. ASSUME pc' = "done", pc \in {"client", "ask", "reply"} PROVE SlsLeft' < SlsLeft
  BY <1>1, <1>2
<1>3. CASE ReadParams
  BY <1>3 DEF ReadParams, End
<1>4. CASE MakeClient
  BY <1>1, <1>2, <1>4 DEF MakeClient, End
<1>5. CASE GetLogs
  <2>1. CASE pc' = "done"
    BY <1>2, <1>5, <2>1 DEF GetLogs
  <2>2. CASE pc' = "reply"
    BY <1>1, <1>5, <2>2 DEF GetLogs
  <2>3. QED
    BY <1>5, <2>1, <2>2 DEF GetLogs, End
<1>6. CASE TakeNothing \/ TakeValue \/ GiveUp
  BY <1>2, <1>6 DEF TakeNothing, TakeValue, GiveUp, End
<1>7. CASE Retry
  BY <1>1, <1>7 DEF Retry
<1>8. QED
  BY <1>3, <1>4, <1>5, <1>6, <1>7 DEF SlsNext, Answered

\* Once its labels are read a request to SLS takes at most twice its number of tries and three
\* more steps; it never goes back to the labels (ingress.go:87-129).
THEOREM SlsRequestIsBounded ==
  SlsSpec => /\ [](SlsLeft \in 0..(2 * params.retry + 3))
             /\ [][pc' # "params" /\ (pc # "params" => SlsLeft' < SlsLeft)]_slsVars
<1>1. TypeInv => SlsLeft \in 0..(2 * params.retry + 3)
  BY DEF TypeInv, TypeOK, SlsLeft
<1>2. QED
  BY <1>1, TypeInit, TypeStep, SlsLeftStep, PTL DEF SlsSpec

\* What a request to one of the three others has left to do, and what may still interrupt it.
CloudLeft ==
  LET slb == [params |-> 5, groups |-> 0, client |-> 4, end |-> 3, start |-> 0,
              request |-> 2, measured |-> 1, done |-> 0]
      ahas == [params |-> 6, groups |-> 0, client |-> 5, end |-> 4, start |-> 3,
               request |-> 2, measured |-> 1, done |-> 0]
      cms == [params |-> 7, groups |-> 6, start |-> 5, end |-> 4, client |-> 3,
              request |-> 2, measured |-> 1, done |-> 0]
  IN  [slb |-> slb, ahas |-> ahas, cms |-> cms][source][pc] + (Second - 1 + MaxLag - now)

LEMMA CloudLeftStep ==
  CloudTypeInv /\ SpanInv /\ [Next]_vars => [(source \in Cloud) => CloudLeft' < CloudLeft]_vars
<1> SUFFICES ASSUME CloudTypeInv, SpanInv, Next, ~UNCHANGED vars, source \in Cloud
             PROVE  CloudLeft' < CloudLeft
  OBVIOUS
<1> USE DEF CloudLeft, Cloud
<1>1. /\ Second \in Int /\ MaxLag \in Int /\ now \in Int
      /\ pc \in {"params", "groups", "client", "start", "end", "request", "measured", "done"}
      /\ pc = "groups" => source = "cms"
  BY CloudAssumption DEF CloudTypeInv, SpanInv
<1>2. ASSUME pc' = "done", pc \in {"params", "client", "request", "measured"} \/ pc = "groups"
               \/ (pc = "end" /\ source = "slb"), UNCHANGED <<source, now>>
      PROVE  CloudLeft' < CloudLeft
  BY <1>1, <1>2
<1>3. CASE ReadLabels
  BY <1>1, <1>2, <1>3 DEF ReadLabels, To, End
<1>4. CASE FindGroup
  BY <1>1, <1>2, <1>4 DEF FindGroup, To, End, cloudVars
<1>5. CASE MakeCloudClient
  BY <1>1, <1>2, <1>5 DEF MakeCloudClient, To, End, cloudVars
<1>6. CASE FixSlbSpan
  BY <1>1, <1>2, <1>6 DEF FixSlbSpan, To, End
<1>7. CASE FixStart \/ FixEnd
  BY <1>1, <1>7 DEF FixStart, FixEnd, To
<1>8. CASE Measure
  BY <1>1, <1>2, <1>8 DEF Measure, To, End, cloudVars
<1>9. CASE TakeMeasured
  BY <1>1, <1>2, <1>9 DEF TakeMeasured, End, cloudVars
<1>10. CASE Tick
  BY <1>1, <1>10 DEF Tick, slsVars
<1>11. ~NoSource /\ source # "sls" /\ ~(Answered /\ UNCHANGED cloudVars)
  BY DEF NoSource, Answered, vars
<1>12. QED
  BY <1>3, <1>4, <1>5, <1>6, <1>7, <1>8, <1>9, <1>10, <1>11 DEF Next

\* A request to SLB, CMS or AHAS asks its service once and is over after at most seven steps of
\* its own, however it is interrupted.
THEOREM CloudRequestIsBounded ==
  Spec => /\ [](source \in Cloud => CloudLeft \in 0..(6 + Second + MaxLag))
          /\ [][(source \in Cloud) => CloudLeft' < CloudLeft]_vars
<1>1. Init => SpanInv
  BY DEF Init, SlsInit, SpanInv, Cloud
<1>2. CloudTypeInv => (source \in Cloud => CloudLeft \in 0..(6 + Second + MaxLag))
  BY CloudAssumption DEF CloudTypeInv, CloudLeft, Cloud
<1>3. QED
  BY <1>1, <1>2, CloudLeftStep, SpanStep, CloudTypeCorrect, PTL DEF Spec
=============================================================================
