---------------------------- MODULE CloudSources ----------------------------
(***************************************************************************)
(* One request to the external metrics manager (metrics/manager.go), which *)
(* passes it to the source that registered the metric: SLS (SlsSource), or *)
(* one of the three that ask a monitoring service once for what it         *)
(* measured in some span of time, SLB (metrics/slb/), CMS (metrics/cms/)   *)
(* and AHAS (metrics/ahas/).                                               *)
(*                                                                         *)
(* The labels of a request are those of SlsSource: "located" says that the *)
(* labels are given that the source cannot do without, "interval" stands   *)
(* for every label with a number of seconds to look back over, "delay" for *)
(* how far before now that ends.  What SLS answers with is read here as    *)
(* what a service answers with: "number" is one with data, "noLogs" an     *)
(* empty list, "null" one that is not written "[]", "noText" nothing;      *)
(* "complete" is the answer's Success flag.                                *)
(*                                                                         *)
(* Instants are in units of 1/Second seconds.  Each source's metrics have  *)
(* names of their own; which of them is asked for makes no difference.     *)
(***************************************************************************)
EXTENDS SlsSource, Sequences

CONSTANTS
  Second,      \* how many units a second has
  Word,        \* 2^64, in units: a time.Duration is -Word/2 .. Word/2 - 1
  Sources,     \* the sources that requests go to, and "none", a metric nobody registered
  Deployments, \* the lists of deployments the request's namespace may have
  Names,       \* the names of applications, or AHAS namespaces, that may be given
  MaxLag       \* bound: how long a request may be interrupted, altogether

ASSUME CloudAssumption ==
  /\ Second \in Nat \ {0} /\ MaxLag \in Nat
  /\ Word \in Nat \ {0} /\ Word % 2 = 0
  /\ Sources \subseteq {"sls", "slb", "cms", "ahas", "none"}
  /\ Deployments \subseteq Seq([app : Names \cup {Absent}, space : Names \cup {Absent}])
  /\ {Absent, "label"} \cap Names = {}

VARIABLES
  source,      \* the source that the manager finds
  deployments, \* the deployments of the request's namespace, with their pilot annotations
  space,       \* the label of an AHAS namespace
  now,         \* the clock
  span,        \* the times the service is asked for, in whole seconds
  target       \* the AHAS application asked for

cloudVars == <<source, deployments, space, now, span, target>>
vars == <<slsVars, cloudVars>>

Nobody == [app |-> Absent, space |-> Absent]

\* Bounds: labels that a source does not read are not given; applications are looked for with
\* one choice of numbers.
Init ==
  /\ SlsInit
  /\ source \in Sources
  /\ deployments \in Deployments
  /\ space \in Names \cup {Absent}
  /\ now \in 0..(Second - 1)
  /\ span = [start |-> 0, end |-> 0]
  /\ target = Nobody
  /\ source # "sls" => asked.retry = Absent
  /\ source \in {"slb", "cms", "none"} => asked.delay = Absent
  /\ source # "ahas" => deployments = <<>> /\ space = Absent
  /\ deployments # <<>> => asked.interval = Absent /\ asked.delay = Absent

-----------------------------------------------------------------------------

\* A product of time.Duration overflows without notice.
Wrap(x) == ((x + Word \div 2) % Word) - Word \div 2

\* Format: fractions of a second are cut off.
InSeconds(t) == t \div Second

\* A number that is garbled is read as zero, and the loop goes on.
Number(key) == IF asked[key] \in {Absent, Garbled} THEN 0 ELSE asked[key]

AtLeast(min, n) == IF n < min THEN min ELSE n
OrDefault(n, default) == IF n <= 0 THEN default ELSE n

\* getSLBParams and getCMSParams raise the period to MIN_PERIOD, getAhasSentinelParams takes
\* its default for what is zero or less.
SlbParams == [Default EXCEPT !.interval = AtLeast(60, Number("interval"))]
CmsParams == [Default EXCEPT !.interval = AtLeast(60, Number("interval"))]
AhasParams == [Default EXCEPT !.interval = OrDefault(Number("interval"), 10),
                              !.delay = OrDefault(Number("delay"), 10)]
ParamsOf == [slb |-> SlbParams, cms |-> CmsParams, ahas |-> AhasParams]

\* Mutant: all deployments are looked at.
Seen_All == deployments

\* The loop over the deployments ends at the first that names an application.
Seen ==
  LET named == {i \in DOMAIN deployments : deployments[i].app # Absent}
  IN  IF named = {} THEN deployments
      ELSE SubSeq(deployments, 1, CHOOSE i \in named : \A j \in named : i <= j)

\* The last of the values of an annotation, as later ones overwrite earlier ones.
LastOf(key) ==
  LET given == {i \in DOMAIN Seen : Seen[i][key] # Absent}
  IN  IF given = {} THEN Absent ELSE Seen[CHOOSE i \in given : \A j \in given : i >= j][key]

\* Without the label of an application, that of the pilot's annotations.  (An AHAS namespace
\* that is Absent in the end is "default".)
Target ==
  IF asked.located THEN [app |-> "label", space |-> space]
  ELSE [app |-> LastOf("app"), space |-> IF space = Absent THEN LastOf("space") ELSE space]

To(where) == pc' = where /\ UNCHANGED outcome

ReadLabels ==
  /\ pc = "params"
  /\ \/ /\ asked.located \/ source = "ahas"
        /\ source = "ahas" => Target.app # Absent
        /\ params' = ParamsOf[source]
        /\ target' = IF source = "ahas" THEN Target ELSE Nobody
        /\ To(IF source = "cms" THEN "groups" ELSE "client")
     \/ /\ ~asked.located \* labels are missing, or the deployments cannot be listed
        /\ End("error")
        /\ UNCHANGED <<params, target>>
  /\ UNCHANGED <<asked, tries, reply, source, deployments, space, now, span>>

\* getGroupIdByName: without a single group of the workload there is nothing to be asked.
FindGroup ==
  /\ pc = "groups"
  /\ To("start") \/ End("empty") \/ End("error")
  /\ UNCHANGED <<asked, params, tries, reply, cloudVars>>

\* Client: SLB looks at the clock after it, AHAS too, CMS before.
MakeCloudClient ==
  /\ pc = "client"
  /\ To(IF source = "cms" THEN "request" ELSE "end") \/ End("error")
  /\ UNCHANGED <<asked, params, tries, reply, cloudVars>>

\* Mutant: the span is not judged.
JudgeWithPeriod_Never(start, end) == TRUE

JudgeWithPeriod(start, end) == InSeconds(end) - InSeconds(start) >= params.interval

\* SLB reads the clock once and looks at its period up to two minutes ago.
FixSlbSpan ==
  /\ source = "slb" /\ pc = "end"
  /\ LET end == now - 120 * Second
         start == end + Wrap(-Wrap(params.interval * Second))
     IN  IF JudgeWithPeriod(start, end)
           THEN span' = [start |-> InSeconds(start), end |-> InSeconds(end)] /\ To("request")
           ELSE End("error") /\ UNCHANGED span
  /\ UNCHANGED <<asked, params, tries, reply, source, deployments, space, now, target>>

\* CMS and AHAS read it twice; CMS looks at five periods, and fixes the start first,
FixStart ==
  /\ source # "slb" /\ pc = "start"
  /\ LET back == IF source = "cms" THEN Wrap(-5 * Wrap(params.interval * Second))
                 ELSE Wrap(-(params.interval + params.delay) * Second)
     IN  span' = [span EXCEPT !.start = InSeconds(now + back)]
  /\ To(IF source = "cms" THEN "end" ELSE "request")
  /\ UNCHANGED <<asked, params, tries, reply, source, deployments, space, now, target>>

\* AHAS the end.
FixEnd ==
  /\ source # "slb" /\ pc = "end"
  /\ LET back == IF source = "cms" THEN 0 ELSE Wrap(-params.delay * Second)
     IN  span' = [span EXCEPT !.end = InSeconds(now + back)]
  /\ To(IF source = "cms" THEN "client" ELSE "start")
  /\ UNCHANGED <<asked, params, tries, reply, source, deployments, space, now, target>>

\* DescribeMetricList, GetSentinelAppSumMetric.
Measure ==
  /\ pc = "request"
  /\ \/ /\ reply' \in [complete : BOOLEAN,
                       first : {"number", "malformed", "noLogs", "null", "noText"}]
        /\ source # "cms" => reply'.complete \* nobody else has the flag, or looks at it
        /\ To("measured")
     \/ End("error") /\ UNCHANGED reply
  /\ UNCHANGED <<asked, params, tries, cloudVars>>

\* What is made of the answer.  SLB: a list without points is zero, no list an error.  CMS: an
\* unsuccessful answer has no values, an empty one is an error, and none if it is not
\* written "[]".  AHAS: without machines the average is zero.
SlbOutcome == IF reply.first \in {"number", "noLogs", "null"} THEN "value" ELSE "error"
CmsOutcome == CASE ~reply.complete \/ reply.first = "null" -> "empty"
                [] reply.complete /\ reply.first = "number" -> "value"
                [] OTHER -> "error"
AhasOutcome == "value"

TakeMeasured ==
  /\ pc = "measured"
  /\ CASE source = "slb" -> End(SlbOutcome)
       [] source = "cms" -> End(CmsOutcome)
       [] source = "ahas" -> End(AhasOutcome)
  /\ UNCHANGED <<asked, params, tries, reply, cloudVars>>

\* GetExternalMetrics: nobody registered the metric.
NoSource ==
  /\ source = "none" /\ pc = "params"
  /\ End("error")
  /\ UNCHANGED <<asked, params, tries, reply, cloudVars>>

Tick ==
  /\ pc \notin {"params", "done"} /\ source \notin {"sls", "none"}
  /\ now < Second - 1 + MaxLag
  /\ now' = now + 1
  /\ UNCHANGED <<slsVars, source, deployments, space, span, target>>

Next ==
  \/ source = "sls" /\ SlsNext /\ UNCHANGED cloudVars
  \/ /\ source \in {"slb", "cms", "ahas"}
     /\ \/ ReadLabels \/ FindGroup \/ MakeCloudClient
        \/ FixSlbSpan \/ FixStart \/ FixEnd
        \/ Measure \/ TakeMeasured
  \/ NoSource \/ Tick
  \/ Answered /\ UNCHANGED cloudVars

Spec == Init /\ [][Next]_vars

\* The request is served, and the services answer.
FairSpec == Spec /\ WF_vars(Next)

-----------------------------------------------------------------------------

\* Does a number of seconds fit in a time.Duration?
FitsDuration(seconds) == seconds * Second < Word \div 2

Length == span.end - span.start

\* Services are asked for a span that is long enough.  SLB: at least a period, whatever
\* number was given, also if its product with time.Second overflows (slb.go:178-185, time.go:9-21).
\* CMS and AHAS do not look at overflow and read the clock twice: where the product fits,
\* CMS asks for at least five periods (workload_metrics.go:180-181); AHAS, which reads the
\* clock for the end first, for an interval less what passed in between, so that an
\* interval of one second may come out empty, but not reversed within a second
\* (ahas_sentinel.go:70-71).
SpansItsPeriod ==
  pc \in {"request", "measured"} =>
    CASE source = "slb" -> Length >= params.interval
      [] source = "cms" -> FitsDuration(5 * params.interval) => Length >= 5 * params.interval
      [] source = "ahas" -> FitsDuration(params.interval + params.delay) =>
           /\ Length <= params.interval
           /\ Length >= params.interval - 1 - MaxLag \div Second

\* Without a label for the application it is looked for in the annotations of deployments.  The
\* first deployment that has any, if it names an application, is the one whose application
\* and AHAS namespace are asked for, whatever those after it have: no namespace of a later
\* one is mixed in (ahas_sentinel.go:157-171, k8s_helper.go:61-79).  Which deployment its HPA
\* scales the request does not say: it is this one only if no other is before it, although
\* docs/metrics/ahas_sentinel.md:133-134 and examples/ahas-sentinel.yaml:105-106 promise
\* the annotations "of target Deployment".  One before it that has an AHAS namespace only may
\* leave that to it.
FirstPilotIsAsked ==
  target.app \in Names =>
    \A i \in DOMAIN deployments :
      deployments[i].app # Absent /\ (\A j \in 1..(i - 1) : deployments[j] = Nobody)
        => target = [app |-> deployments[i].app,
                     space |-> IF space # Absent THEN space ELSE deployments[i].space]
=============================================================================
