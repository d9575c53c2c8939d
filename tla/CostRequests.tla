---------------------------- MODULE CostRequests ----------------------------
(***************************************************************************)
(* The requests of CostHttp with what they ask for: from the parameters,   *)
(* made into a selector by buildParams and buildLabelMatches               *)
(* (cost/cost_http.go), to the matchers of kube_pod_labels that the metric *)
(* source of the same package puts into its queries (cost/cost.go), and    *)
(* the pods that are listed for them.                                      *)
(*                                                                         *)
(* A selector is a sequence of terms, a term has a key, an operator and    *)
(* its values in their order.  Values that mean something else as a        *)
(* regular expression are left out, and pods of the same name in two       *)
(* namespaces, which the queries add up.                                   *)
(***************************************************************************)
EXTENDS CostHttp, Integers, SequencesExt

CONSTANTS
  LabelsOf,    \* the series of kube_pod_labels: pod |-> label |-> value
  LabelName,   \* what these series call a label of the pod: "label_" and its name
  Empty,       \* the value of labels a pod does not have, and of parameters not given
  Number,      \* the values that are the text of an integer, and that integer
  Urls         \* the parameters of requests, as records [type, dimension, selector, unit]

\* The operators of a term, and those that are about no value or compare with one.
WithoutValue == {"exists", "notExists", "malformed"}
Comparison == {"gt", "lt"}
Operator == {"in", "notIn"} \cup Comparison \cup WithoutValue

\* What labels.Parse gives.
Requirement ==
  {t \in [key : STRING, op : Operator, values : Seq(STRING)] :
     /\ t.op \in WithoutValue => t.values = <<>>
     /\ t.op \in Comparison => Len(t.values) = 1 /\ Head(t.values) \in DOMAIN Number}

ASSUME RequestsAssumption ==
  /\ Number \in [DOMAIN Number -> Int]
  /\ \A p \in Pods : {"pod", "namespace"} \subseteq DOMAIN LabelsOf[p]
  /\ \A url \in Urls : /\ url.selector \in Seq(Requirement)
                       /\ url.type = "Pod" => url.dimension \in Seq(Requirement)

VARIABLE asked  \* the parameters of each request

vars == <<httpVars, asked>>

Long == {"hour", "day", "week", "month"}

\* buildParams: a dimension is a namespace or a selector of pods, or is passed over.
Params(url) ==
  [namespace |-> IF url.type = "Namespace" THEN url.dimension ELSE Empty,
   pod |-> IF url.type = "Pod" THEN url.dimension ELSE <<>>,
   label |-> url.selector,
   unit |-> IF url.unit = Empty THEN "hour" ELSE url.unit]

Plain == [namespace |-> Empty, pod |-> <<>>, label |-> <<>>, unit |-> "hour"]

Init == HttpInit /\ asked = [r \in Requests |-> Plain]

-----------------------------------------------------------------------------

\* A label of a pod is one of kube_pod_labels by this name.
Prefixed(key) == LabelName[key]

\* Mutant: the label keeps its name.
LabelMatches_Unprefixed(params) == params.label \o params.pod

\* buildLabelMatches: the prefix is put in front of the text, its first term gets it.
LabelMatches(params) ==
  [i \in DOMAIN params.label |->
     IF i = 1 THEN [params.label[i] EXCEPT !.key = Prefixed(@)] ELSE params.label[i]]
  \o params.pod

\* buildPodLabel: of each term the first value, if it is not empty, whatever its operator;
\* terms of the same key are alternatives.
PodMatchers(params) ==
  LET terms == {t \in ToSet(LabelMatches(params)) : Head(t.values) # Empty}
  IN  [k \in {t.key : t \in terms} |-> {Head(t.values) : t \in {u \in terms : u.key = k}}]

Value(p, key) == IF key \in DOMAIN LabelsOf[p] THEN LabelsOf[p][key] ELSE Empty

\* buildExternalQuery; totals are asked for without matchers.
Selected(params, metric) ==
  LET matchers == PodMatchers(params)
  IN  IF metric = "total" THEN Pods
      ELSE {p \in Pods : /\ params.namespace \in {Empty, Value(p, "namespace")}
                         /\ \A k \in DOMAIN matchers : Value(p, k) \in matchers[k]}

\* GetExternalMetricInfoList, getPrometheusSql: the text for the costs of a minute is malformed.
Served(metric, unit) ==
  CASE metric = "total" -> unit \in Long \cup {"min"}
    [] metric \in {"cost", "custom"} -> unit \in Long
    [] OTHER -> TRUE

\* labels.Parse refuses a malformed selector, which is then nil ("!key" is one too when it is
\* the first term and the prefix is put before the "!"); a term without values makes the
\* source panic.
Answerable(r) ==
  /\ Served(Metric(r), asked[r].unit)
  /\ \A t \in ToSet(LabelMatches(asked[r])) : t.op # "malformed" /\ t.values # <<>>

-----------------------------------------------------------------------------

\* Bound: a request that asks for something in particular is alone.
Alone(r) == \A q \in Requests \ {r} : req[q].pc = "idle"

Ask(r) ==
  /\ Arrive(r)
  /\ \A q \in Requests : asked[q] = Plain
  /\ \E url \in Urls :
       /\ asked' = [asked EXCEPT ![r] = Params(url)]
       /\ asked'[r] # Plain => Alone(r)

\* The pods a list adds to what is shown.
Lists(r, pods) ==
  req[r].kind = "detail" => pods \subseteq Selected(asked[r], Metric(r))

Fetch(r) ==
  /\ req[r].pc = "fetch" /\ Answerable(r)
  /\ \/ FetchLimit(r) /\ Lists(r, {p \in Pods : req'[r].limit[p] = Metric(r)})
     \/ FetchPlain(r)
     \/ FetchTotal(r)
     \/ FetchCost(r) /\ Lists(r, req'[r].todo)
  /\ UNCHANGED asked

Continue(r) ==
  /\ Panic(r) \/ StoreTotal(r) \/ DivideValue(r) \/ DivideScale(r) \/ Divided(r) \/ Reply(r)
  /\ UNCHANGED asked

Depart(r) == Leave(r) /\ asked' = [asked EXCEPT ![r] = Plain]

Next == \E r \in Requests : Ask(r) \/ Fetch(r) \/ Continue(r) \/ Depart(r)

Spec == Init /\ [][Next]_vars

-----------------------------------------------------------------------------

\* The pods a selector is about.
Holds(t, value) ==
  CASE t.op = "in" -> value \in ToSet(t.values)
    [] t.op = "notIn" -> value \notin ToSet(t.values)
    [] t.op = "exists" -> value # Empty
    [] t.op = "notExists" -> value = Empty
    [] t.op = "gt" -> value \in DOMAIN Number /\ Number[value] > Number[Head(t.values)]
    [] t.op = "lt" -> value \in DOMAIN Number /\ Number[value] < Number[Head(t.values)]

Wanted(params) ==
  {p \in Pods : /\ params.namespace \in {Empty, Value(p, "namespace")}
                /\ \A t \in ToSet(params.label) : Holds(t, Value(p, Prefixed(t.key)))
                /\ \A t \in ToSet(params.pod) : Holds(t, Value(p, t.key))}

Terms(params) == ToSet(params.label) \cup ToSet(params.pod)

\* Terms that a matcher for their first value turns into something else: "not 3" and "more
\* than 3" become "is 3".
Misread(t) == t.op \in {"notIn"} \cup Comparison

Shown(r) == {p \in Pods : req[r].limit[p] # "none" \/ req[r].divisor[p] # <<>>}

\* A detail shows no pod that was not asked for, except where the selector says something the
\* matchers cannot: that a value is another one, is more or less than one, or is empty, or two
\* things of the same label; or where a label that gets no prefix is another one of the series.
NoOtherIsShown ==
  \A r \in Requests : req[r].kind = "detail" =>
    \/ \A p \in Shown(r) : p \in Wanted(asked[r])
    \/ \E t \in Terms(asked[r]) : Misread(t) \/ Empty \in ToSet(t.values)
    \/ \E t, u \in ToSet(LabelMatches(asked[r])) : t # u /\ t.key = u.key
    \/ \E p \in Pods, i \in DOMAIN asked[r].label :
         i > 1 /\ asked[r].label[i].key \in DOMAIN LabelsOf[p]

\* No pod that was asked for is left out of a list, except where the selector has a term with
\* several values, "is not" or a comparison, or a second label; and the total is that of all
\* pods.
NoneIsLeftOut ==
  \A r \in Requests : req[r].pc = "fetch" /\ Answerable(r) =>
    \/ (IF Metric(r) = "total" THEN Pods ELSE Wanted(asked[r]))
         \subseteq Selected(asked[r], Metric(r))
    \/ \E t \in Terms(asked[r]) : Misread(t) \/ Len(t.values) > 1
    \/ Len(asked[r].label) > 1

\* All lists of a request but the total are of the pods it asked for, as far as matchers can
\* say so (cost_http.go:200-258, cost.go:100-113, 213-262).
SelectsWhatWasAsked == NoOtherIsShown /\ NoneIsLeftOut
=============================================================================
