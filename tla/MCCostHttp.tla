----------------------------- MODULE MCCostHttp -----------------------------
(***************************************************************************)
(* Instance of CostRequests for TLC: two requests, one after the other or  *)
(* at the same time, and two pods that differ in every label.  Selectors   *)
(* have up to two terms, about labels pods have and do not have, with one  *)
(* value, two, the empty one and none, or compared with one.               *)
(***************************************************************************)
EXTENDS CostRequests

CONSTANTS r1, r2, p1, p2

MCRequests == {r1, r2}
MCPods == {p1, p2}
MCSymmetry == Permutations(MCRequests)

MCLabelsOf ==
  (p1 :> [pod |-> "pod1", namespace |-> "n1", label_app |-> "3", label_tier |-> "x"]) @@
  (p2 :> [pod |-> "pod2", namespace |-> "n2", label_app |-> "5"])

MCLabelName == [app |-> "label_app", tier |-> "label_tier", pod |-> "label_pod"]

MCNumber == "3" :> 3 @@ "5" :> 5

Term(keys, values) ==
  [key : keys, op : {"in", "notIn"}, values : values]
    \cup [key : keys, op : WithoutValue, values : {<<>>}]

Comparisons == [key : {"app"}, op : Comparison, values : {<<"3">>, <<"5">>}]

AppTerms == Comparisons \cup Term({"app"}, {<<"">>, <<"3">>, <<"3", "5">>})
TierTerms == Term({"tier"}, {<<"x">>})
PodTerms == Term({"pod"}, {<<"pod1">>, <<"pod1", "pod2">>})
TwoPods == <<[key |-> "pod", op |-> "in", values |-> <<"pod1">>],
             [key |-> "pod", op |-> "in", values |-> <<"pod2">>]>>

Texts ==
  {<<>>} \cup {<<t>> : t \in AppTerms \cup TierTerms \cup PodTerms}
    \cup {<<t, u>> : t \in Term({"app"}, {<<"3">>}),
                    u \in Comparisons \cup TierTerms \cup Term({"app"}, {<<"5">>})
                          \cup PodTerms}

MCUrls ==
  [type : {"Namespace"}, dimension : {"", "n1"}, selector : Texts, unit : {""}]
    \cup [type : {"Pod"}, dimension : {<<>>, TwoPods} \cup {<<t>> : t \in PodTerms},
          selector : Texts, unit : {""}]
    \cup [type : {"none"}, dimension : {""}, selector : {<<>>}, 
          unit : {"hour", "month", "min", "year"}]
=============================================================================
