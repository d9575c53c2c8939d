----------------------------- MODULE CostFilter -----------------------------
(***************************************************************************)
(* The filter of a request to the cost API on its way to Prometheus:       *)
(* ParseFilter and GetLabelSelectorStr of costv2/types/filter.go,          *)
(* parseRequirements and the label matchers of buildExternalQuery in       *)
(* costv2/cost_metrics.go.                                                 *)
(*                                                                         *)
(* A text is a sequence of terms, key:"value","value", joined by "+".  The *)
(* names of deployments are replaced by those of their replica sets in     *)
(* between (AllocationRange); here names are only passed on.               *)
(***************************************************************************)
EXTENDS Naturals, Sequences, SequencesExt

CONSTANTS
  Illegal,  \* the values that Kubernetes does not take as the value of a label
  Garbled   \* what a text leaves behind that was not cut between two terms

\* A label's name may have a prefix, "app.kubernetes.io/name"; "label_" in front of it makes
\* it no legal name.
LabelKeys == {"label", "prefixedLabel"}
Keys == LabelKeys \cup {"cluster", "namespace", "controllerName", "controllerKind", "pod"}

NoFilter == [k \in Keys |-> <<>>]

\* Where parseFilterParts cuts: "cluster:" is not among the prefixes it knows.
CutBefore == Keys \ {"cluster"}

\* A term that is not cut off runs into the last value of the term before it.
Glued(part, term) ==
  [part EXCEPT !.values = IF part.key \in LabelKeys THEN <<Garbled>>
                          ELSE Front(@) \o <<Garbled>> \o Tail(term.values)]

AddTerm(parts, term) ==
  IF term.key \in CutBefore \/ parts = <<>>
    THEN Append(parts, term)
    ELSE Append(Front(parts), Glued(Last(parts), term))

Parts(text) == FoldLeft(AddTerm, <<>>, text)

Kind == [deployment |-> "ReplicaSet", replicaset |-> "ReplicaSet", daemonset |-> "DaemonSet",
         statefulset |-> "StatefulSet", job |-> "Job"]

\* What is garbled has a quotation mark in it, and the names of kinds are legal.
ASSUME FilterAssumption ==
  /\ Garbled \in STRING /\ Garbled \in Illegal /\ Garbled \notin DOMAIN Kind
  /\ \A k \in DOMAIN Kind : Kind[k] \notin Illegal

\* The values of a label are not cut at commas, and a filter has one label: a later one
\* replaces it, as a later term replaces an earlier one of its key.
Assign(filter, part) ==
  IF part.key \in LabelKeys
    THEN [k \in Keys |-> CASE k = part.key -> IF Len(part.values) = 1 THEN part.values
                                              ELSE <<Garbled>>
                           [] k \in LabelKeys \ {part.key} -> <<>>
                           [] OTHER -> filter[k]]
    ELSE [filter EXCEPT ![part.key] = part.values]

\* ParseFilter refuses an unknown key and an unknown kind, and nothing else.
Accepted(text) ==
  /\ \A p \in ToSet(Parts(text)) : p.key \in Keys
  /\ ToSet(FoldLeft(Assign, NoFilter, Parts(text)).controllerKind) \subseteq DOMAIN Kind

ParseFilter(text) ==
  LET filter == FoldLeft(Assign, NoFilter, Parts(text))
      KindOf(kind) == Kind[kind]
  IN  [filter EXCEPT !.controllerKind = [i \in DOMAIN @ |-> KindOf(@[i])]]

\* labels.NewRequirement.
IsRequirement(key, values) == key # "prefixedLabel" /\ ToSet(values) \cap Illegal = {}

\* Mutant: a requirement that cannot be made is left out.
Selector_Skip(filter) ==
  [k \in Keys |-> IF IsRequirement(k, filter[k]) THEN filter[k] ELSE <<>>]

\* GetLabelSelectorStr: no selector at all if one of the requirements cannot be made.
Selector(filter) ==
  IF \A k \in Keys : filter[k] # <<>> => IsRequirement(k, filter[k]) THEN filter ELSE NoFilter

\* The matchers of kube_pod_labels and kube_pod_info, which a pod's metrics are joined with;
\* the metrics of nodes and bills are selected by cluster alone.
Matchers(selector, metric) ==
  [k \in {l \in Keys : selector[l] # <<>> /\ (metric = "pod" \/ l = "cluster")}
     |-> ToSet(selector[k])]
=============================================================================
