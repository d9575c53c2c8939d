--------------------------- MODULE CostAllocation ---------------------------
(***************************************************************************)
(* One step of an allocation: CostManager.ComputeAllocation, with the      *)
(* metric lists it fetches from the API server one after the other, and    *)
(* AllocationSet.AggregateBy (pkg/metrics/costv2/cost_manager.go,          *)
(* types/allocation.go).                                                   *)
(*                                                                         *)
(* Every list is a request of its own: it may fail, when the code goes on  *)
(* with a nil list, and it shows Prometheus at its own time, so a later    *)
(* list may have a pod that kube_pod_info did not have.  Using a nil list  *)
(* or a pod that is not in podMap is a nil dereference: the handler's      *)
(* goroutine panics and the client gets no answer.                         *)
(*                                                                         *)
(* A metric source answers an empty result with an error                   *)
(* (cost_metrics.go:144-146), so an empty list is a nil list here.         *)
(***************************************************************************)
EXTENDS Fractions, Sequences, FiniteSets

CONSTANTS
  Pods,        \* the pods (namespace/name) there may be
  Nodes,       \* the nodes there may be
  Properties,  \* Properties[p] = [namespace, node, controller, kind, owner, ownerKind, label]:
               \* what the metrics say of p, and what the ReplicaSet says of its owner
  PodAmounts,  \* what the CPU or the memory of a pod may cost
  NodeAmounts, \* what a node may cost
  Bills,       \* what a bill may amount to
  Weights,     \* <<weight of CPU, weight of memory>> (getCostWeights)
  Aggregates,  \* the values of the aggregate parameter
  ShareSplits, \* the values of the shareSplit parameter
  TargetTypes  \* the values of the targetType parameter

\* Amounts and weights are float64 numbers in the code, of which any few are whole multiples of
\* a common unit: here a pod's amounts and the weights are multiples of a unit each, a node's
\* price and a bill of the product of the two.  Prices come from node_current_price by the name
\* of the node (cost_metrics.go:49), which in Kubernetes is not empty; a pod without a node has
\* the empty name for one.
ASSUME AllocationAssumption ==
  /\ IsFiniteSet(Pods) /\ IsFiniteSet(Nodes) /\ "" \notin Nodes
  /\ PodAmounts \subseteq Int /\ NodeAmounts \subseteq Int /\ Bills \subseteq Int
  /\ Weights \in Int \X Int

VARIABLES
  params,   \* the AllocationParams
  pc,       \* the list to be fetched next, or "aggregate", "done", "error", "panic"
  podMap,   \* pod |-> its controller as initPodMap found it
  labelled, \* the pods kube_pod_labels gave labels to
  costs,    \* metric name |-> pod |-> amount: CostCPURequest and CostRAMRequest
  nodeCost, \* nodeCostList: node |-> amount
  total,    \* totalCost
  allocSet  \* name |-> [cost, ratio]

fetched == <<podMap, labelled, costs, nodeCost>>
vars == <<params, pc, podMap, labelled, costs, nodeCost, total, allocSet>>

\* The lists applyMetricToPodMap is called for, in this order, and what follows each.
PodMetrics == <<"cpu_core_request_average", "cpu_core_usage_average",
                "memory_request_average", "memory_usage_average",
                "cost_pod_cpu_request", "cost_pod_memory_request", "cost_custom">>
CostMetrics == {"cost_pod_cpu_request", "cost_pod_memory_request"}

After(i) == IF i = Len(PodMetrics) THEN "cost_node" ELSE PodMetrics[i + 1]

Params ==
  [apiType : {"cost", "allocation"}, targetType : TargetTypes, idle : BOOLEAN,
   shareIdle : BOOLEAN, shareSplit : ShareSplits, idleByNode : BOOLEAN,
   aggregate : Aggregates, filtered : BOOLEAN]

Nothing == [p \in {} |-> {}]

Init ==
  /\ params \in Params
  /\ pc = "kube_pod_info"
  /\ podMap = Nothing
  /\ labelled = {}
  /\ costs = [c \in CostMetrics |-> Nothing]
  /\ nodeCost = Nothing
  /\ total = Zero
  /\ allocSet = Nothing

-----------------------------------------------------------------------------

UseNilList ==
  /\ pc \in {"kube_pod_info", "kube_pod_labels", "kube_node_info", "cost_node"}
  /\ pc' = "panic"
  /\ UNCHANGED <<params, fetched, total, allocSet>>

\* The controller initPodMap records: the owner of the ReplicaSet, if it could be read.
Controllers(p) ==
  LET itself == <<Properties[p].kind, Properties[p].controller>>
  IN  IF Properties[p].kind = "replicaset"
        THEN {itself, <<Properties[p].ownerKind, Properties[p].owner>>} ELSE {itself}

\* Items without a pod or namespace label are skipped, so podMap may be empty.
FetchPodInfo ==
  /\ pc = "kube_pod_info"
  /\ \E found \in SUBSET Pods :
       \E f \in [found -> UNION {Controllers(p) : p \in Pods}] :
         /\ \A p \in found : f[p] \in Controllers(p)
         /\ podMap' = f
  /\ pc' = "kube_pod_labels"
  /\ UNCHANGED <<params, labelled, costs, nodeCost, total, allocSet>>

FetchPodLabels ==
  /\ pc = "kube_pod_labels"
  /\ labelled' \in SUBSET DOMAIN podMap
  /\ pc' = "kube_node_info"
  /\ UNCHANGED <<params, podMap, costs, nodeCost, total, allocSet>>

\* (The provider ids are only carried along.)
FetchNodeInfo ==
  /\ pc = "kube_node_info"
  /\ pc' = PodMetrics[1]
  /\ UNCHANGED <<params, fetched, total, allocSet>>

\* applyMetricToPodMap with a list that is nil, or has only pods of podMap.
ApplyMetric(i) ==
  /\ pc = PodMetrics[i]
  /\ IF pc \in CostMetrics
       THEN \E known \in SUBSET DOMAIN podMap : \E f \in [known -> PodAmounts] :
              costs' = [costs EXCEPT ![pc] = f]
       ELSE UNCHANGED costs
  /\ pc' = After(i)
  /\ UNCHANGED <<params, podMap, labelled, nodeCost, total, allocSet>>

\* The list has a pod that is not in podMap: podMap[key] is nil.
ApplyUnknownPod(i) ==
  /\ pc = PodMetrics[i]
  /\ DOMAIN podMap # Pods
  /\ pc' = "panic"
  /\ UNCHANGED <<params, fetched, total, allocSet>>

FetchNodeCost ==
  /\ pc = "cost_node"
  /\ \E known \in (SUBSET Nodes) \ {{}} : nodeCost' \in [known -> NodeAmounts]
  /\ pc' = "compute"
  /\ UNCHANGED <<params, podMap, labelled, costs, total, allocSet>>

-----------------------------------------------------------------------------
(***************************************************************************)
(* The computation, on the lists that were fetched.                        *)
(***************************************************************************)
Known == DOMAIN podMap

Of(c, p) == IF p \in DOMAIN costs[c] THEN costs[c][p] ELSE 0

\* pod.Allocations.Cost, estimated
Estimated(p) ==
  Whole(Weights[1] * Of("cost_pod_cpu_request", p) + Weights[2] * Of("cost_pod_memory_request", p))

TotalNodeCost == SumOf([n \in DOMAIN nodeCost |-> Whole(nodeCost[n])])

\* Mutant: the total is not compared with zero.
Ratio_Unguarded(p) == Estimated(p) (/) TotalNodeCost

\* pod.Allocations.CostRatio
Ratio(p) == IF TotalNodeCost = Zero THEN Zero ELSE Estimated(p) (/) TotalNodeCost

\* The cost of a pod before the idle cost is dealt with.
PodCost(p, all) == IF params.apiType = "allocation" THEN Ratio(p) (.) all ELSE Estimated(p)

\* Mutant: totalPodCost is not reset before the costs become shares of the bill.
TotalPodCost_NoReset(all) ==
  SumOf([p \in Known |-> Estimated(p)])
    (+) IF params.apiType = "allocation" THEN SumOf([p \in Known |-> PodCost(p, all)]) ELSE Zero

TotalPodCost(all) == SumOf([p \in Known |-> PodCost(p, all)])

ShowIdle == params.idle /\ ~params.filtered

\* Mutant: the ratio is left as it was.
Shared_OldRatio(p, all) ==
  LET idle == all (-) TotalPodCost(all)
      part == IF params.shareSplit = "weighted"
                THEN (idle (.) PodCost(p, all)) (/) TotalPodCost(all)
                ELSE idle (/) Whole(Cardinality(Known))
  IN  [cost |-> PodCost(p, all) (+) part, ratio |-> Ratio(p)]

\* What a pod has with its share of the idle cost.
Shared(p, all) ==
  LET idle == all (-) TotalPodCost(all)
      part == IF params.shareSplit = "weighted"
                THEN (idle (.) PodCost(p, all)) (/) TotalPodCost(all)
                ELSE idle (/) Whole(Cardinality(Known))
      cost == PodCost(p, all) (+) part
  IN  [cost |-> cost, ratio |-> cost (/) all]

Pod(p) == <<"pod", p>>
IdleName == <<"__idle__">>
IdleOf(n) == <<"idle", n>>
ByNode == params.aggregate = "node" /\ params.idleByNode

\* The pods' allocations; all is the total that is shared out.
PodEntries(all) ==
  [x \in {Pod(p) : p \in Known} |->
     IF ShowIdle /\ params.shareIdle THEN Shared(x[2], all)
     ELSE [cost |-> PodCost(x[2], all), ratio |-> Ratio(x[2])]]

\* Idle cost shown separately: the nodes' whole costs, from which AggregateBy takes the
\* pods' off, or one entry.
IdleEntries(all) ==
  IF ~ShowIdle \/ params.shareIdle THEN Nothing
  ELSE IF ByNode
    THEN [x \in {IdleOf(n) : n \in DOMAIN nodeCost} |->
            LET part == Whole(nodeCost[x[2]]) (/) TotalNodeCost
            IN  [cost |-> part (.) all, ratio |-> part]]
    ELSE [x \in {IdleName} |->
            [cost |-> all (-) TotalPodCost(all), ratio |-> One (-) SumOf([p \in Known |-> Ratio(p)])]]

Entries(all) ==
  LET pods == PodEntries(all)
      idle == IdleEntries(all)
  IN  [x \in DOMAIN pods \cup DOMAIN idle |-> IF x \in DOMAIN pods THEN pods[x] ELSE idle[x]]

\* totalCost; the billing metric counts as 0 if it cannot be read.
Totals ==
  IF params.apiType = "cost" THEN {TotalNodeCost}
  ELSE {Zero} \cup {Whole(b) : b \in Bills}

BadTarget == params.apiType = "allocation" /\ params.targetType \notin {"cluster", "node"}
BadSplit ==
  ShowIdle /\ params.shareIdle /\ Known # {} /\ params.shareSplit \notin {"weighted", "even"}

Compute ==
  /\ pc = "compute" /\ ~BadTarget /\ ~BadSplit
  /\ \E all \in Totals :
       /\ total' = all
       /\ allocSet' = Entries(all)
  /\ pc' = "aggregate"
  /\ UNCHANGED <<params, fetched>>

ComputeFails ==
  /\ pc = "compute" /\ (BadTarget \/ BadSplit)
  /\ pc' = "error"
  /\ UNCHANGED <<params, fetched, total, allocSet>>

-----------------------------------------------------------------------------
(***************************************************************************)
(* AllocationSet.AggregateBy                                               *)
(***************************************************************************)
Unallocated == <<"__unallocated__">>

\* The property of a pod it is aggregated by; "" if there is none.
Group(p) ==
  CASE params.aggregate = "namespace" -> Properties[p].namespace
    [] params.aggregate = "controller" -> IF "<none>" \in {podMap[p][1], podMap[p][2]} THEN ""
                                          ELSE podMap[p]
    [] params.aggregate = "controllerKind" -> IF podMap[p][1] = "<none>" THEN "" ELSE podMap[p][1]
    [] params.aggregate = "node" -> Properties[p].node
    [] params.aggregate = "label" -> IF p \in labelled THEN Properties[p].label ELSE ""

AggregateKey(name) ==
  IF name[1] # "pod" THEN name
  ELSE IF Group(name[2]) = "" THEN Unallocated ELSE <<"group", Group(name[2])>>

Merged(set, names) ==
  [cost |-> SumOf([x \in names |-> set[x].cost]),
   ratio |-> SumOf([x \in names |-> set[x].ratio])]

AggSet(set) ==
  [key \in {AggregateKey(x) : x \in DOMAIN set} |->
     Merged(set, {x \in DOMAIN set : AggregateKey(x) = key})]

\* Mutant: the pods' cost is left in their node's idle cost.
SplitIdle_KeepPods(set) == set

\* For aggregate=node with idleByNode: a node's idle cost is what its pods leave of it.
SplitIdle(set) ==
  [key \in DOMAIN set |->
     IF ByNode /\ key[1] = "idle" /\ <<"group", key[2]>> \in DOMAIN set
       THEN LET pods == set[<<"group", key[2]>>]
            IN  [cost |-> set[key].cost (-) pods.cost, ratio |-> set[key].ratio (-) pods.ratio]
       ELSE set[key]]

\* An empty set stays empty, whatever the aggregate parameter says.
Aggregate ==
  /\ pc = "aggregate"
  /\ params.aggregate \in {"pod", "namespace", "controller", "controllerKind", "node", "label"}
       \/ DOMAIN allocSet = {}
  /\ allocSet' = IF params.aggregate = "pod" \/ DOMAIN allocSet = {} THEN allocSet
                 ELSE SplitIdle(AggSet(allocSet))
  /\ pc' = "done"
  /\ UNCHANGED <<params, fetched, total>>

AggregateFails ==
  /\ pc = "aggregate" /\ DOMAIN allocSet # {}
  /\ params.aggregate \notin {"pod", "namespace", "controller", "controllerKind", "node", "label"}
  /\ pc' = "error"
  /\ UNCHANGED <<params, fetched, total, allocSet>>

Answered == pc \in {"done", "error", "panic"} /\ UNCHANGED vars

Next ==
  \/ FetchPodInfo \/ FetchPodLabels \/ FetchNodeInfo \/ FetchNodeCost \/ UseNilList
  \/ \E i \in 1..Len(PodMetrics) : ApplyMetric(i) \/ ApplyUnknownPod(i)
  \/ Compute \/ ComputeFails \/ Aggregate \/ AggregateFails
  \/ Answered

Spec == Init /\ [][Next]_vars

-----------------------------------------------------------------------------

Finite == \A x \in DOMAIN allocSet : IsFinite(allocSet[x].cost) /\ IsFinite(allocSet[x].ratio)

\* The idle cost is part of the answer.  With shareIdle there must be a pod to take it; by
\* node it is complete only if the nodes of all pods have a price.
IdleIsAccounted ==
  /\ pc = "done" /\ ShowIdle /\ Finite
  /\ params.shareIdle => Known # {}
  /\ ByNode /\ ~params.shareIdle => \A p \in Known : Properties[p].node \in DOMAIN nodeCost

\* When the idle cost is part of the answer, the costs of its entries add up to the total,
\* the price of the nodes or the bill, whichever way the idle cost is shown or shared and
\* whatever the entries are aggregated by (cost_manager.go:125-222, types/allocation.go:80-168).
CostIsConserved ==
  IdleIsAccounted => SumOf([x \in DOMAIN allocSet |-> allocSet[x].cost]) = total

\* Likewise the ratios add up to one.
RatiosSumToOne ==
  IdleIsAccounted => SumOf([x \in DOMAIN allocSet |-> allocSet[x].ratio]) = One

\* By node, a node's idle cost is its share of the total less the cost of the pods that run
\* on it, also when it runs none (cost_manager.go:199-210, types/allocation.go:154-165).
NodeIdleIsWhatPodsLeave ==
  pc = "done" /\ ShowIdle /\ ~params.shareIdle /\ ByNode /\ Finite =>
    \A n \in DOMAIN nodeCost :
      allocSet[IdleOf(n)].cost =
        ((Whole(nodeCost[n]) (/) TotalNodeCost) (.) total)
          (-) SumOf([p \in {q \in Known : Properties[q].node = n} |-> PodCost(p, total)])

\* An answer has a NaN or an infinity in it, which json.Marshal refuses and the handler
\* turns into an empty body (cost_manager.go:620, 747), only if idle cost is shared among pods
\* that cost nothing or out of a total of zero, or split among nodes without a price.
FiniteUnlessDividedByZero ==
  pc = "done" /\ ~Finite =>
    /\ ShowIdle
    /\ IF params.shareIdle THEN TotalPodCost(total) = Zero \/ total = Zero
                           ELSE ByNode /\ TotalNodeCost = Zero

\* An empty metric list is noticed, logged and survived: what the checks at
\* cost_manager.go:232, 300 and 325 are there for.
EmptyListIsSurvived == pc # "panic"
=============================================================================
