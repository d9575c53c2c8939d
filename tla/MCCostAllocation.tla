-------------------------- MODULE MCCostAllocation --------------------------
(***************************************************************************)
(* Instance of CostAllocation for TLC: a pod of a deployment on node n1    *)
(* and a bare pod, labelled, on node n2, which need not have a price.      *)
(***************************************************************************)
EXTENDS CostAllocation

MCPods == {"p1", "p2"}
MCNodes == {"n1", "n2"}

MCProperties ==
  [p \in MCPods |->
     IF p = "p1"
       THEN [namespace |-> "ns", node |-> "n1", controller |-> "web-1", kind |-> "replicaset",
             owner |-> "web", ownerKind |-> "deployment", label |-> ""]
       ELSE [namespace |-> "ns", node |-> "n2", controller |-> "<none>", kind |-> "<none>",
             owner |-> "", ownerKind |-> "", label |-> "v1"]]

MCWeights == <<1, 1>>
=============================================================================
