SPECIFICATION Spec
CONSTANTS
  Pods <- MCPods
  Nodes <- MCNodes
  Properties <- MCProperties
  PodAmounts = {2}
  NodeAmounts = {0, 3}
  Bills = {5}
  Weights <- MCWeights
  Aggregates = {"pod", "controller", "node", "label", "owner"}
  ShareSplits = {"weighted", "even", "half"}
  TargetTypes = {"cluster", "region"}
INVARIANT
  EmptyListIsSurvived
