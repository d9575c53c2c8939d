SPECIFICATION FairSpec
CONSTANTS
  d = d
  w = w
  r1 = r1
  r2 = r2
  Day <- MCDay
  WindowEnds <- MCWindowEnds
  Steps <- MCSteps
  Workloads <- MCWorkloads
  ReplicaSets <- MCReplicaSets
  MaxSets = 3
INVARIANTS
  StepsTileWindow
  SameReplicaSets
  WidenedOnlyByLoss
PROPERTY
  EveryRequestEnds
