SPECIFICATION FairSpec
CONSTANTS
  Intervals <- MCIntervals
  Delays <- MCDelays
  Retries <- MCRetries
  Absent = Absent
  Garbled = Garbled
  Second = 2
  Word = 2048
  Sources <- AllSources
  Deployments <- MCDeployments
  Names <- MCNames
  MaxLag = 1
INVARIANTS
  CompleteOrSpent
  RateIsOverItsInterval
  SpansItsPeriod
  FirstPilotIsAsked
PROPERTY
  EveryRequestEnds
