SPECIFICATION FairSpec
CONSTANTS
  Intervals <- MCIntervals
  Delays <- MCDelays
  Retries <- MCRetries
  Absent = Absent
  Garbled = Garbled
  Second = 2
  Word = 2048
  Sources <- OnlySls
  Deployments <- NoDeployments
  Names <- MCNames
  MaxLag = 1
INVARIANT
  IncompleteIsRetried
