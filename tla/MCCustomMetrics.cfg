SPECIFICATION Spec
CONSTANTS
  a = a
  b = b
  m = m
  r1 = r1
  x = x
  y = y
  pod = pod
  podName = podName
  none = none
  N = 2
  Series <- MCSeries
  Metrics <- MCMetrics
  MetricsOf <- MCMetricsOf
  MaxRestarts = 1
  MaxSeen = 2
  Requests <- MCRequests
  Names <- MCNames
  LabelOf <- MCLabelOf
  NoLabel = NoLabel
  NoEntry = NoEntry
  NoName = none
  Samples <- MCSamples
INVARIANTS
  FiledRightUnlessRelabelled
  NothingLostUnlessRelabelled
