SPECIFICATION FairSpec
CONSTANTS
  a = a
  b = b
  m = m
  k = k
  r1 = r1
  N = 2
  Series <- MCSeries
  Metrics <- MCMetrics
  MetricsOf <- MCMetricsOf
  MaxRestarts = 1
  MaxSeen = 2
  Requests <- MCRequests
  AlibabaMetrics <- MCAlibabaMetrics
  NoEntry = NoEntry
INVARIANTS
  ListMatchesInfo
  RegistryIsOneListing
  LaterNamerWins
  ListedThenFound
PROPERTIES
  EveryRequestEnds
  StaysKnown
  GoneIsDropped
