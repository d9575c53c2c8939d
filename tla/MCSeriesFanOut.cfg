SPECIFICATION FairSpec
CONSTANTS
  s1 = s1
  s2 = s2
  s3 = s3
  up = up
  N = 3
  Selectors <- MCSelectors
  Series <- MCSeries
  Nil = Nil
  Error = Error
  Pending = Pending
INVARIANTS
  RoomToSend
  CollectorIsFed
  NoSendOnClosed
PROPERTIES
  ImplementsListing
  EveryCallReturns
  NoGoroutineLeak
