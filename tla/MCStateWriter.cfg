SPECIFICATION FairSpec
CONSTANTS
  o1 = o1
  b1 = b1
  c1 = c1
  Tickets = {b1, c1}
  Class <- MCClass
  Tokens = {k1, k2, k3, k4}
  None = None
  LeaseTicks = 2
  StaleTicks = 2
  MaxAgeTicks = 3
  RetentionTicks = 1
  AmbiguousLimit = 2
  MaxLate = 1
INVARIANTS
  TypeOK
  AtMostOneLease
  ServiceBound
PROPERTIES
  LiveLeaseEndsOnlyByItsOwner
  ImplementsWriterLock
  QueuedIsServed
