SPECIFICATION FairSpec
CONSTANTS
  Keys = {k1, k2}
  Batches = {b1, b2}
  Owners = {o1}
  None = None
  MaxItems = 2
  MaxConcurrent = 2
  LeaseSpans = {1, 2}
  RetentionTicks = 1
  MaxRevision = 1
  MaxGeneration = 2
INVARIANTS
  TypeOK
  OwnershipIsLeased
PROPERTIES
  ImplementsOwnership
  MembershipEnds
