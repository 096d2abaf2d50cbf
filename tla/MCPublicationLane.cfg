SPECIFICATION Spec
CONSTANTS
  Keys = {1, 2, 3}
  Lineage <- RepeatedThenNewer
  Batches = {b1, b2}
  Owners = {o1}
  None = None
  MaxItems = 2
  MaxConcurrent = 2
  LeaseSpans = {1}
  RetentionTicks = 0
  MaxRevision = 2
  MaxGeneration = 3
  FailureLimit = 3
  DeadLetterSlots = 1
CONSTRAINT MCBounds
SYMMETRY BatchSymmetry
INVARIANTS
  TypeOK
  FetchedIsCurrent
PROPERTY PublicationNotLost
