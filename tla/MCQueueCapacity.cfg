SPECIFICATION Spec
CONSTANTS
  Keys = {k1, k2}
  Capacity = 1
  RetryLimit = 1
  ParkedRecoveryLimit = 0
  Commands <- MCNoCommands
  MaxHead = 1
  MaxRevision = 1
  MaxLease = 1
  MaxRuns = 1
  MaxAttempt = 1
  MaxClaims = 1
  MaxEpoch = 0
INVARIANTS
  ActiveWithinCapacity
