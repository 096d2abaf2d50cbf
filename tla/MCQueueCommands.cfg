SPECIFICATION Spec
CONSTANTS
  Keys = {k1}
  Capacity = 1
  RetryLimit = 1
  ParkedRecoveryLimit = 1
  Commands <- MCTwoVersions
  MaxHead = 2
  MaxRevision = 3
  MaxLease = 2
  MaxRuns = 1
  MaxAttempt = 1
  MaxClaims = 1
  MaxEpoch = 1
CONSTRAINT MCBounds
INVARIANTS
  TypeOK
  CommandKept
  RetryBudget
