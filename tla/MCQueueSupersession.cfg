SPECIFICATION Spec
CONSTANTS
  Keys = {k1}
  Capacity = 1
  RetryLimit = 1
  ParkedRecoveryLimit = 0
  Commands <- MCOneCommand
  MaxHead = 2
  MaxRevision = 3
  MaxLease = 1
  MaxRuns = 1
  MaxAttempt = 1
  MaxClaims = 1
  MaxEpoch = 0
INVARIANTS
  SupersededCompletionAcknowledged
