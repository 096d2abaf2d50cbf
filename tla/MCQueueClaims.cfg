SPECIFICATION FairSpec
CONSTANTS
  Keys = {k1}
  Capacity = 1
  RetryLimit = 1
  ParkedRecoveryLimit = 0
  Commands <- MCNoCommands
  MaxHead = 1
  MaxRevision = 2
  MaxLease = 1
  MaxRuns = 2
  MaxAttempt = 2
  MaxClaims = 2
  MaxEpoch = 0
INVARIANTS
  OneClaimantPerGeneration
  GenerationChargedOnce
PROPERTY LeaseEnds
