SPECIFICATION Spec
CONSTANTS
  Reviewers = {r1}
  Sweepers = {s1}
  None = None
  MaxHead = 2
  MaxId = 2
  MaxTries = 2
  MaxAttempt <- SweepersTwice
  MaxReview = 1
INVARIANTS TypeOK OneDedicatedHolder
PROPERTY CleanupSparesCurrentHead
