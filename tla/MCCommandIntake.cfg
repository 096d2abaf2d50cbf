SPECIFICATION FairSpec
CONSTANTS
  Bodies = {"b1", "b2"}
  MaxTime = 2
  MaxEdits = 1
  MaxSource = 2
  MaxFaults = 2
  AttemptLimit = 2
INVARIANTS
  TypeOK
  LiveVersionNotDropped
PROPERTY AcceptedIsAnswered
