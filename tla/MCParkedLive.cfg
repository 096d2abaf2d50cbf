SPECIFICATION FairSpec
CONSTANTS
  Jobs = {j1}
  None = None
  ShortGrace = FALSE
  MaxRevision = 4
  MaxCommands = 0
  MaxClosures = 1
  MaxEdits = 1
  MaxRevocations = 1
  MaxFaults = 2
PROPERTIES ClosedCommandSettled
