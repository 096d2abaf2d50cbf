SPECIFICATION Spec
CONSTANTS
  Jobs = {j1, j2}
  None = None
  ShortGrace = TRUE
  MaxRevision = 2
  MaxCommands = 1
  MaxClosures = 1
  MaxEdits = 0
  MaxRevocations = 0
  MaxFaults = 2
SYMMETRY JobSymmetry
INVARIANTS TypeOK CancelledNeverAcknowledged
PROPERTIES WriteNotOverSuccessor RemovedOnlyAcknowledged
