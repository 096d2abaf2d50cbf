SPECIFICATION Spec
CONSTANTS
  Plans = {"d1", "d2", "b1", "b2", "c1"}
  PlanOf <- AllPlans
  Deliveries = {"m"}
  Requests = {r1, r2}
  Stored <- Normalised
  Legacy = {"h"}
  MaxSeq = 6
SYMMETRY RequestSymmetry
CONSTRAINT MCBounds
INVARIANTS
  TypeOK
  ExportReadable
  ReplicaFaithful
PROPERTIES
  RouteKeepsNewest
  ChangesRaiseRevision
  MaintenanceKeepsRecords
