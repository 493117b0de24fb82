CONSTANTS
  w1 = w1
  w2 = w2
  v1 = v1
  v2 = v2
  Callers = {c1, c2, c3}
  Requests <- MCRequests
  R3 = FALSE
  MaxEvents = 4
  FuseInUse = TRUE
SPECIFICATION Spec
INVARIANTS
  TypeOK
  OneActivePerPurpose
  EventsTellTheLedger
PROPERTIES
  ImplementerIsCurrent
SYMMETRY Symmetry
CHECK_DEADLOCK FALSE
