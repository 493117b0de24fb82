CONSTANTS
  w1 = w1
  w2 = w2
  v1 = v1
  v2 = v2
  Callers = {c1, c2}
  Requests <- MCRequests
  R3 = FALSE
  MaxEvents = 5
  FuseInUse = TRUE
SPECIFICATION Spec
PROPERTIES
  OnlyReleaseRemoves
CHECK_DEADLOCK FALSE
