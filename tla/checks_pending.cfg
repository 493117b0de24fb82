CONSTANTS
  Callers = {c1}
  Names = {n1}
  Required = {n1}
  MaxRuns = 2
  MaxTime = 2
  FuseInUse = FALSE
SPECIFICATION Spec
PROPERTIES
  PendingBlocks
CHECK_DEADLOCK FALSE
