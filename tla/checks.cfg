CONSTANTS
  Callers = {c1, c2}
  Names = {n1}
  Required = {n1}
  MaxRuns = 2
  MaxTime = 2
  FuseInUse = TRUE
SPECIFICATION FairSpec
INVARIANTS
  TypeOK
  RecordsAgree
PROPERTIES
  PassIsEarned
  GateOpens
CHECK_DEADLOCK FALSE
