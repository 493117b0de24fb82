CONSTANTS
  Callers = {c1, c2}
  Heads = {h1}
  MaxChanges = 0
  MaxPulls = 2
  FuseInUse = FALSE
SPECIFICATION Spec
INVARIANTS
  SinglePull
CHECK_DEADLOCK FALSE
