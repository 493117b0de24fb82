CONSTANTS
  t1 = t1
  t2 = t2
  Tasks = {t1}
  Callers = {c1, c2}
  Workers = {w1, w2}
  NoWorker = NoWorker
  Artifacts = {a1}
  ResultIds = {r1}
  Risk <- MCRisk
  Governed <- MCGoverned
  Priority <- MCPriority
  MaxAttempts = 3
  LeaseTicks = 1
  BackoffUnit = 1
  BackoffCap = 30
  MaxLag = 1
  MaxEvents = 4
  MaxEnqueues = 2
  MaxUntold = 1
  FuseInUse = TRUE
  RenewalInUse = TRUE
SPECIFICATION Spec
PROPERTIES
  FuseBlocksClaims
SYMMETRY Symmetry
