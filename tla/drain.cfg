CONSTANTS
  t1 = t1
  t2 = t2
  Tasks = {t1, t2}
  Callers = {c1, c2}
  Workers = {w1}
  NoWorker = NoWorker
  Artifacts = {a1}
  ResultIds = {}
  Risk <- MCRisk
  Governed <- MCGoverned
  Priority <- MCPriority
  MaxAttempts = 2
  LeaseTicks = 1
  BackoffUnit = 1
  BackoffCap = 30
  MaxLag = 1
  MaxEvents = 2
  MaxEnqueues = 1
  MaxUntold = 0
  FuseInUse = FALSE
  RenewalInUse = FALSE
SPECIFICATION DrainSpec
PROPERTIES
  QueueDrains
