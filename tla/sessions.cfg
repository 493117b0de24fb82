CONSTANTS
  t1 = t1
  a1 = a1
  r1 = r1
  Tasks = {t1}
  Callers = {c1, c2}
  Workers = {w1}
  NoWorker = NoWorker
  Artifacts = {a1}
  ResultIds = {r1, r2}
  SessionIds = {s1, s2}
  Risk <- MCRisk
  Governed <- MCGoverned
  Priority <- MCPriority
  MaxAttempts = 3
  LeaseTicks = 1
  BackoffUnit = 1
  BackoffCap = 30
  MaxLag = 0
  MaxEvents = 12
  MaxEnqueues = 2
  MaxUntold = 1
  FuseInUse = FALSE
  RenewalInUse = FALSE
SPECIFICATION LateSpec
INVARIANTS
  SessionsTypeOK
  ResultsRestOnSessions
  SessionsAreAnnounced
  HistoryIsLegal
  ExecutionWasGranted
  ReadyResultBlocks
  ResultAppliedOnce
PROPERTIES
  SessionIsCurrent
  FollowsTheLedger
SYMMETRY Symmetry
