CONSTANTS
  q1 = q1
  s1 = s1
  s2 = s2
  e1 = e1
  e2 = e2
  x = x
  y = y
  Callers = {c1, c2, c3}
  Requests <- MCRequests
  Candidates <- MCCandidates
  MaxSwitches = 2
SPECIFICATION Spec
INVARIANTS
  TypeOK
  TasksAreAccountedFor
  AuditTellsFuse
  ArtifactsAreStored
  NoCircleOfWaiting
PROPERTIES
  FuseStopsIngestion
SYMMETRY Symmetry
CHECK_DEADLOCK FALSE
