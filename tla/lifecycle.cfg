CONSTANTS
  Artifacts = {a1}
  MaxVersion = 18
SPECIFICATION Spec
INVARIANTS
  TypeOK
  ExecutionIsGoverned
  ReadyIsReviewedAfresh
  ReworkBudget
CHECK_DEADLOCK FALSE
