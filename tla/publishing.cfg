CONSTANTS
  Callers = {c1, c2}
  Heads = {h1, h2}
  MaxChanges = 1
  MaxPulls = 2
  FuseInUse = TRUE
SPECIFICATION FairSpec
INVARIANTS
  TypeOK
  PublishedIsApproved
  ReceiptIsExact
  RetryFindsItsOwn
PROPERTIES
  KeepsPromise
  PublishConverges
CHECK_DEADLOCK FALSE
