CONSTANTS
  w1 = w1
  w2 = w2
  Workers = {w1}
  NoWorker = NoWorker
  NumExecutions = 1
  MaxAttempts = 2
  RecoveryBatch = 2
  MaxCrashes = 0
  MayRaise <- All
  MayReturn <- None
SPECIFICATION Spec
INVARIANTS FailureRecorded
