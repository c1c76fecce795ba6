CONSTANTS
  w1 = w1
  w2 = w2
  Workers = {w1, w2}
  NoWorker = NoWorker
  NumExecutions = 2
  MaxAttempts = 2
  RecoveryBatch = 2
  MaxCrashes = 1
  MayRaise <- All
  MayReturn <- All
SPECIFICATION Spec
SYMMETRY Replicas
VIEW Seen
INVARIANTS SingleOwner ResultsAccounted
PROPERTIES CancelledForGood OutcomeSpec
