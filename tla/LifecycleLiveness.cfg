CONSTANTS
  w1 = w1
  w2 = w2
  Workers = {w1}
  NoWorker = NoWorker
  NumExecutions = 2
  MaxAttempts = 2
  RecoveryBatch = 2
  MaxCrashes = 1
  MayRaise <- Newest
  MayReturn <- All
SPECIFICATION FairSpec
PROPERTIES EventuallySettled CancelTakesEffect
