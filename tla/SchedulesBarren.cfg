CONSTANTS
  w1 = w1
  w2 = w2
  q1 = q1
  q2 = q2
  s1 = s1
  s2 = s2
  Schedules = {s1, s2}
  Workers = {w1}
  NoWorker = NoWorker
  Horizon = 2
  NextFire <- RareFirst
  TickLimit = 2
  Broken = {}
  Ops = {"resume"}
  Requests = {}
  NoSchedule = NoSchedule
  MaxCrashes = 0
SPECIFICATION FairSpec
PROPERTIES EventuallyFires
CHECK_DEADLOCK FALSE
