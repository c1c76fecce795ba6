CONSTANTS
  w1 = w1
  w2 = w2
  q1 = q1
  q2 = q2
  s1 = s1
  s2 = s2
  Schedules = {s1, s2}
  Workers = {w1}
  NoWorker = NoWorker
  Horizon = 4
  NextFire <- Mixed
  TickLimit = 1
  Broken = {s1}
  Ops = {"delete"}
  Requests = {q1}
  NoSchedule = NoSchedule
  MaxCrashes = 1
SPECIFICATION FairSpec
INVARIANTS OncePerSlot CountExact
PROPERTIES EventuallyFires
CHECK_DEADLOCK FALSE
