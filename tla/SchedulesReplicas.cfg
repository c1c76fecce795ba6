CONSTANTS
  w1 = w1
  w2 = w2
  q1 = q1
  q2 = q2
  s1 = s1
  s2 = s2
  Schedules = {s1}
  Workers = {w1, w2}
  NoWorker = NoWorker
  Horizon = 2
  NextFire <- EveryMinute
  TickLimit = 2
  Broken = {}
  Ops = {"resume"}
  Requests = {}
  NoSchedule = NoSchedule
  MaxCrashes = 0
SPECIFICATION Spec
INVARIANTS OncePerSlot
CHECK_DEADLOCK FALSE
