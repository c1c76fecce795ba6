CONSTANTS
  w1 = w1
  w2 = w2
  q1 = q1
  q2 = q2
  s1 = s1
  s2 = s2
  Schedules = {s1, s2}
  Workers = {w1, w2}
  NoWorker = NoWorker
  Horizon = 1
  NextFire <- EveryMinute
  TickLimit = 2
  Broken = {s1}
  Ops = {"describe", "retime", "pause", "activate", "resume", "runNow", "delete"}
  Requests = {q1, q2}
  NoSchedule = NoSchedule
  MaxCrashes = 1
SPECIFICATION Spec
INVARIANTS CountNeverOver
PROPERTIES DeletedForGood PausedUntilResumed
SYMMETRY Replicas
CHECK_DEADLOCK FALSE
