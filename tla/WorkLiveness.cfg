SPECIFICATION FairWorkSpec
CONSTANTS
  Stages = {"pipelines", "jobs", "nesting"}
  a = a
  b = b
  c = c
  d1 = d1
  Step = {a, b, c}
  NoStep = NoStep
  Dataset = {d1}
  Definition <- TwoDefinitions
  NoDefinition = NoDefinition
  MaxParallel = 2
  MaxVersion = 0
  Jobs = {j1, j2}
  JobWorkers = {w1}
  NoJob = NoJob
  NoOwner = NoOwner
  Unhandled = {}
  Breaking = {j2}
  MaxJobCrashes = 1
  Pipelines = {p, q}
  Editors = {e1, e2}
  Runs = {n1, n2}
  MaxNestingDepth = 1
  MaxSaves = 2
  Publishers = {s1}
  Contents = {1, 2}
  NoPublisher = NoPublisher
  MaxPublished = 3
  Targets = {"m1", "m2"}
  TargetName <- ModelNames
  Labels = {"alpha"}
  NoLabel = "nolabel"
  Scores = {1, 2}
  NoScore = NoScore
  Comparers = {s1}
  RunScanLimit = 2
  Proposals <- SomeTrials
  MaxTrials = 2
  MaxRuns = 2
  ProjectIds = {p0, p1}
  DefaultProject = p0
  NoProject = NoProject
  Dirs = {dir1, dir2}
  NoDir = NoDir
  Resources = {r1}
  Unfiled = Unfiled
  Clerks = {c1, c2}
  People = {u1, u2}
  Keys = {k1}
  MaxRequests = 2
  WritingKeys = {}
  Candidates = {u1}
  Nobody = Nobody
PROPERTIES
  RunEnds
  JobsSettle
  JobCancelTakesEffect
  DescentEnds
CHECK_DEADLOCK FALSE
