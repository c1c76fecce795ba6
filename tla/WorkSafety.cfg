SPECIFICATION WorkSpec
CONSTANTS
  Stages = {"pipelines", "jobs", "nesting", "versions", "experiments", "projects",
            "migrations", "accounts"}
  a = a
  b = b
  c = c
  d1 = d1
  Step = {a, b, c}
  NoStep = NoStep
  Dataset = {d1}
  Definition <- SavedDefinitions
  NoDefinition = NoDefinition
  MaxParallel = 2
  MaxVersion = 1
  Jobs = {j1, j2}
  JobWorkers = {w1, w2}
  NoJob = NoJob
  NoOwner = NoOwner
  Unhandled = {j2}
  Breaking = {j1}
  MaxJobCrashes = 1
  Pipelines = {p, q, r}
  Editors = {e1, e2}
  Runs = {n1}
  MaxNestingDepth = 2
  MaxSaves = 3
  Publishers = {s1, s2}
  Contents = {1, 2}
  NoPublisher = NoPublisher
  MaxPublished = 3
  Targets = {"m1", "m2"}
  TargetName <- ModelNames
  Labels = {"alpha"}
  NoLabel = "nolabel"
  Scores = {1, 2}
  NoScore = NoScore
  Comparers = {s1}
  RunScanLimit = 2
  Proposals <- SomeTrials
  MaxTrials = 2
  MaxRuns = 2
  ProjectIds = {p0, p1}
  DefaultProject = p0
  NoProject = NoProject
  Dirs = {dir1, dir2}
  NoDir = NoDir
  Resources = {r1}
  Unfiled = Unfiled
  Clerks = {c1, c2}
  People = {u1, u2}
  Keys = {k1}
  MaxRequests = 2
  WritingKeys = {}
  Candidates = {u1}
  Nobody = Nobody
INVARIANTS
  WorkTypeOK
  StepsAfterInputs
  CancelledForAReason
  MainSessionAlone
  OneHandlerPerJob
  ClosedStreamToldTheEnd
  LoopNeedsCrossing
  NumbersRunOn
  VersionsReadable
  BoardIsTrue
  FilesFollowRows
  SchemaHolds
  NoOverreach
PROPERTIES
  JobKeepsPromise
  LastAdminLeaves
CHECK_DEADLOCK FALSE
