SPECIFICATION PlatformSpec
CONSTANTS
  Stages = {"transforms", "scoring", "series", "catalogue", "publishing",
            "reports", "charts", "assets", "analogs", "storage",
            "seeding", "example"}
  Readings <- SomeReadings
  MaxReadings = 3
  WindowSize = 2
  likeCol = likeCol
  consCol = consCol
  gaugeCol = gaugeCol
  Columns = {likeCol, consCol, gaugeCol}
  Shown = {0, 1, 2, 3, 4}
  NoReading = NoReading
  Components <- SomeComponents
  MinCoverage = 60
  Edges <- SomeEdges
  Grid <- SomeGrid
  SeverityOrder <- SomeOrder
  Rules <- SomeRules
  Moments = {0, 1, 2, 3, 5}
  Resendable = {1}
  Measured = {0, 1, 4}
  NoValue = NoValue
  PointParts = 120
  Settings <- SomeSettings
  Limits <- SomeLimits
  Projecting <- SomeQuestion
  Capacity <- SomeCapacity
  MaxDeletions = 1
  MaxDepth = 8
  Owners = {o1, o2}
  MaxTokens = 2
  NoToken = NoToken
  NoApplication = NoApplication
  Authors = {o1, o2}
  Cited = {c1}
  Formats = {"markdown", "html"}
  NoReport = NoReport
  NoFormat = NoFormat
  NoCitation = NoCitation
  NoFile = NoFile
  Categories = {1, 2, 3}
  Bands = {1, 2}
  Measures = {0, 3, 20}
  NoNumber = NoNumber
  StatedOrder <- SomeStated
  Bins = 3
  ChartLimit = 2
  MaxRows = 3
  TileSizes <- SomeSizes
  MaxTiles = 3
  ParameterOrder <- SomeOrderOfMeasurements
  DayRows <- SomeDays
  Modes <- SomeModes
  Tasks <- SomeTasks
  EngineRules <- SomeEngineRules
  NoScore = NoScore
  Scores <- SomeScores
  Criticality = "high"
  NoRows = NoRows
  NoAnswer = NoAnswer
  DailyHours = 10
  Week = 2
  LongWindow = 2
  ColdStart = 2
  ShortRecord = 2
  RecentDays = 45
  MaxDay = 3
  MaxFilings = 1
  n1 = n1
  n2 = n2
  h1 = h1
  h2 = h2
  h3 = h3
  northern = northern
  southern = southern
  Typhoons = {1, 2, 3, 4}
  Regions = {northern, southern}
  DefaultRegion = northern
  Far = Far
  NoRain = NoRain
  NoCategory = NoCategory
  Analogs = 2
  PoolFactor = 1
  RrfK = 3
  WarpBand = 15
  AnalogRuns = {a1, a2}
  Asks <- SomeAsks
  TyphoonRecords <- SomeRecords
  NoRecord = NoRecord
  Nobody = Nobody
  Contents = {e1, e2}
  Gone = Gone
  CacheThreads = {h1, h2, h3}
  ProcessOf <- ThreadsOfTwo
  MaxCalls = 3
  Core <- SomeCore
  Contributions <- SomeContributions
  Refusable = {"Revenue by product", "readings", "levels", "fleet"}
  Fragile = {"golden path", "Maintenance"}
  Servers = {n1, n2}
  MaxStarts = 2
  MaxEdits = 1
  Telemetry = "telemetry"
  Chain <- SomeChain
  Featured = "features"
  MaxExampleStarts = 3
  MaxEvents = 2
INVARIANTS
  PlatformTypeOK
  DataLaws
  CacheServes
  RevokedStaysDead
  LastExportKept
  AssetsJudged
  SeedsOnce
PROPERTIES
  SeedingHeals
  ChainAgrees
CHECK_DEADLOCK FALSE
