SPECIFICATION MinimizerSpec
CONSTANTS
  NThreads = 2
  NResources = 4
  MaxWaiters = 2
  MaxOwned = 4
  MaxIsrDepth = 2
  MaxDepth = 12
  MaxStates = 12
  Scenarios <- MCSearchScenarios
  Configs <- MCSearchConfigs
INVARIANTS
  DepthIsScheduleLength
  BugsAreFound
  ReportsAreTrue
  ReportReplays
  MinimizedStillFails
PROPERTIES
  SearchEnds
CHECK_DEADLOCK FALSE
