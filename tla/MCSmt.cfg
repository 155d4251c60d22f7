SPECIFICATION SmtSpec
CONSTANTS
  NThreads = 3
  NResources = 4
  MaxWaiters = 3
  MaxOwned = 4
  MaxIsrDepth = 2
  Scenarios <- MCSmtScenarios
INVARIANTS
  ExecutionsAreModels
  ModelsAreExecutions
CHECK_DEADLOCK FALSE
