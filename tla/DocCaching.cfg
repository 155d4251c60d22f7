SPECIFICATION MinimizerSpec
CONSTANTS
  NThreads = 3
  NResources = 4
  MaxWaiters = 3
  MaxOwned = 4
  MaxIsrDepth = 4
  MaxDepth = 14
  MaxStates = 64
  Scenarios <- TwoTimers
  Configs <- WithCaching
INVARIANT CachingMissesNoBugs
CHECK_DEADLOCK FALSE
