SPECIFICATION MinimizerSpec
CONSTANTS
  NThreads = 2
  NResources = 4
  MaxWaiters = 2
  MaxOwned = 4
  MaxIsrDepth = 4
  MaxDepth = 14
  MaxStates = 64
  Scenarios <- LateConflict
  Configs <- WithDpor
INVARIANT PersistentSetsAreSound
CHECK_DEADLOCK FALSE
