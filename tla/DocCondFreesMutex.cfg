SPECIFICATION Spec
CONSTANTS
  NThreads = 2
  NResources = 2
  MaxWaiters = 2
  MaxOwned = 2
  MaxIsrDepth = 4
  Scenarios <- BasicCondvar
INVARIANT FreeMutexHasNoWaiters
CHECK_DEADLOCK FALSE
