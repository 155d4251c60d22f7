SPECIFICATION Spec
CONSTANTS
  NThreads = 2
  NResources = 2
  MaxWaiters = 2
  MaxOwned = 2
  MaxIsrDepth = 4
  Scenarios <- HandoffThenWait
INVARIANT UntimedWaitsAreInfinite
CHECK_DEADLOCK FALSE
