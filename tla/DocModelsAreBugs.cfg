SPECIFICATION SmtSpec
CONSTANTS
  NThreads = 2
  NResources = 2
  MaxWaiters = 2
  MaxOwned = 2
  MaxIsrDepth = 2
  Scenarios <- AbbaDeadlock
INVARIANT ModelsAreBugs
CHECK_DEADLOCK FALSE
