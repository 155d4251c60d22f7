SPECIFICATION Spec
CONSTANTS
  NThreads = 2
  NResources = 4
  MaxWaiters = 2
  MaxOwned = 4
  MaxIsrDepth = 2
  Scenarios <- MCAllActionsScenarios
INVARIANTS
  TypeOK
  StacksMatchOwners
  NoSleepInCriticalSection
PROPERTIES
  DestroyedObjectsUntouched
CHECK_DEADLOCK FALSE
