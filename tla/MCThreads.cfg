SPECIFICATION FairSpec
CONSTANTS
  NThreads = 3
  NResources = 3
  MaxWaiters = 3
  MaxOwned = 3
  MaxIsrDepth = 2
  Scenarios <- MCThreadsScenarios
INVARIANTS
  QueuesExact
  InheritanceExact
  StacksReplayPrograms
  SignalsConserved
  DeadlockIsCircular
  NoFalseAlarm
  StuckSendersFaceFull
  BlockedAreQueued
  StaleEntriesBounded
  BoostsAreRepaid
PROPERTIES
  HandoffToHighest
  CircularWaitIsFinal
  OrderedFinish
  MailboxIsDeque
  TimedWaitsEnd
CHECK_DEADLOCK FALSE
