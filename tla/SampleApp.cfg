SPECIFICATION FairSpec
CONSTANTS
  MaxMessages = 2
  MaxSignals = 2
INVARIANTS
  TypeOK
  NoSleepOnExit
  DeadlockNeedsSignalInRun
  DeadQueueOnlyWhileClosing
PROPERTIES
  InterruptedAppEnds
CHECK_DEADLOCK FALSE
