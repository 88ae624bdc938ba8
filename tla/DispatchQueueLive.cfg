SPECIFICATION FairSpec
CONSTANTS
  c1 = c1
  c2 = c2
  m1 = m1
  m2 = m2
  m3 = m3
  m4 = m4
  NoMessage = NoMessage
  Callers <- MCCallers
  Messages <- MCFewMessages
  GarbageExit <- InitialisedFalse
PROPERTIES
  ShutdownOutsideWindow
  KeepsPromise
CHECK_DEADLOCK FALSE
