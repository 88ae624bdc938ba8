SPECIFICATION Spec
CONSTANTS
  c1 = c1
  c2 = c2
  m1 = m1
  m2 = m2
  m3 = m3
  m4 = m4
  NoMessage = NoMessage
  Callers <- MCCallers
  Messages <- MCMessages
  GarbageExit <- AnyBoolean
SYMMETRY MCSymmetry
INVARIANTS
  TypeOK
  FifoOrder
  NoSleepOnWork
  WorkerGoneBeforeCount
  UnreportedLossBounded
CHECK_DEADLOCK FALSE
