SPECIFICATION Spec
CONSTANTS
  a = a
  b = b
  NoClient = NoClient
  Clients <- MCTwoClients
INVARIANTS
  LibraryCleaned
CHECK_DEADLOCK FALSE
