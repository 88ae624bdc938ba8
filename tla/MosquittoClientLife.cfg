SPECIFICATION FairSpec
CONSTANTS
  a = a
  b = b
  NoClient = NoClient
  Clients <- MCTwoClients
INVARIANTS
  TypeOK
  LibraryReadyUnlessInitThrown
  LibraryCleanedUnlessThrown
  FlagAgreesWithReports
  EndIsTold
PROPERTIES
  DestructorEndsOnceAsked
CHECK_DEADLOCK FALSE
