SPECIFICATION FairSpec
CONSTANTS
  p = p
  q = q
  Nobody = Nobody
  Clients <- MCClients
  MaxCalls = 2
  MaxRepeats = 1
CHECK_DEADLOCK FALSE
INVARIANTS
  TypeOK
  PromiseOutlivesRequest
  OwnAnswer
  NobodyWaitsInVain
PROPERTIES
  ConnectReturns
