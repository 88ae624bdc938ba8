SPECIFICATION FairSpec
CONSTANTS
  p = p
  q = q
  Nobody = Nobody
  Clients <- MCClients
  MaxCalls = 1
  MaxRepeats = 0
CHECK_DEADLOCK FALSE
PROPERTIES
  AnsweredCallReturns
