SPECIFICATION FairSpec
CONSTANTS
  l = l
  NotSet = NotSet
  Self = Self
  Unknown = Unknown
  Settings <- MCSettings
  Listeners <- MCListeners
  Commands = {1, 2}
  MaxClients = 2
  MaxReplacements = 2
CONSTRAINT LogsApart
INVARIANTS
  TypeOK
  TokenCorrelates
  OneLateReport
  SuccessIsSuccess
  LibraryLogAsAsked
PROPERTIES
  AcceptedIsReported
CHECK_DEADLOCK FALSE
