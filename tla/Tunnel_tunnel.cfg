SPECIFICATION FairSpec
CONSTANTS
  Requests = {http1, ws1}
  WsRequests = {ws1}
  MaxConnections = 1
  MaxReplacements = 1
  MaxInWindow = 1
  MaxTotal = 1
  MaxSessions = 2
  MaxServed = 1
  None = None
INVARIANTS
  ContractsKept
PROPERTIES
  SlotsReturned
CHECK_DEADLOCK FALSE
