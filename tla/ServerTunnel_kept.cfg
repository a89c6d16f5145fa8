SPECIFICATION Spec
CONSTANTS
  Requests = {ws1}
  WsRequests = {ws1}
  Sessions = {s1, s2}
  MaxConnections = 1
  MaxReplacements = 1
  None = None
PROPERTIES
  KeptPairsPreserved
CHECK_DEADLOCK FALSE
