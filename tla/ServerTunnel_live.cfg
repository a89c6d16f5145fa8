SPECIFICATION FairSpec
CONSTANTS
  Requests = {http1, ws1}
  WsRequests = {ws1}
  Sessions = {s1, s2}
  MaxConnections = 1
  MaxReplacements = 1
  None = None
PROPERTIES
  WindowResolves
  ReservationSettles
  SlotFreed
CHECK_DEADLOCK FALSE
