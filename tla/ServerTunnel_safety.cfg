SPECIFICATION Spec
CONSTANTS
  Requests = {http1, ws1}
  WsRequests = {ws1}
  Sessions = {s1, s2, s3}
  MaxConnections = 1
  MaxReplacements = 1
  None = None
SYMMETRY Symmetry
INVARIANTS
  TypeOK
  SessionsConsistent
  SocketsConsistent
  DestroyedOwnsNothing
PROPERTIES
  ImplementsService
CHECK_DEADLOCK FALSE
