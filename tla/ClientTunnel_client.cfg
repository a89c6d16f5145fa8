SPECIFICATION FairSpec
CONSTANTS
  http1 = http1
  ws1 = ws1
  None = None
  Pairs <- OneOfEach
  WsPairs <- OneWs
  MaxReplacements = 1
  MaxInWindow = 2
  MaxTotal = 2
  HeartbeatTimeout = 1
  ReconnectLocal = TRUE
  MAX_FETCH_RETRIES = 2
INVARIANTS
  TypeOK
  ConnectionsConsistent
  LinksConsistent
  BudgetEnforced
PROPERTIES
  Reconnects
  SilenceNoticed
  PairsEnd
CHECK_DEADLOCK FALSE
