SPECIFICATION Spec
CONSTANTS
  http1 = http1
  ws1 = ws1
  None = None
  Pairs <- OneHttp
  WsPairs <- NoPairs
  MaxReplacements = 1
  MaxInWindow = 2
  MaxTotal = 2
  HeartbeatTimeout = 1
  ReconnectLocal = TRUE
  MAX_FETCH_RETRIES = 2
INVARIANTS
  KeepsTrying
CHECK_DEADLOCK FALSE
