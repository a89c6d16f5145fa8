SPECIFICATION FairSpec
CONSTANTS
  Tokens = {t1, t2}
  Ids = {a, b}
  TunnelPorts <- TwoPorts
  MaxLogs = 2
  None = None
INVARIANTS
  TypeOK
  RegistryConsistent
PROPERTIES
  GrantStable
  NoTakeover
  LogsCollected
CHECK_DEADLOCK FALSE
