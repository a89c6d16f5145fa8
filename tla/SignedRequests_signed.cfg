SPECIFICATION Spec
CONSTANTS
  Clients = {c1, c2}
  Skew = 1
  MsPerS = 2
  CleanupInterval = 2
  MAX_FETCH_RETRIES = 2
  MaxOffset = 1
  MaxTime = 11
  None = None
SYMMETRY Symmetry
INVARIANTS
  TypeOK
  AcceptedOnce
  NoncesForgotten
PROPERTIES
  PromptHonoured
CHECK_DEADLOCK FALSE
