SPECIFICATION FairSpec
CONSTANTS
  Triggers = {own, other}
  OwnTrigger = own
  Steps <- BothKinds
  Loops = 1
  MaxRing = 2
  MaxQueue = 1
INVARIANTS
  ReplaysConsistent
  PageFollows
PROPERTIES
  LockReleased
CHECK_DEADLOCK FALSE
