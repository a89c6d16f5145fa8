SPECIFICATION Spec
CONSTANTS
  MaxGlobal = 2
  MaxEvents = 2
  MaxLives = 2
  MaxSeq = 6
INVARIANTS
  StreamContiguous
  
CHECK_DEADLOCK FALSE
