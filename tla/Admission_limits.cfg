SPECIFICATION AdmissionSpec
CONSTANTS
  Ips = {ip1, unknown}
  Unknown = unknown
  Window = 1
  MaxHits = 2
  BlockDuration = 3
  Throttle = 3
  MaxTime = 5
  NoEntry = NoEntry
INVARIANTS
  AdmissionTypeOK
  HitsBounded
  FileCurrent
PROPERTIES
  BlockHolds
  EventsThrottled
CHECK_DEADLOCK FALSE
