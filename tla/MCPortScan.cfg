CONSTANTS
  MaximumAddresses = 2
  MaximumPort = 2
  Limits = {0, 1, 2, 3}
CHECK_DEADLOCK FALSE
SPECIFICATION Spec
INVARIANTS
  TypeOK
  ReturnsEveryPortOnce
  ConnectionsBounded
PROPERTIES
  NoReportLost
  ScanReturns
