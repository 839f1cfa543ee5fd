CONSTANTS
  MaxRules = 2
  Slots = {1, 2}
  Inputs <- SomeInputs
  Environments <- SomeEnvironments
  Sessions <- SomeSessions
  NoValue = NoValue
  PORT_MAX = 3
  MAX_PORTS_PER_SCAN = 2
  MaxMoves = 2
  MaxFaults = 1
CHECK_DEADLOCK FALSE
SPECIFICATION Spec
INVARIANTS
  TypeOK
  RefusedMeansNothingDone
PROPERTIES
  ShownFollowsServer
  PagesSettle
