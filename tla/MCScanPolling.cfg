CONSTANTS
  Scans = {a, b}
  NoScan = NoScan
  MaxChanges = 2
  MaxFailures = 2
CHECK_DEADLOCK FALSE
SPECIFICATION Spec
INVARIANTS
  TypeOK
  OneLoop
  UpdateIsComing
PROPERTIES
  NoStaleAnswerShown
  EndIsShown
