CONSTANTS
  Scans = {1, 2}
  Owners = {alice, bob}
  Rules = {1}
  Strands = {h1, rec}
  Reconciler = rec
  Ids = {1, 2, 3, 4}
  NoOwner = NoOwner
  NoRule = NoRule
  NoStrand = NoStrand
  NoId = NoId
  NoScan = NoScan
  MaxActiveScansPerOwner = 1
  PageSize = 1
  MaxActive = 1
  MaxRetained = 1
  MaxFaults = 0
SPECIFICATION FairSpec
INVARIANTS
  OneActivePerOwner
PROPERTIES
  EveryScanEnds
