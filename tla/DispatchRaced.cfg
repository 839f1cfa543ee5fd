CONSTANTS
  Scans = {1}
  Owners = {alice}
  Rules = {1}
  Strands = {h1, h2, rec}
  Reconciler = rec
  Ids = {1, 2, 3}
  NoOwner = NoOwner
  NoRule = NoRule
  NoStrand = NoStrand
  NoId = NoId
  NoScan = NoScan
  MaxActiveScansPerOwner = 1
  PageSize = 1
  MaxActive = 1
  MaxRetained = 1
  MaxFaults = 2
SPECIFICATION Spec
INVARIANTS
  TypeOK
  SchemaConstraints
  AuditTrailTellsTheRow
  OutcomeFromOwnJob
  OneDispatcherPerLease
  JobsTakeFailures
PROPERTIES
  EndedForGood
  ScannerIdStable
  ImplementsLifecycle
SYMMETRY Symmetry
