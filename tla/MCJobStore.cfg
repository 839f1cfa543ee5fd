CONSTANTS
  Ids = {1, 2, 3, 4}
  Keys = {k1, k2}
  Requests = {q1, q2}
  NoId = NoId
  NoKey = NoKey
  NoRequest = NoRequest
  MaxActive = 2
  MaxRetained = 1
  Clock = {1, 2}
SPECIFICATION Spec
INVARIANTS
  TypeOK
  ActiveLimit
  RetentionLimit
  KeysAgree
PROPERTY
  EvictOldestFinished
SYMMETRY Symmetry
