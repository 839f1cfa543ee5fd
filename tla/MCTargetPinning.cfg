CONSTANTS
  Addresses <- MCAddresses
  Lists <- MCLists
  Host = Host
  MaximumAddresses = 2
CHECK_DEADLOCK FALSE
SPECIFICATION Spec
INVARIANTS
  TypeOK
  DialsWhatWasAuthorized
  DialsNothingBlocked
  RefusedForCause
  AcceptedIsScanned
