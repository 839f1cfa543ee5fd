CONSTANTS
  Tabs = {a, b}
  Wanted = {"dashboard", "admin"}
  Linked <- SomeLinks
  Logins = {1, 2, 3}
  Environments <- SomeEnvironments
  Accounts <- SomeAccounts
  NoValue = NoValue
  TransactionLife = 1
  DefaultLife = 1
  SessionLife = 1
  MaxTime = 1
  MaxFailures = 1
SPECIFICATION Spec
INVARIANTS
  TypeOK
  SessionFromOwnLogin
  NoLoginLoop
PROPERTIES
  LoginArrives
