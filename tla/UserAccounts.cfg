SPECIFICATION Spec
CONSTANTS
  Ids = {i1, i2}
  Emails = {m1, m2}
  Clients = {b1, b2}
  Threshold = 1
  InitialLock = 1
  LongestLock = 1
  TokenLife = 1
  MaxVersion = 1
  MaxFailures = 2
  MaxTime = 1
  None = None
INVARIANTS TypeOK OutdatedAreRefused FailuresCounted
PROPERTY AdminRemains
SYMMETRY AccountSymmetry
CHECK_DEADLOCK FALSE
