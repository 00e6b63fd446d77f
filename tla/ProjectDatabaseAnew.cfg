\* A build claims again after its app was deleted.
SPECIFICATION Spec
CONSTANTS
  Calls = {c1}
  Deleters = {d1}
  MaxClaims = 2
  HardDeletes = TRUE
INVARIANT NextBuildGetsACleanDatabase
CHECK_DEADLOCK FALSE
