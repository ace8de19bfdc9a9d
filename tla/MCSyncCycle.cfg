SPECIFICATION FairSpec
CONSTANTS
  p = p
  c = c
  s = s
  Ops <- FamilyOps
  Deps <- CycleDeps
  Sales = {}
  MaxRetries = 1
  MaxFaults = 1
  MaxCrashes = 0
  ParentsFirst = FALSE
INVARIANTS NoOperationLost
PROPERTIES EventuallySettled
CHECK_DEADLOCK FALSE
