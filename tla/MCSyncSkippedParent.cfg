SPECIFICATION Spec
CONSTANTS
  p = p
  c = c
  s = s
  Ops <- ChainOps
  Deps <- ThreeDeep
  Sales = {}
  MaxRetries = 1
  MaxFaults = 0
  MaxCrashes = 0
  ParentsFirst = TRUE
PROPERTIES SkippedParentParksChild
CHECK_DEADLOCK FALSE
