SPECIFICATION Spec
CONSTANTS
  p = p
  c = c
  s = s
  Ops <- ChainOps
  Deps <- ChainDeps
  Sales = {s}
  MaxRetries = 1
  MaxFaults = 0
  MaxCrashes = 0
  ParentsFirst = TRUE
INVARIANTS NoDuplicateRows
PROPERTIES ParentsBeforeChildren NotSentWhileInReview ConfirmedNotSentAgain GivenUpBehindOpenParent
CHECK_DEADLOCK FALSE
