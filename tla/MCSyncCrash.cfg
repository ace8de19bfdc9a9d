SPECIFICATION Spec
CONSTANTS
  p = p
  c = c
  s = s
  Ops <- FamilyOps
  Deps <- FamilyDeps
  Sales = {p}
  MaxRetries = 2
  MaxFaults = 1
  MaxCrashes = 1
  ParentsFirst = TRUE
INVARIANTS TypeOK NoOperationLost ReplayCustody NoDuplicateRows SingleCopies BudgetSpentByAttempts BudgetKept ParentsAccounted WaitsOnce
PROPERTIES ParentsBeforeChildren
CHECK_DEADLOCK FALSE
