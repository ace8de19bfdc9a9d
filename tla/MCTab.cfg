CONSTANTS
  MaxHolds = 3
  MaxCrashes = 1
SPECIFICATION Spec
INVARIANTS TypeOK LastHoldKept
PROPERTIES UpdatedTabGuarded
CHECK_DEADLOCK FALSE
