CONSTANTS
  MaxHolds = 3
  MaxCrashes = 0
SPECIFICATION Spec
PROPERTIES LastHoldReplayed
CHECK_DEADLOCK FALSE
