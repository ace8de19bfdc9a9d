SPECIFICATION Spec
CONSTANTS
  Nodes = {1, 2}
  Bookings <- TwoBookings
  Home <- TwoHomes
  Slot <- OneSlot
  Born <- BornInOrder
  Filed <- FiledAfterBoth
  Linked = {1}
  Runs <- ThreeRuns
  MaxCrashes = 1
INVARIANTS TypeOK BookingKept OneStands NoDuplicateRows
CHECK_DEADLOCK FALSE
