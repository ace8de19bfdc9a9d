CONSTANTS
  i1 = i1
  i2 = i2
  i3 = i3
  ana = ana
  ben = ben
  room = room
  Intents <- DeskIntents
  Charges <- DeskCharges
  Charge <- DeskCharge
  Users <- DeskUsers
  Owner <- DeskOwner
SYMMETRY Same
SPECIFICATION Spec
INVARIANTS TypeOK OnePosting KeptInRecovery
CHECK_DEADLOCK FALSE
