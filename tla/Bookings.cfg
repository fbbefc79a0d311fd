SPECIFICATION Spec
CONSTANTS
  Booking = {b1, b2}
  Request = {r1, r2}
  Endpoints = {"hold", "create", "submitGuest", "submit", "approve", "mark", "confirmDeposit", "confirmReceived", "cancel", "refunded", "complete", "noShow", "reschedule", "shift", "list"}
  Grid = {1, 2, 3}
  Shifts = {1}
  Duration = 1
  Buffer = 1
  HoldFor = 1
  DepositWindow = 1
  Grace = 1
  CancelWindow = 1
  MaxReschedules = 1
  OpenAt = 1
  CloseAt = 6
  MaxTime = 4
CHECK_DEADLOCK FALSE
ACTION_CONSTRAINT WithinInstances
SYMMETRY Symmetry
INVARIANTS
  TypeOK
  RefundBacked
  NoDoubleBooking
PROPERTIES
  GuestHoldIsFinal
