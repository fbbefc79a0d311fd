SPECIFICATION Spec
CONSTANTS
  Booking = {b1}
  Request = {r1, r2}
  Endpoints = {"hold", "submitGuest", "approve", "confirmReceived", "cancel"}
  Grid = {3}
  Shifts = {1}
  Duration = 1
  Buffer = 1
  HoldFor = 1
  DepositWindow = 1
  Grace = 1
  CancelWindow = 1
  MaxReschedules = 2
  OpenAt = 1
  CloseAt = 6
  MaxTime = 4
CHECK_DEADLOCK FALSE
PROPERTIES
  ReceivedDepositIsOwedBack
