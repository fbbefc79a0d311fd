SPECIFICATION FairSpec
CONSTANTS
  Booking = {b1}
  Request = {r1, r2}
  Endpoints = {"hold", "create", "submitGuest", "release", "approve", "confirmDeposit", "confirmReceived", "cancel", "refunded", "complete", "noShow", "reschedule", "list"}
  Grid = {2, 3}
  Shifts = {1}
  Duration = 1
  Buffer = 1
  HoldFor = 1
  DepositWindow = 1
  Grace = 1
  CancelWindow = 1
  MaxReschedules = 1
  OpenAt = 1
  CloseAt = 6
  MaxTime = 5
CHECK_DEADLOCK FALSE
PROPERTIES
  FollowsMatrix
  NothingBlocksForEver
