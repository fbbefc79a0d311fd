SPECIFICATION QueueSpec
CONSTANTS
  Note = {1, 2, 3}
  Worker = {w1, w2}
  Poisoned = {1}
  MaxAttempts = 3
  BatchSize = 2
  Lease = 2
  BatchTime = 1
  SMS = TRUE
  MaxFaults = 2
  Text = {m1, m2, m3}
  Lost = {m1}
  DeliveryBatch = 2
  MaxFailures = 2
CHECK_DEADLOCK FALSE
INVARIANTS
  QueueTypeOK
  ResentOnlyInDoubt
  OneHolder
PROPERTIES
  EveryMessageSettles
  VerdictsArrive
