CONSTANTS
  Task = {t1, t2, t3}
  Key = {k1, k2}
  NoKey = NoKey
  NoTask = NoTask
  MaxEntries = 3
  MaxAttempts = 2
  MaxCalls = 3
  MaxCrashes = 1
SPECIFICATION Spec
INVARIANTS
  DuplicateOnlyWhenDoubtful
  OutboxInv
PROPERTIES
  RefinesFifoLock
  NoResendOfDelivered
  DeliveryEnds
CHECK_DEADLOCK FALSE
