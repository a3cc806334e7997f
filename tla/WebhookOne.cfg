\* One delivery, under fairness: three faults and two retries by an admin.
CONSTANTS
  Deliveries = {d1}
  Threads = {t1}
  Sweeper = sweep
  None = none
  QueueMax = 1
  SweepBatch = 1
  MaxAttempts = 2
  MaxFaults = 3
  MaxRequeues = 2
SPECIFICATION FairSpec
INVARIANTS
  NothingForUnmadeChange
  DeliveredWasReceived
  DuplicateHasExcuse
PROPERTIES
  GivesUpWithReason
  Settles
\* With the delivery settled and the webhook gone nothing is left to do.
CHECK_DEADLOCK FALSE
