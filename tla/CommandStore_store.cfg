SPECIFICATION FairSpec
CONSTANTS
  Runs = {r1, r2}
  NoRun = NoRun
  MaxCmds = 3
  MaxAttempts = 2
  Lease = 2
INVARIANTS
  TypeOK
  QueueHoldsPending
  FirstDeliveryInOrder
PROPERTIES
  DeliveryIsExclusive
  FinishedStays
  ImplementsLifecycle
  EveryCommandFinishes
