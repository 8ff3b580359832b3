SPECIFICATION FairSpec
CONSTANTS
  Runs = {r1}
  NoRun = NoRun
  NoCmd = NoCmd
  run = r1
  MaxCmds = 2
  MaxAttempts = 2
  Lease = 1
  SafeCmds = {2}
INVARIANTS
  TypeOK
  EachDeliveryRunsOnce
  DoneMeansApplied
  NothingStranded
PROPERTIES
  NodeRespectsStore
  EveryCommandAnswered
