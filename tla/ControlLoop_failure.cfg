SPECIFICATION Spec
CONSTANTS
  Runs = {r1}
  NoRun = NoRun
  NoCmd = NoCmd
  run = r1
  MaxCmds = 1
  MaxAttempts = 2
  Lease = 1
  SafeCmds = {}
INVARIANTS
  FailureMeansRaised
