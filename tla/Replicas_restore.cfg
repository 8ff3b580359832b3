SPECIFICATION FairSpec
CONSTANTS
  Replicas = {1}
  Levels = {1, 2}
  None = None
  Kinds = {"set_hyperparameters", "save_checkpoint", "restore_checkpoint"}
  MaxCmds = 3
  MaxRounds = 2
CHECK_DEADLOCK FALSE
INVARIANTS
  SameUnlessLimited
