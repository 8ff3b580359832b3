SPECIFICATION FairSpec
CONSTANTS
  Replicas = {1, 2}
  Levels = {1, 2}
  None = None
  Kinds = {"set_hyperparameters", "set_guardrails", "save_checkpoint"}
  MaxCmds = 2
  MaxRounds = 2
CHECK_DEADLOCK FALSE
INVARIANTS
  TypeOK
  SameUnlessLimited
PROPERTIES
  AllRanksEnd
