SPECIFICATION FairSpec
CONSTANTS
  Replicas = {1}
  Levels = {1, 2}
  None = None
  Kinds = {"stop_training"}
  MaxCmds = 1
  MaxRounds = 2
CHECK_DEADLOCK FALSE
PROPERTIES
  StopIsGraceful
