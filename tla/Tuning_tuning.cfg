SPECIFICATION Spec
CONSTANTS
  None = None
  Space = {1}
  Values = {1, 2}
  MaxAsked = 2
  InitialLR = 5
  NewLR = 3
  HighLR = 4
  MinLR = 1
  MaxLR = 3
  Losses = {1}
  Default = 2
  Epochs = 3
  HpoTrials = 1
  MaxAttempts = 2
  MaxFaults = 1
  Taken = {7, 8, 9, 12, 13, 14, 15}
  MaxBacklog = 1
CHECK_DEADLOCK FALSE
INVARIANTS
  TypeOK
  LastWordWins
  FreshMeansOwn
  LiveTrialsRun
PROPERTIES
  NeitherWaitsForEver
