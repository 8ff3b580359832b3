SPECIFICATION FairSpec
CONSTANTS
  MaxEpochs = 5
  Every = 2
  None = None
  Empty = Empty
  Earlier = Earlier
CHECK_DEADLOCK FALSE
INVARIANTS
  TypeOK
  NoLeftovers
  DecisionsCount
PROPERTIES
  TrainingEnds
