SPECIFICATION FairSpec
CONSTANTS
  None = None
  MaxLines = 3
  Capacity = 2
CHECK_DEADLOCK FALSE
INVARIANTS
  TypeOK
  RefusesToGuess
  NothingLeftRunning
PROPERTIES
  StartEnds
  OutputIsDrained
