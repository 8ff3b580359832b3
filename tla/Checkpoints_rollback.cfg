SPECIFICATION Spec
CONSTANTS
  Ids = {a, b, c}
  Values = {v1, v2}
  MaxCheckpoints = 2
  None = None
  Broken = Broken
SYMMETRY DataSymmetry
INVARIANTS
  TypeOK
  ListedAreRestorable
PROPERTIES
  ImplementsRollback
