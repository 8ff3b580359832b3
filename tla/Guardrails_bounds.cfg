SPECIFICATION GuardrailsSpec
CONSTANTS
  Levels = {1, 2, 3}
  NonPositive <- MCNonPositive
  NonFinite = NonFinite
  Factors <- MCFactors
  Unset = Unset
  Keep = Keep
INVARIANTS
  GuardrailsTypeOK
PROPERTIES
  ChangesRespectBounds
