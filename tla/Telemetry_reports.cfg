SPECIFICATION Spec
CONSTANTS
  Samples = {a, b, c}
  Losses = {1, 2}
  NaN = NaN
  None = None
  Window = 3
  Warmup = 2
  GradFactor = 2
  LossFactor = 2
  MaxAnomalies = 2
  Configurations <- MCConfigurations
SYMMETRY SampleSymmetry
INVARIANTS
  TypeOK
  SuspectsAreWorst
  AnomaliesAreLatest
  SustainedExplosion
  FlagsReachCallback
