SPECIFICATION Spec
CONSTANTS
  None = None
  I64Max = 20
  U64Max = 25
  NanosPerSec = 1
  Keys = {k1, k2}
  Participants = {p1}
  Schedule <- MCSchedule
  TotalSupply = 3
  BatchWindow = 0
  PriceTolerance = 1
  Timestamps = {0, 2, 4}
  Quantities = {1}
  Limits <- FarBelowZero
  Expected = {3}
  Collaterals = {2}
SYMMETRY KeySymmetry
PROPERTY ExposureGrowsWithinLimit
