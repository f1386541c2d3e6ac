SPECIFICATION Spec
CONSTANTS
  None = None
  I64Max = 20
  U64Max = 25
  NanosPerSec = 1
  Keys = {k1, k2, k3}
  Participants = {p1}
  Schedule <- MCSchedule
  TotalSupply = 3
  BatchWindow = 3
  PriceTolerance = 1
  Timestamps = {0, 2, 3, 6}
  Quantities = {1, 2}
  Limits <- MCLimits
  Expected = {3}
  Collaterals = {9}
SYMMETRY KeySymmetry
INVARIANTS
  TypeOK
  SupplyConserved
  UniformPrice
  ClearingPriceProduced
  OutcomeTellsWhere
  LedgerBalanced
  WindowIsCurrent
  EndIsSettled
  DeadlineIsExact
PROPERTIES
  AnswersStand
  LifeCycle
