SPECIFICATION LadderSpec
CONSTANTS
  None = None
  I64Max = 7
  U64Max = 12
  NanosPerSec = 1
  Keys = {k1, k2}
  Participants = {p1, p2}
  Schedule <- MCSchedule
  TotalSupply = 4
  BatchWindow = 0
  PriceTolerance = 1
  Timestamps = {0, 2, 4}
  Quantities = {0, 1, 2, 3}
  Limits <- MCLimits
  Expected = {3}
  Collaterals = {2, 7}
SYMMETRY KeyAndParticipantSymmetry
INVARIANTS
  LadderHoldsResting
  LadderKeepsPriority
  NextTriggerRests
  AmountsFit
  WindowIsCurrent
PROPERTY OnlyNegativeHoldsOverrun
