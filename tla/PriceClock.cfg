SPECIFICATION Spec
CONSTANTS
  I64Max = 7
  U64Max = 15
  NanosPerSec = 3
  Schedules <- MCSchedules
  Widths = {0, 1, 2, 3}
  Targets <- MCTargets
  MaxLateness = 4
INVARIANTS
  TimeToReachIsEarliest
  WindowPriceIsLowest
PROPERTY PriceDescends
