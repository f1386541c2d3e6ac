SPECIFICATION Spec
CONSTANTS
  None = None
  Keys <- MCKeys
  Quantities = {1, 2, 3}
  Priorities = {1, 2}
  Supplies = {0, 1, 2, 4, 5, 7}
INVARIANTS
  LoopComputesAllocate
  RemainderPlaced
  PriorityRespected
PROPERTY MatchingEnds
CHECK_DEADLOCK FALSE
