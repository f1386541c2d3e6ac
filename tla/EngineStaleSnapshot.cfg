SPECIFICATION Spec
CONSTANTS
  Commands = {a, b, c}
  Ticks = {}
  Ending = {}
  MaxSeq = 2
  QueueDepth = 1
  SubmitDepth = 1
  MaxBatch = 2
  SnapshotEvery = 1
  Replication = "None"
  MaxStarts = 3
INVARIANT ToldSurvives
CHECK_DEADLOCK FALSE
