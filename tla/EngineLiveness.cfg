SPECIFICATION FairSpec
CONSTANTS
  Commands = {a, b}
  Ticks = {}
  Ending = {b}
  MaxSeq = 1
  QueueDepth = 1
  SubmitDepth = 1
  MaxBatch = 2
  SnapshotEvery = 9
  Replication = "Sync"
  MaxStarts = 1
PROPERTIES
  CallersAnswered
  ShutdownCompletes
CHECK_DEADLOCK FALSE
