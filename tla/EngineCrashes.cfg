SPECIFICATION Spec
CONSTANTS
  Commands = {a, b, t}
  Ticks = {t}
  Ending = {}
  MaxSeq = 2
  QueueDepth = 2
  SubmitDepth = 1
  MaxBatch = 2
  SnapshotEvery = 2
  Replication = "Sync"
  MaxStarts = 3
SYMMETRY CommandSymmetry
INVARIANTS
  TypeOK
  ToldIsDurable
  ToldSurvives
  StateIsLogged
  ZeroLoss
  SequencerNeverPanics
CHECK_DEADLOCK FALSE
