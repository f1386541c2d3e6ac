SPECIFICATION FairClockSpec
CONSTANTS
  None = None
  I64Max = 20
  U64Max = 25
  NanosPerSec = 1
  k1 = k1
  k2 = k2
  p1 = p1
  p2 = p2
  Keys = {k1, k2}
  Participants = {p1, p2}
  Schedule <- MCSchedule
  TotalSupply = 3
  BatchWindow = 3
  PriceTolerance = 1
  Timestamps = {}
  Quantities = {}
  Limits = {2}
  Expected = {}
  Collaterals = {}
  Submissions <- MCSubmissions
  AtStart <- Funded
  QueueDepth = 1
  MaxReading = 4
  MaxSent = 4
  MaxStarts = 2
INVARIANTS
  StampsNeverBackdated
  LedgerBalanced
PROPERTY AuctionEnds
