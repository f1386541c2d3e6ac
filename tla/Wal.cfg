SPECIFICATION Spec
CONSTANTS
  Auctions = {a, b}
  Payloads = {x, y}
  MaxSeq = 5
  SegmentRecords = 2
INVARIANTS
  TypeOK
  RecoveryAlwaysStarts
  LogIsOfOneAuction
PROPERTY ImplementsDurableLog
CHECK_DEADLOCK FALSE
