SPECIFICATION FairSpec
CONSTANTS
  b1 = b1
  b2 = b2
  Bridges = {b1, b2}
  Bytes <- Numbered
  RingCap = 3
  Blank = 0
  StdoutCap = 1
  SinkCap = 2
  MaxBytes = 4
  MaxChunk = 4
  None = None
INVARIANTS TypeOK RingIsTail NothingMissed
PROPERTIES RecentOutputIsShown
CHECK_DEADLOCK FALSE
