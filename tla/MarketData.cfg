SPECIFICATION FairSpec
CONSTANTS
  Width = 2
  Session = 4
  End = 7
  LastTrade = 4
  Quantities = {1, 2}
  BufferSize = 2
  MaxWire = 2
  MaxTrades = 3
  MaxDrops = 1
  MaxRestarts = 1
INVARIANTS CountedOnce
PROPERTIES WindowCloses
CHECK_DEADLOCK FALSE
