SPECIFICATION Spec
CONSTANTS
  intraday = intraday
  delivery = delivery
  Strategy = {intraday, delivery}
  SymbolOf <- Symbols
  ProductOf <- Products
  Rules <- LongOnly
  Size <- ThreeOne
  Lot = 1
  Slice = 1
  Prices = {2, 3}
  MaxPosition = 5
  MaxGross = 9
  MaxLoss = 1
  Fee = 0
  Days = 2
  MaxIntents = 3
  MaxRestarts = 1
INVARIANTS PendingLive 
PROPERTIES LossLatches
CHECK_DEADLOCK FALSE
