SPECIFICATION BTSpec
CONSTANTS
  Job <- MCJob
  Request <- MCRequest
  Archived <- MCArchived
  Session = 3
  SquareOff = 1
  Lookback = 2
  Cash = 12
  FeePerUnit = 1
  Sizes = {1, 2}
  MaxOrders = 2
  MaxRestarts = 1
CHECK_DEADLOCK FALSE
INVARIANT NoLookAhead
