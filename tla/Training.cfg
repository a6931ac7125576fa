SPECIFICATION Spec
CONSTANTS
  PerDay = 3
  Horizon = 1
  Spans = TRUE
  Warmup = 1
  Folds = 1
  Embargo = 0
  MinTrain = 1
  Days = 4
  Symbols <- MCSymbols
  Listed <- MCListed
  Traded = {"thin"}
  WindowDays = 1
  TopUpDays = 3
  Lookback = 4
  Holdout = 1
  MinTrades = 1
  HandHoldouts = {2}
  MaxSignals = 1
  MaxVersions = 2
  MaxMoves = 2
  MaxFailures = 1
  MaxCrashes = 1
  MaxByHand = 1
INVARIANTS TopUpExact OutOfSample WalksBack
CHECK_DEADLOCK FALSE
