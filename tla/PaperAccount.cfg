SPECIFICATION Spec
CONSTANTS
  Prices <- SomePrices
  Contexts <- TickAndBar
  Requests <- MixedRequests
  Modified = {3}
  Liquidated = {"MIS"}
  Start = 6
  Fee = 1
  FillAtPlacement = TRUE
  Strict = FALSE
  Participation = TRUE
  Blind = FALSE
  Torn = FALSE
  MaxOrders = 3
  MaxFills = 3
  MaxRestarts = 1
CHECK_DEADLOCK FALSE
INVARIANTS TypeOK BooksAgree PnLAgrees CashFloor NoShortHoldings DiskFollows
PROPERTY ImplementsLedger
