SPECIFICATION Spec
CONSTANTS
  Slices = 2
  Qty <- UnevenQty
  MaxChase = 1
  MaxRetries = 1
  MaxFaults = 1
INVARIANTS  OneAtATime GhostsExplained CountsExplained
CHECK_DEADLOCK FALSE
