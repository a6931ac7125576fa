SPECIFICATION Spec
CONSTANTS
  Driver = {"replay", "live"}
  Size = 2
  MaxOrders = 2
  MaxRestarts = 1
CHECK_DEADLOCK FALSE
INVARIANT Mirrors
