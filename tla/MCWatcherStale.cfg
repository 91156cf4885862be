SPECIFICATION Spec
CONSTANTS
  Confirm = 3
  Invalidate = 2
  Touch = 1
  Signal <- One
  Entries <- BuyAtFour
  Prices <- MCPrices
  ZoneMin = 3
  ZoneMax = 4
  Expiry <- MCExpiry
  MaxHold = 0
  Day = 2
  Start = 0
  LastArm = 2
  MaxTime = 3
  MaxOthers = 1
  MaxRaises = 1
  MaxRestarts = 1
CHECK_DEADLOCK FALSE
INVARIANT ViableWhenFired
