SPECIFICATION FairSpec
CONSTANTS
  Confirm = 3
  Invalidate = 2
  Touch = 1
  Signal <- One
  Entries <- BuyAtFour
  Prices <- MCPrices
  ZoneMin = 3
  ZoneMax = 4
  Expiry <- MCExpiry
  MaxHold = 0
  Day = 2
  Start = 1
  LastArm = 1
  MaxTime = 2
  MaxOthers = 1
  MaxRaises = 1
  MaxRestarts = 1
VIEW Seen
CHECK_DEADLOCK FALSE
INVARIANTS
  TypeOK
  EndsOnce
  FillsFollowTheThesis
PROPERTY ArmedEnds
