SPECIFICATION Spec
CONSTANTS
  e1 = e1
  e2 = e2
  e3 = e3
  k1 = k1
  k2 = k2
  engine = engine
  resolver = resolver
  Entry <- Strangers
  Key <- MCKey
  KeyOf <- StrangersKeyOf
  NoEntry = NoEntry
  Callers <- OneCaller
  Limit = 2
  Threshold = 1
  GivesUp = FALSE
  Rejects = TRUE
  Ambiguous = FALSE
  DiskFaults = FALSE
  Tears = FALSE
  Graceful = FALSE
  MaxRestarts = 1
  MaxRepairs = 0
  MaxCopies = 1
CHECK_DEADLOCK FALSE
CONSTRAINT QuietCompaction
INVARIANT HandedNeverLost
