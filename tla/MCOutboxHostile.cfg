SPECIFICATION Spec
CONSTANTS
  e1 = e1
  e2 = e2
  e3 = e3
  k1 = k1
  k2 = k2
  engine = engine
  resolver = resolver
  Entry <- Twins
  Key <- MCKey
  KeyOf <- TwinsKeyOf
  NoEntry = NoEntry
  Callers <- OneCaller
  Limit = 1
  Threshold = 1
  GivesUp = TRUE
  Rejects = TRUE
  Ambiguous = TRUE
  DiskFaults = TRUE
  Tears = TRUE
  Graceful = TRUE
  MaxRestarts = 1
  MaxRepairs = 1
  MaxCopies = 1
CHECK_DEADLOCK FALSE
INVARIANT DoneHasLanded
