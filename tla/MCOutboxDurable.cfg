SPECIFICATION CleanSpec
CONSTANTS
  e1 = e1
  e2 = e2
  e3 = e3
  k1 = k1
  k2 = k2
  engine = engine
  resolver = resolver
  Entry <- Three
  Key <- MCKey
  KeyOf <- ThreeKeyOf
  NoEntry = NoEntry
  Callers <- TwoCallers
  Limit = 2
  Threshold = 1
  GivesUp = TRUE
  Rejects = TRUE
  Ambiguous = TRUE
  DiskFaults = TRUE
  Tears = FALSE
  Graceful = FALSE
  MaxRestarts = 1
  MaxRepairs = 1
  MaxCopies = 2
CHECK_DEADLOCK FALSE
SYMMETRY Interchangeable
INVARIANTS
  TypeOK
  HandedNeverLost
  DoneHasLanded
  NoUnexplainedCopy
  RestartChangesNothing
  ParkedNeverSubmitted
PROPERTY KeepsPromise
