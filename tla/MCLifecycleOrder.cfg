SPECIFICATION FairSpec
CONSTANTS
  Signal <- One
  Tears = TRUE
  MaxRecords = 3
  MaxCopies = 2
  MaxRestarts = 2
  Charts <- UpToThreeBars
  RefPrices <- Ten
  Spreads <- Few
  Distances <- Few
  DefaultRR = 133
CHECK_DEADLOCK FALSE
INVARIANTS
  TypeOK
  MeasuredUnlessTorn
  OutcomesExplained
  SupersededAfterOutcome
  IndexIsEarned
  SpokenIsWorst
PROPERTIES
  MeasuredInTheEnd
  ResolvedIsAsked
