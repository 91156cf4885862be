SPECIFICATION Spec
CONSTANTS
  d1 = d1
  d2 = d2
  Decision <- TwoDecisions
  MaxDay = 0
  MaxEvents = 0
  MaxRestarts = 1
CHECK_DEADLOCK FALSE
INVARIANT NothingStranded
