SPECIFICATION Spec
CONSTANTS
  Entry <- MCEntry
  Call <- MCCall
  Unanswered = {"unanswered"}
  Refused = {"refused"}
  Misworded = {"update"}
  Limit = 2
  MaxAttempts = 0
  Base = 20
  MaxBackoff = 40
  Interval = 30
  AttemptBound = 2
CHECK_DEADLOCK FALSE
INVARIANT RetriesCostNothing
PROPERTY SentOnceChainIsBack
