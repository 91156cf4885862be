SPECIFICATION FairSpec
CONSTANTS
  d1 = d1
  d2 = d2
  Decision <- OneDecision
  MaxDay = 1
  MaxEvents = 2
  MaxRestarts = 1
CHECK_DEADLOCK FALSE
ACTION_CONSTRAINT AnchoredWhenSeen
INVARIANTS
  TypeOK
  DecisionsAccounted
  AnchoredResolves
  SupersededHasHeir
  ReplacedIsSuperseded
PROPERTY EveryDayIsPublished
