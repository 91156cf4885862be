SPECIFICATION FairSpec
CONSTANTS
  Signal <- Two
  Dir <- BothUp
  Frame <- Frames
  Suppressors <- HourOverQuarter
  Limit = 1
  Block = 1
  Compress = 1
  MaxMishaps = 1
CHECK_DEADLOCK FALSE
INVARIANTS
  TypeOK
  BookedWhole
  StackHolds
  AccountedFor
PROPERTY ClosedIsBooked
