SPECIFICATION Spec
CONSTANTS
  Signal <- Two
  Dir <- BothUp
  Frame <- Frames
  Suppressors <- HourOverQuarter
  Limit = 2
  Block = 2
  Compress = 3
  MaxMishaps = 0
CHECK_DEADLOCK FALSE
PROPERTY CooldownRefuses
