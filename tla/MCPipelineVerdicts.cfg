SPECIFICATION Spec
CONSTANTS
  Stacks <- ShortAndWired
  Value <- Values
  Timeframe <- Timeframes
  Phase <- Phases
  Regime <- Regimes
  Session <- Sessions
  Policy <- DeployedPolicy
  Signals <- SomeSignals
  Prices <- Somewhere
  Levels <- Near
  Distances <- Away
  Markets <- UpToFiveHours
VIEW Distinct
CHECK_DEADLOCK FALSE
INVARIANTS
  TypeOK
  AllowedIsUnanimous
  FailsClosed
  SkipsAreDeclared
  NeedsAreMet
  EntriesHold
PROPERTY SuppressionStands
