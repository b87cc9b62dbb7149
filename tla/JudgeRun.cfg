SPECIFICATION FairRunSpec
CONSTANTS
  NumProviders = 2
  TotalBudget = 1
  HedgeAfter = 0
  BackoffBase = 1
  BackoffMax = 1
  RelaunchFloor = 0
  MaxAttempts = 2
  MaxNonconforming = 1
  MaxClock = 2
  Timeout = 1
PROPERTIES
  IsARunner
INVARIANTS
  NothingIsLeftBehind
  VerdictWasPrinted
