SPECIFICATION FairSpec
CONSTANTS
  NumProviders = 2
  TotalBudget = 4
  HedgeAfter = 2
  BackoffBase = 2
  BackoffMax = 3
  RelaunchFloor = 1
  MaxAttempts = 3
  MaxNonconforming = 2
  MaxClock = 5
INVARIANTS
  ArrivalsAreKnown
  EveryLaunchIsReported
  FirstVerdictWins
PROPERTIES
  Terminates
  RetriesKeepTheFloor
  KeepsContract
