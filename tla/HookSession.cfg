SPECIFICATION FairSpec
INVARIANTS
  DenyHolds
  ClaudeFailsSafe
  CodexFailuresAreLogged
  AnswerIsLogged
  LiftsAreAttributed
PROPERTIES
  EveryCallIsSettled
