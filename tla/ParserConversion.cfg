SPECIFICATION Spec
CONSTANTS
  MaxNodes = 6
  MaxConstructs = 2
INVARIANTS LossesAreKnown RedirectsReach
CHECK_DEADLOCK FALSE
