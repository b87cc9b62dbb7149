SPECIFICATION Spec
CONSTANTS
  MaxNodes = 5
  MaxConstructs = 2
INVARIANT AllCommandsAreExtracted
CHECK_DEADLOCK FALSE
