SPECIFICATION LineSpec
CONSTANTS MaxTokens = 4
INVARIANTS JudgedCodeRuns OnlyOwnFilesAreSent
CHECK_DEADLOCK FALSE
