SPECIFICATION LineSpec
CONSTANTS MaxTokens = 4
INVARIANTS FirstChangeIsFollowed
CHECK_DEADLOCK FALSE
