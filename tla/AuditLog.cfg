SPECIFICATION Spec
CONSTANTS
  w1 = w1
  w2 = w2
  Writers = {w1, w2}
  Keep = 2
  MaxBytes = 2
  MaxInvocations = 9
  MaxKills = 1
INVARIANTS
  SizeIsBounded
  KeptAreNewest
  LossNeedsRetention
CHECK_DEADLOCK FALSE
