SPECIFICATION Spec
CONSTANTS
  ProfileNames = {"default", "strict", "daemon", "unresolved"}
  BuiltInIds = {"rm"}
  OverlayIds = {"rm"}
  MaxEdits = 3
INVARIANTS
  FollowsPrecedence
  WeakeningIsReported
  AcceptedIsRooted
  ProfilesCommandAgrees
PROPERTIES
  StrangersDoNotMatter
CHECK_DEADLOCK FALSE
