SPECIFICATION InstallSpec
CONSTANTS
  Inits = {"init1", "init2"}
  Hooks = {"hook"}
  Judges = {"judge"}
  NumIncludes = 2
  MaxLaunches = 1
  MaxEdits = 1
INVARIANTS
  LoadsAreWhole
  InitIsWhole
  SettingsAreSafe
CHECK_DEADLOCK FALSE
