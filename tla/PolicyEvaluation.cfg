SPECIFICATION Spec
CONSTANTS
  FactSets = {{}, {"listed"}, {"listed", "names"}, {"named"}, {"deny_rule", "listed"},
              {"listed", "sensitive"}, {"allow_rule"}, {"first_hand"},
              {"redirected"}, {"descriptive"}, {"bare"}}
  DefaultDecision = "ask"
  MaxUnwrapDepth = 2
  MaxNodes = 4
  MaxSpecial = 2
INVARIANTS
  DenialIsFinal
  AllowIsVouched
PROPERTIES
  OneMoreNeverHelps
CHECK_DEADLOCK FALSE
