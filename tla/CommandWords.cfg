SPECIFICATION Spec
CONSTANTS
  MaxWords = 4
INVARIANTS
  TextIsWhatBashGives
  WhatRunsIsFound
  ClassifiersVouchTruly
  AllowedIsWhatRuns
  GlobalsDoNotMatter
  RulesMissNothing
  JudgeIsAskedTruly
CHECK_DEADLOCK FALSE
