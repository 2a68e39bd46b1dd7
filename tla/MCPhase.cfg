CONSTANTS
  m1 = m1
  m2 = m2
  Monitors <- MCMonitors
  MaxFix = 1
  PromptMode = TRUE
  MaxRounds = 1
  MaxStalls = 1
  MaxHooks = 1
SPECIFICATION FairSpec
INVARIANTS
  TypeOK
  PathsLegal
PROPERTIES
  CompletesWhenDone
  ReopensForWork
