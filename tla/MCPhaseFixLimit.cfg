CONSTANTS
  m1 = m1
  m2 = m2
  Monitors <- MCOneMonitor
  MaxFix = 1
  PromptMode = FALSE
  MaxRounds = 2
  MaxStalls = 0
  MaxHooks = 0
SPECIFICATION Spec
PROPERTY FailedStays
