CONSTANTS
  s1 = s1
  s2 = s2
  c1 = c1
  NoProc = NoProc
  Scalers <- MCScalers
  Creators <- MCCreators
  InitialCount = 1
  MaxWorkers = 3
  MaxCount = 2
  MaxIndex = 3
  MaxPanes = 3
  MaxTask = 2
  MaxFaults = 1
SPECIFICATION Spec
SYMMETRY MCScalersAlike
INVARIANTS
  TypeOK
  NamesUniqueUnlessAstray
  PanesListed
  TeamSize
PROPERTY
  TasksKept
