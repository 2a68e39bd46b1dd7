CONSTANTS
  t1 = t1
  t2 = t2
  w1 = w1
  w2 = w2
  NoWorker = NoWorker
  Tasks <- MCTasks
  Workers <- MCWorkers
  MaxClaims = 3
  MaxEdits = 1
SPECIFICATION Spec
SYMMETRY Alike
INVARIANTS
  TypeOK
  LeaseHonoured
PROPERTIES
  TerminalForever
  StartsReady
  VersionCountsChanges
CHECK_DEADLOCK FALSE
