CONSTANTS
  t1 = t1
  t2 = t2
  c1 = c1
  c2 = c2
  m1 = m1
  m2 = m2
  NoTask = NoTask
  Tasks <- MCTasks
  Callers <- MCCallers
  Monitors <- MCMonitors
  MaxCalls = 3
  MaxCrashes = 1
SPECIFICATION FairSpec
INVARIANTS
  TypeOK
  AnnouncedIsCompleted
  OnceUnlessRaced
PROPERTIES
  LostEventRecovered
