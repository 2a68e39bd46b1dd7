CONSTANTS
  p1 = p1
  p2 = p2
  p3 = p3
  NoProc = NoProc
  Dead = Dead
  Procs <- MCProcs
  Crashable <- MCOne
  Slow <- MCSlow
SPECIFICATION FairSpec
INVARIANT
  TypeOK
PROPERTIES
  OnlyRecoveryMisremoves
  OrphanRecovered
  MutexUntilMisremoved
