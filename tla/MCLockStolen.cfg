CONSTANTS
  p1 = p1
  p2 = p2
  p3 = p3
  NoProc = NoProc
  Dead = Dead
  Procs <- MCProcs
  Crashable <- MCOne
  Slow <- MCNone
SPECIFICATION Spec
INVARIANTS
  MutualExclusion
