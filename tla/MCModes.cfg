CONSTANTS
  p1 = p1
  p2 = p2
  Procs <- MCProcs
  Does <- MCDoes
  Modes <- MCModes
  MaxOps = 4
  MaxKills = 1
SPECIFICATION Spec
INVARIANTS
  TypeOK
  ActiveCompatible
  ActiveListed
  DeniedInTime
PROPERTY
  ClearHeals
