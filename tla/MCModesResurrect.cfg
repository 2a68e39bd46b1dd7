CONSTANTS
  p1 = p1
  p2 = p2
  Procs <- MCOneProc
  Does <- MCAll
  Modes <- MCRalph
  MaxOps = 4
  MaxKills = 0
SPECIFICATION Spec
PROPERTY NoResurrection
