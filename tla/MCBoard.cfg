CONSTANTS
  p1 = p1
  p2 = p2
  w1 = w1
  NoProc = NoProc
  Orphan = Orphan
  NoWorker = NoWorker
  Procs <- MCProcs
  Leader = p1
  Tasks <- MCTasks
  Workers <- MCWorkers
  Approved <- MCApproved
  DepChoices <- MCDeps
  CodeChoices = {TRUE,FALSE}
  PromptBodies = TRUE
  MaxClaims = 2
  MaxEdits = 1
  MaxCrashes = 1
SPECIFICATION FairSpec
INVARIANTS
  TypeOK
  TerminalEventMatches
PROPERTIES
  ImplementsLedger
  AssignedWorkApproved
  ClaimsEnd
