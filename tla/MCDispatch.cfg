CONSTANTS
  c1 = c1
  c2 = c2
  h1 = h1
  NoProc = NoProc
  Calls <- MCCalls
  Hooks <- MCHook
  Key <- MCSameKey
  MaxTries = 2
  Direct <- MCDirect
  MaxFaults = 1
SPECIFICATION FairSpec
INVARIANTS
  TypeOK
  NotifiedWasTyped
  OnePendingPerKey
  TypedOnce
PROPERTIES
  LogLifecycle
  FailedUnlessMishap
  CallsReturn
  PendingSettles
