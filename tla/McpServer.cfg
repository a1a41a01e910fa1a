SPECIFICATION FairSpec
CONSTANTS
  Ids = {a, zero}
  Falsy = {zero}
  NoId = NoId
  MaxCalls = 2
  StopMost = 1
  EndWait = 2
INVARIANTS
  LeavesNothingOpen
PROPERTIES
  KeepsContract
  EndingLeaves
CHECK_DEADLOCK FALSE
