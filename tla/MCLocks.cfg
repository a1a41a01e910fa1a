SPECIFICATION BothSpec
CONSTANTS
  Starter = {s1}
  Pid = {p1, p2}
  Left = d
  Nobody = Nobody
  BindAttempts = 2
  Faults = {"stall", "killStarter", "manual"}
  NoPid = NoPid
  NoFile = NoFile
  LockTries = 2
  MaxBorn = 2
  MaxBoot = 1
INVARIANTS
  OwnerKeepsItsLock
  OneDaemonWithoutFaults
PROPERTIES
  YoungTempSurvives
  StartsEnd
CHECK_DEADLOCK FALSE
