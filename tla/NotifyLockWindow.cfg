SPECIFICATION Spec
CONSTANTS
  Pid = {p1, p2}
  NoPid = NoPid
  NoFile = NoFile
  LockTries = 2
  MaxBorn = 2
  MaxBoot = 0
PROPERTY RobbedOnlyInTheWindow
CHECK_DEADLOCK FALSE
