SPECIFICATION Spec
CONSTANTS
  Starter = {s1, s2}
  Daemon = {d1, d2}
  Left = Nobody
  Nobody = Nobody
  BindAttempts = 2
  Faults = {"stall"}
PROPERTY WaitingStarterKeepsLock
CHECK_DEADLOCK FALSE
