SPECIFICATION Spec
CONSTANTS
  Key = {1}
  After = 2
  Ttl = 3
  Window = 1
  RefollowMin = 1
  RefollowMax = 2
  InForce <- MCInForce
  MaxTime = 4
  MaxEvents = 0
  MaxDeaths = 3
PROPERTY WaitStartsOverIfProven
CHECK_DEADLOCK FALSE
