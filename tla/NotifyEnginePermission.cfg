SPECIFICATION Spec
CONSTANTS
  Key = {1}
  After = 2
  Ttl = 3
  Window = 1
  RefollowMin = 1
  RefollowMax = 2
  InForce <- MCInForce
  MaxTime = 3
  MaxEvents = 3
  MaxDeaths = 0
INVARIANT NoStaleNotice
CHECK_DEADLOCK FALSE
