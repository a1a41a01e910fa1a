SPECIFICATION FairSpec
CONSTANTS
  Hook = {h1, h2}
  Rotator = {h1}
  MaxFiles = 4
  RotateAt = 2
  HookRotateAt = 1
  MaxChanges = 2
INVARIANTS ReadOnce SwitchIsOfAFollower LogIsTrue OptionsAreFresh LockIsReleasedLast
PROPERTY LinesAndSignalsArrive
CHECK_DEADLOCK FALSE
