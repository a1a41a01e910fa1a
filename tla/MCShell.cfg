SPECIFICATION Spec
CONSTANTS
  a = a
  b = b
  c = c
  sa = sa
  sb = sb
  sc = sc
  Proc <- MCProc
  Sid <- MCSid
  MayBe <- MCMayBe
  MaySid <- MCMaySid
  ParentOf <- MCParentOf
  None = None
  Pane = Pane
  Events = 1
  Missed = {c}
  Locker = {p1, p2, p3}
  Nobody = Nobody
  Ages = TRUE
INVARIANTS RecordsAtHome RecordsEndWithTheirs OneHolder
CHECK_DEADLOCK FALSE
