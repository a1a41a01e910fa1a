SPECIFICATION AllSpec
CONSTANTS
  Starter = {s1, s2, s3}
  Daemon = {d1, d2, d3}
  Left = d1
  Nobody = Nobody
  BindAttempts = 3
  Faults = {}
  Client = {c1, c2}
  AcceptMayFail = TRUE
  Chunks = 4
  ReplayCap = 2
INVARIANTS ServerIsReachable LostOnlyInTheGap EachLinkIsAPrefix HereGetsAll
PROPERTIES ServerAndJoinEnd
CHECK_DEADLOCK FALSE
