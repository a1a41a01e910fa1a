SPECIFICATION FairSpec
CONSTANTS
  Limit = 2
  MaxLines = 2
  Timeout = 1
  ReaderWait = 1
  Cap = 1
  MaxChunks = 2
  MaxHeirs = 1
  Grace = 1
  Drain = 1
INVARIANTS OutcomeIsOfTheLastResult OutputIsKept SignalsAreOfTheLiving LingersForHeirs
PROPERTIES GraceIsGiven TurnAndCallEnd
CHECK_DEADLOCK FALSE
