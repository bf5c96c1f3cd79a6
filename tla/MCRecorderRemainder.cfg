CONSTANTS
  Size = 2
  MaxRead = 3
  NULL = NULL
  MaxRetry = 1
  RingCap = 1
  MaxMsgs = 1
  Faults = {}
SPECIFICATION FairSpec
PROPERTY RemainderEnds
CHECK_DEADLOCK FALSE
