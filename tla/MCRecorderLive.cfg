CONSTANTS
  Size = 2
  MaxRead = 3
  NULL = NULL
  MaxRetry = 1
  RingCap = 1
  MaxMsgs = 0
  Faults <- LiveFaults
SPECIFICATION FairSpec
PROPERTY Terminates
