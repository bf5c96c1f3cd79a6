CONSTANTS
  Size = 2
  MaxRead = 3
  NULL = NULL
  MaxRetry = 1
  RingCap = 1
  MaxMsgs = 1
  Faults <- IpcFaults
SPECIFICATION Spec
INVARIANTS TypeOK QConsistent InOrder CompleteOnTimeUp AtMostOneLost ReaderGoneIsNoticed
PROPERTY QueueIsFifo
CHECK_DEADLOCK FALSE
