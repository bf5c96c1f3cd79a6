SPECIFICATION DmaSpec
CONSTANTS
  TsCount = 2
  Parts = 2
  DescSize = 2
  DescPage = 5
  Sizes <- MCSizes
  MaxPolls = 1
  MaxParts = 7
  MaxCalls = 3
INVARIANTS DmaTypeOK Contiguous Fresh
CHECK_DEADLOCK FALSE
