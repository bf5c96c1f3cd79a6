SPECIFICATION Spec
CONSTANTS
  Units = 2
  SeenMax = 3
  Boards = {b1, b2, b3}
  Places = 2
  none = none
  b1 = b1
  b2 = b2
  b3 = b3
  Chs = {1, 2}
  SlotsOf <- SlotsOfDef
  Slots = {0, 1}
  MaxCalls = 5
  MaxFaults = 2
  Adaps = 3
  Sats = {1, 2}
  N = 3
  MaxFeeds = 3
  MaxBlocks = 5
  Feeds = {f1, f2, f3}
  f1 = f1
  f2 = f2
  f3 = f3
INVARIANTS CleanAbort  StreamSafe TableTrue    TunedAsAsked LnbFollows FeedsStream
PROPERTIES BlocksInOrder
CHECK_DEADLOCK FALSE
