SPECIFICATION Spec
CONSTANTS
  TLen = 2
  SLen = 5
  RLen = 2
  Word = 16
  MaxPkt = 6
  MaxStart = 1
  PerPort = 2
  MaxSession = 2
  Procs = {u1, u2}
  u1 = u1
  u2 = u2
INVARIANTS PsTypeOK RingInOrder   OldIsBounded LnbFollowsUse NoChannelStalls
PROPERTY OthersKeepStream
CHECK_DEADLOCK FALSE
