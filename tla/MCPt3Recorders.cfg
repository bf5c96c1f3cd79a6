CONSTANTS
  u1 = u1  u2 = u2  u3 = u3  s1 = s1  s2 = s2  t1 = t1
  User <- MCUser
  Checker <- MCChecker
  SatCh <- MCSatCh
  TerCh <- MCTerCh
  BsDev <- MCBsDev
  IsdbTDev <- MCIsdbTDev
  NoUser = NoUser
  NoChan = NoChan
  MaxTunes = 3
SYMMETRY Symmetry
SPECIFICATION RSpec
INVARIANTS RTypeOK ExclusiveUse QuietWhenUnused AwakeInUse LnbOffAfterUse
PROPERTIES LnbStays UsesDriver
CHECK_DEADLOCK FALSE
