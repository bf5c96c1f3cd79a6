SPECIFICATION SrSpec
CONSTANTS
  PmtPids <- PmtPidsDef
  EsPids <- EsPidsDef
  Atoi <- AtoiDef
  CcMod = 3
  Requests <- RequestsDef
  Pats <- PatsDef
  Stale <- StaleDef
  Table <- TableDef
  MaxBlock = 2
INVARIANT SectionLeft
CHECK_DEADLOCK FALSE
