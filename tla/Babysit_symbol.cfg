CONSTANTS
  long = long
  other = other
  nobody = nobody
  compact = compact
  swap = swap
  Pids <- OnePid
  Symbol <- OneSymbol
  Quoted <- Compact
  Side <- OneSide
  Priced <- OnePid
  Limit = 1
  MaxCrashes = 0
SPECIFICATION FairSpec
CHECK_DEADLOCK FALSE
PROPERTY EveryoneIsFed
