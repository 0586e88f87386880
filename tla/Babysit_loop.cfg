CONSTANTS
  long = long
  other = other
  nobody = nobody
  compact = compact
  swap = swap
  Pids <- ThreePids
  Symbol <- ThreeSymbol
  Quoted <- Compact
  Side <- ThreeSide
  Priced <- ThreePriced
  Limit = 1
  MaxCrashes = 1
SPECIFICATION FairSpec
CHECK_DEADLOCK FALSE
INVARIANTS OrphansExplained ClosedOnce SnapshotIsLive
PROPERTY EveryoneIsReached
