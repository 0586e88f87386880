CONSTANTS
  Depth = 2
  Books <- WallBooks
  MinNotional = 5
  Lifetime = 1
  GhostCap = 1
SPECIFICATION FairSpec
INVARIANT GhostsWereYoung
PROPERTY TrackersEnd
