CONSTANTS
  Pids = {1, 2, 3, 4, 5}
  Offers = {}
  Ticks <- ReplayTicks
  TakeProfitPct = 5
  HardStopPct = 3
  MinMovePerMille = 5
  DecayAge = 1
  LimitAge = 2
  GhostWindow = 1
  GhostMin = 2
  GhostCap = 3
  Smooth = 5
  ClosedCap = 2
  TicksPerAge = 5
  Tapes <- FiveTicks
  Strategies = {"obi", "fixed", "multi"}
  MaxConcurrent = 2
  Lookback = 1
  Every = 1
  FixedSide = "SHORT"
  AtrWindow = 50
SPECIFICATION FairReplay
INVARIANTS LedgerAgrees BooksAgree
PROPERTIES AllRecorded KeepsPromise
