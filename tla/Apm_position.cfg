CONSTANTS
  Pids = {p1}
  Offers <- SideOffers
  Ticks <- CloseTicks
  TakeProfitPct = 5
  HardStopPct = 3
  MinMovePerMille = 5
  DecayAge = 2
  LimitAge = 3
  GhostWindow = 1
  GhostMin = 2
  GhostCap = 3
  Smooth = 2
  ClosedCap = 2
  TicksPerAge = 2
SPECIFICATION FairSpec
CHECK_DEADLOCK FALSE
INVARIANTS HeldWithinLimits StopKeepsDistance WeaponsAgree DecayIsTrue
PROPERTIES StopRatchets EverythingEnds
