CONSTANTS
  Tracked <- TwoAssets
  Klines = {"calm", "crash"}
  NoKlines = "none"
  Mass <- MassOf
  Correlation <- Correlated
  Gaps = {300}
  Threshold = 15
  Multiplier = 2
  Vixes = {35, 36}
  Fears = {19, 20}
  HasKey = TRUE
SPECIFICATION FairSpec
INVARIANTS ContagionIsNews KillIsBacked
PROPERTY CrisisStops
