CONSTANTS
  Requests = {r1}
  Orders <- Bought
  Modes = {"dry_run", "guard", "jito", "other"}
  Prices = {8, 9, 11, 13}
  Rugs = {30, 31}
  RugMax = 30
  VolMin = 5
  VolMax = 150
  TrailMult = 2
  AutoExit = 1
  ClosedCap = 1
  Depth = 1
SPECIFICATION Spec
INVARIANT ExitsWhenDue
