CONSTANTS
  Jobs = {j1}
  Callers = {c1, c2}
  MaxAttempts = 2
  BaseDelay = 1
  MaxDelay = 2
  Horizon = 2
  CallBound = 2
  FaultBound = 1
SPECIFICATION Spec
SYMMETRY Symmetric
CHECK_DEADLOCK FALSE
INVARIANTS OneRunAhead NothingForgotten StatusIsPlace
