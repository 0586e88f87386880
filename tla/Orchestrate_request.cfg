CONSTANTS
  Nodes <- FourNodes
  SurvivalNodes <- FourSurvival
  DirectionNodes <- FourDirection
  RiskNodes <- FourRisk
  Weight <- FourWeight
  Replies <- FourReplies
  RequiredNodes <- ShadowRequired
  Fallback = "WAIT"
  ConfigMode = "AND"
  Requests <- AllRequests
  Attempts = 3
  Brain = "brain"
  Shadow = "shadowglass"
  Scale = 100
  ConfigMinConf = 55
  BaseRisk = 100
  Floor = 5
  Cap = 500
  LegacyMinConf = 55
  DivergenceThreshold = 30
  GhostNotional = 5
  RugThreshold = 40
SPECIFICATION Spec
CHECK_DEADLOCK FALSE
INVARIANTS TypeOK OrderJustified DuplicatesExplained StatusTellsOrders RiskWithinRequest SideSymmetric ModesNested SupportNeverHurts
PROPERTY AlwaysAnswered
