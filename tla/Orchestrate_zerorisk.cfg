CONSTANTS
  Nodes <- DreamerNodes
  SurvivalNodes <- DreamerSurvival
  DirectionNodes <- DreamerDirection
  RiskNodes <- DreamerRisk
  Weight <- DreamerWeight
  Replies <- DreamerReplies
  RequiredNodes <- NoneRequired
  Fallback = "WAIT"
  ConfigMode = "AND"
  Requests <- V3Requests
  Attempts = 1
  Brain = "brain"
  Shadow = "shadowglass"
  Scale = 100
  ConfigMinConf = 55
  BaseRisk = 100
  Floor = 5
  Cap = 500
  LegacyMinConf = 55
  DivergenceThreshold = 30
  GhostNotional = 5
  RugThreshold = 40
SPECIFICATION Spec
CHECK_DEADLOCK FALSE
INVARIANT ZeroRiskNoTrade
