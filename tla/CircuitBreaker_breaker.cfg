CONSTANTS
  brain = brain
  shadowglass = shadowglass
  c1 = c1
  c2 = c2
  Idle = Idle
  Nodes <- TwoNodes
  Calls <- TwoCalls
  Gathered <- OneNode
  Threshold = 2
  Cooldown = 1
SPECIFICATION FairSpec
INVARIANTS ClosedBelowThreshold ProbeAfterCooldown QuietBeforeProbe
PROPERTIES FailingIsCutOff RecoveredIsClosed
