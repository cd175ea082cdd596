SPECIFICATION FairSpec
CONSTANTS
  p1 = p1
  p2 = p2
  Port = {p1, p2}
  MaxLevel = 2
  Configs <- SomePolls
  Period = 6
INVARIANTS TypeOK CheckedEveryN PortFollowsBelief
PROPERTIES PortFollowsRisk
