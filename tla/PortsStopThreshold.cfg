SPECIFICATION Spec
CONSTANTS
  tornado = tornado
  flood = flood
  heat = heat
  p1 = p1
  p2 = p2
  p3 = p3
  Port = {p1, p2}
  Trigger = {tornado, heat}
  Event = {tornado}
  AtZero = {heat}
  Tables <- PairTables
  MaxRules = 2
  MaxManual = 0
  Env = {"stop"}
INVARIANT StopClearsAllPorts
