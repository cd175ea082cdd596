SPECIFICATION FairSpec
CONSTANTS
  tornado = tornado
  flood = flood
  heat = heat
  p1 = p1
  p2 = p2
  p3 = p3
  Port = {p1, p2, p3}
  Trigger = {tornado, flood, heat}
  Event = {tornado, flood}
  AtZero = {heat}
  Tables <- ToggleTables
  MaxRules = 2
  MaxManual = 0
  Env = {}
INVARIANTS TypeOK PortsMirrorRules
PROPERTIES MirrorSpec QuietWeatherReleasesPorts LastingAlertHoldsPort
