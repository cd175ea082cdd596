SPECIFICATION Spec
CONSTANTS
  tornado = tornado
  flood = flood
  heat = heat
  p1 = p1
  p2 = p2
  p3 = p3
  Port = {p1, p2, p3}
  Trigger = {tornado, flood, heat}
  Event = {tornado, flood}
  AtZero = {heat}
  Tables <- FixedTables
  MaxRules = 2
  MaxManual = 1
  Env = {"vapix", "alertfetch", "readings", "mute", "crash", "stop", "fire", "drill"}
INVARIANTS NoMissedAlert ListenersAgree
