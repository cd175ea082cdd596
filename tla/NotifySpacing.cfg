SPECIFICATION Spec
CONSTANTS
  tornado = tornado
  heat = heat
  Event = {tornado, heat}
  EngineOf <- MCEngineOf
  Settings <- AllOnEdits
  MaxRecords = 3
  MaxTime = 4
INVARIANTS TypeOK ReceiversAgree
PROPERTIES Spaced SilenceIsRecent
