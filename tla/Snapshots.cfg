SPECIFICATION Spec
CONSTANTS
  tornado = tornado
  tornado_warning = tornado_warning
  lot_1 = lot_1
  gate = gate
  garden = garden
  Manual = Manual
  Test_Snapshot = Test_Snapshot
  Event = {tornado}
  Camera = {"Lot 1", "Lot/1", "Gate"}
  Label = {Manual, Test_Snapshot, tornado_warning, lot_1, gate, garden}
  Safe <- MCSafe
  Labelled <- MCLabelled
  Settings <- MCSettings
  Before <- MCBefore
  ScanMax = 2
  MaxFiles = 3
  MaxTime = 1
INVARIANTS TypeOK LimitHolds
PROPERTIES LossHasCause
SYMMETRY ByHand
CHECK_DEADLOCK FALSE
