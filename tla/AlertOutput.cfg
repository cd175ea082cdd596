SPECIFICATION Spec
CONSTANTS
  tornado = tornado
  watch = watch
  heat = heat
  Event = {tornado, watch, heat}
  Slots = 2
  TestWarning = tornado
  TestWatch = watch
  Words <- MCWords
  Settings <- MCSettings
  Palettes <- MCPalettes
  MaxIncidents = 2
INVARIANT TypeOK
PROPERTIES StrobeShowsDeviceColour FiresOnTransitions TestsStayInLane
