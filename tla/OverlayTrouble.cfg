SPECIFICATION AnsweredSpec
CONSTANTS
  sunny = sunny
  stormy = stormy
  left = left
  right = right
  Text = {sunny, stormy}
  Position = {left, right}
  Id = {1, 2}
INVARIANTS TypeOK AtMostOneOverlay StopRemovesOverlay
PROPERTY OverlayComesBack
