CONSTANTS
  MapMin = 0
  MapMax = 2
  BaseSpan = 2
  FrankieX = 1
  FrankieY = 1
  p1 = p1
  s1 = s1
  s2 = s2
  c1 = c1
  Players = {p1}
  NoOne = NoOne
  SlotIds = {s1, s2}
  NoSlot = NoSlot
  NoAnchor = NoAnchor
  Colours = {c1}
  Brushes <- MCBrushes
  BlockSides = {3}
  RingSides = {3}
  MaxTiles = 2
  DrawBound = 2
  MaxGestures = 5
  Anchors <- MCAnchors
  Shapes <- MCShapes
  Boards <- MCBoards
  NoHand = NoHand
  Reach = 0
  Radii = {0, 1}
  Pictures <- MCPictures
SPECIFICATION ScreensSpec
INVARIANTS NoSharedGround PlacesAreUnique PointerIsSound
PROPERTY DrawingIsFaithful
CHECK_DEADLOCK FALSE
