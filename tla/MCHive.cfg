CONSTANTS
  MapMin = 0
  MapMax = 1
  BaseSpan = 1
  FrankieX = 1
  FrankieY = 1
  p1 = p1
  p2 = p2
  s1 = s1
  s2 = s2
  c1 = c1
  Players = {p1, p2}
  NoOne = NoOne
  SlotIds = {s1, s2, s3, s4, s5}
  NoSlot = NoSlot
  NoAnchor = NoAnchor
  Colours = {c1}
  Brushes <- MCBrushes
  BlockSides = {}
  RingSides = {}
  MaxTiles = 3
  DrawBound = 2
  Anchors <- MCAnchors
  Shapes <- MCShapes
  Boards <- MCBoards
  MaxEdits = 2
  MaxOthers = 1
SPECIFICATION SaveSpec
INVARIANTS BoardAndDraftSound
PROPERTIES NobodyMisplaced
CHECK_DEADLOCK FALSE
SYMMETRY FreshAlike
