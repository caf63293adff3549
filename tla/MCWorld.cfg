SPECIFICATION Spec
CONSTANTS
  EnemyInfos = {e1}
  Players = {p1}
  Boxes <- MCBoxes
  Extents <- MCExtents
  Points <- MCPoints
  SideLen = 14
  MaxNodes = 4
  MaxJoins = 2
INVARIANTS PlacedWhereFound NodeInPath
PROPERTIES PathEnds
