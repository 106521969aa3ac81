CONSTANTS
  s1 = s1
  s2 = s2
  s3 = s3
  Screen = {s1, s2, s3}
  Primary = s1
  NoScreen = NoScreen
  Shape <- Shapes
  Zone = 1
  Parts = 2
  Candidates <- Ringed
  Motions <- Moves
  MaxWalk = 6
SPECIFICATION LinksSpec
INVARIANTS LinksMap CursorKept HangsInRings
CHECK_DEADLOCK FALSE
