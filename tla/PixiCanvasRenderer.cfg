SPECIFICATION Spec
CONSTANTS
  u1 = u1
  u2 = u2
  m1 = m1
  m2 = m2
  Key <- Uris
  Media <- Tiles
  MaxAcquires = 3
INVARIANTS
  TypeOK
  RefsMatchHolders
  TileShowsItsItem
PROPERTIES
  TexturesSettle
CHECK_DEADLOCK FALSE
