SPECIFICATION Spec
CONSTANTS
  ItemCount = 5
  KindOf <- MCKindOf
  RankOf <- MCRankOf
  KindSet <- MCKindSet
  WidthOf <- MCWidthOf
  HeightOf <- MCHeightOf
  Gap = 1000
  MinColumnWidth = 10000
  MaxColumns = 3
  TargetRowHeight = 10000
  WorldWidth = 20000
  ItemHeight = 10000
  MinItemWidth = 2500
  Width = {2000, 24000, 40000}
  MaxSessions = 2
  MaxRevision = 3
INVARIANTS
  LaidOutAsViewed
  TilesInPlace
  WindowFindsTiles
PROPERTY
  TilesStay
CHECK_DEADLOCK FALSE
