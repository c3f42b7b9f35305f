SPECIFICATION Spec
CONSTANTS
  ItemCount = 2
  KindOf <- MCKindOf
  RankOf <- MCRankOf
  KindSet <- MCKindSet
  MaxSessions = 2
  MaxPicks = 2
  MaxDetails = 2
INVARIANTS
  TypeOK
  PreviewIsCurrent
PROPERTIES
  ChoiceStays
  LoadingEnds
CHECK_DEADLOCK FALSE
