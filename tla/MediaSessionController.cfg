SPECIFICATION Spec
CONSTANTS
  MaxSessions = 2
  MaxEntries <- MCMaxEntries
  BatchSize = 2
  MaxCancelCalls = 1
INVARIANTS
  TypeOK
  CompleteAtTerminal
  SupersededScanStops
PROPERTY
  CurrentScanEnds
CHECK_DEADLOCK FALSE
