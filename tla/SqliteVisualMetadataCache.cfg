SPECIFICATION FairSpec
CONSTANTS
  s1 = s1
  s2 = s2
  a = a
  b = b
  Scan <- MCScan
  Locator <- MCLocator
  Version <- MCVersion
  PrintOf <- MCPrintOf
  NoTime = NoTime
  Parser = {1, 2}
  MaxEntries = 1
  QueueCapacity = 1
  BatchSize = 2
  MaxLaunches = 2
  MaxReads = 3
INVARIANTS
  TypeOK
  AnswerIsCurrent
  OrderNamesEntries
  AcceptedIsKept
PROPERTY
  DropEnds
CHECK_DEADLOCK FALSE
