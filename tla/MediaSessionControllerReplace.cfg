SPECIFICATION Safe
CONSTANTS
  MaxSessions = 2
  MaxEntries <- MCMaxEntries
  BatchSize = 2
  MaxCancelCalls = 1
INVARIANT
  NewSessionUndisturbed
CHECK_DEADLOCK FALSE
