SPECIFICATION Spec
CONSTANTS
  Sessions = {1, 2}
  Queues <- MCQueues
  MaxSources = 2
  MaxClocks = 1
  MaxEvents = 2
  MaxGrowths = 1
  MaxClosed = 1
INVARIANTS
  TypeOK
  NothingLost
  OnlyCopiedTwice
  RecoveredEventsOwnSource
  RecoveredClocksLatest
CHECK_DEADLOCK FALSE
