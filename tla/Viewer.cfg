SPECIFICATION Spec
CONSTANTS
  Severities = 2
  Rows = 1
  PageSize = 2
  Word = 16
  CommandLines <- MCCommandLines
  MaxOther = 3
  MaxEntries = 4
  MaxRestarts = 1
  MaxKeys = 2
INVARIANTS
  TypeOK
  RecordsAreFile
  RecordsOwnSource
  RowsCurrent
  FilteredStream
PROPERTIES
  SelectionDrawn
  ScrollsFromLast
  TailCatchesUp
  TailStops
CHECK_DEADLOCK FALSE
