SPECIFICATION Spec
CONSTANTS
  Severities = 2
  Rows = 1
  PageSize = 2
  Word = 16
  CommandLines <- MCCommandLines
  MaxOther = 3
  MaxEntries = 4
  MaxRestarts = 0
  MaxKeys = 0
INVARIANT CompleteEntriesTailed
CHECK_DEADLOCK FALSE
