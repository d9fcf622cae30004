\* Logs turned into text by bread.
SPECIFICATION MCSpec
CONSTANTS
  Structs <- MCStructs
  Enums <- MCEnums
  Types <- MCTypes
  Values <- MCValues
  Depth = 14
  Entries <- MCEntries
  Following <- MCFollowing
  Den = 10
  Word = 32768
  RepeatLimit = 3
  MaxRecursion = 8
  Jobs <- MCJobs
  BufSize = 7
  NumRoom = 5
  Clocks <- MCClocks
  Ticking <- MCTicking
  Ids = {0, 1, 2, 3, 4}
  Sources = {1, 2}
  NoSource = 0
INVARIANTS
  MessageText
  RoundTrip
  OutputComplete
  SortedIsPermutation
  ClockExact
  TableIsPlain
CHECK_DEADLOCK FALSE
