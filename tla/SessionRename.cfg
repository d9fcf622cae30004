\* setName by another thread than the one that logs.
CONSTANTS
  Writers = {w1}
  Sites = {s1}
  NoWriter = NoWriter
  MaxEvents = 2
  MaxChannels = 2
  MaxRenames = 2
  MaxClocks = 0
  MaxRotations = 0
  MaxFailures = 0
  QueueEvents = 2
  LoadsInOrder = TRUE
  RenameAnytime = TRUE
SPECIFICATION Spec
INVARIANTS
  NewEventsCarryName
