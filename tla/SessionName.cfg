\* setName by the thread that logs.
CONSTANTS
  Writers = {w1}
  Sites = {s1}
  NoWriter = NoWriter
  MaxEvents = 2
  MaxChannels = 2
  MaxRenames = 2
  MaxClocks = 0
  MaxRotations = 0
  MaxFailures = 0
  QueueEvents = 2
  LoadsInOrder = TRUE
  RenameAnytime = FALSE
SPECIFICATION Spec
INVARIANTS
  NameTakesEffect
