\* A machine that may run the load of writeIndex before that of the use count.
CONSTANTS
  Writers = {w1}
  Sites = {s1}
  NoWriter = NoWriter
  MaxEvents = 1
  MaxChannels = 1
  MaxRenames = 0
  MaxClocks = 0
  MaxRotations = 0
  MaxFailures = 0
  QueueEvents = 1
  LoadsInOrder = FALSE
  RenameAnytime = FALSE
SPECIFICATION Spec
INVARIANTS
  NoEventLost
