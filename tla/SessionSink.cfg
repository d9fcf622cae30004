\* out.write throws once.
CONSTANTS
  Writers = {w1}
  Sites = {s1}
  NoWriter = NoWriter
  MaxEvents = 1
  MaxChannels = 2
  MaxRenames = 0
  MaxClocks = 0
  MaxRotations = 0
  MaxFailures = 1
  QueueEvents = 1
  LoadsInOrder = TRUE
  RenameAnytime = FALSE
SPECIFICATION Spec
INVARIANTS
  NoRemovedChannelPolled
