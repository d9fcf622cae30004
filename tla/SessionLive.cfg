\* One writer that goes through up to three channels.
CONSTANTS
  Writers = {w1}
  Sites = {s1}
  NoWriter = NoWriter
  MaxEvents = 3
  MaxChannels = 3
  MaxRenames = 0
  MaxClocks = 0
  MaxRotations = 0
  MaxFailures = 0
  QueueEvents = 2
  LoadsInOrder = TRUE
  RenameAnytime = FALSE
SPECIFICATION LiveSpec
PROPERTIES
  EventuallyConsumed
  ClosedChannelsRemoved
