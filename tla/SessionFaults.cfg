\* One writer; one of everything that can disturb the outputs: a call of setName
\* and of setClockSync, a new output, a write that throws.  A write that throws
\* may lead to a crash, where the program stops.
CONSTANTS
  Writers = {w1}
  Sites = {s1}
  NoWriter = NoWriter
  MaxEvents = 3
  MaxChannels = 2
  MaxRenames = 1
  MaxClocks = 1
  MaxRotations = 1
  MaxFailures = 1
  QueueEvents = 2
  LoadsInOrder = TRUE
  RenameAnytime = FALSE
SPECIFICATION Spec
CHECK_DEADLOCK FALSE
INVARIANTS
  TypeOK
  SourcePrecedesEvent
  NoEventLost
  EventsInOrder
  CurrentClock
  NewEventsCarryName
  NoRemovedChannelPolledUnlessThrown
