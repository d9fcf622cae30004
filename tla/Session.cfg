\* Two threads that meet at one call site and at the mutex; one of them can
\* have its channel replaced once.
CONSTANTS
  Writers = {w1, w2}
  Sites = {s1}
  NoWriter = NoWriter
  MaxEvents = 2
  MaxChannels = 3
  MaxRenames = 0
  MaxClocks = 0
  MaxRotations = 0
  MaxFailures = 0
  QueueEvents = 2
  LoadsInOrder = TRUE
  RenameAnytime = FALSE
SPECIFICATION Spec
SYMMETRY WriterSymmetry
INVARIANTS
  SourcePrecedesEvent
  NoEventLost
