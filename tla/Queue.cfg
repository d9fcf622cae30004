\* 5 bytes of buffer (odd, so that the two sides of a split differ); 12 bytes
\* written, which wrap around the end more than twice.
CONSTANTS
  Capacity = 5
  MaxBytes = 12
SPECIFICATION LiveSpec
INVARIANTS
  TypeOK
  ViewIntact
  NoRacyByte
  NoRacyDataEnd
  EmptyMeansDrained
  UnreadSizeIsExact
  DumpHoldsTheUnread
PROPERTIES
  ImplementsFifo
  HalfIsEventuallyGranted
