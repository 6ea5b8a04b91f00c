SPECIFICATION Spec
CONSTANTS
  RingSize = 4
  Wraps = 2
  MaxLen = 5
  MaxSent = 11
  CrossThreadFlush = FALSE
INVARIANTS
  RingInv
  WriterKeepsOffUnread
PROPERTY RefinesByteStream
CHECK_DEADLOCK FALSE
