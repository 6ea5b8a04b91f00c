SPECIFICATION Spec
CONSTANTS
  OutRate = 6
  Samples = 3
  One = 64
  SoftIn = 3
  SoftOut = 3
  RingSize = 12
  Rates = {3, 4, 6, 8}
  Devices = {3, 4}
  Sizes = {3, 8}
  MaxStream = 16
INVARIANTS
  AccountFollowsRing
  MixedInv
  FadesBeforeSilence
PROPERTIES
  HeardInOrder
  NoDips
  Drains
CHECK_DEADLOCK FALSE
