SPECIFICATION BootSpec
CONSTANTS
  Images <- MCImages
  Symbols <- MCSymbols
  Imports <- MCImports
  Base = 8
  HeapSize = 24
  Page = 4
  PAlign = 4
  Word = 128
  Ptr = 1024
  BlRange = 8
  CondRange = 8
  Window = 2
  Codes <- MCCodes
  Displacements <- MCDisplacements
  Plts = {0, 3}
INVARIANT CallsAccounted
CHECK_DEADLOCK FALSE
