SPECIFICATION LedgerSpec
CONSTANTS
  Cap = 2
  IndexWord = 4
  RingBytes = 3
  MaxSize = 2
  MaxRead = 2
  FlushInEnqueue = TRUE
INVARIANTS
  LedgerInv
PROPERTY ConsumeReturns
