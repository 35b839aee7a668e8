\* Archives of every shape through buffers a few bytes long.
SPECIFICATION Spec
CONSTANTS
  Archives <- MCArchives
  BlockSizeMax = 3
  MinCBlockSize = 1
  OverLength = 2
  MinWindow = 2
  MaxWindow = 16
  MaxOversized = 2
  MaxStalls = 2
  Counts = {1, 4}
  BeyondEnd = 2
  ReadMayFail = TRUE
  MaxBlocks = 2
INVARIANT TypeOK
INVARIANT NoByteLost
INVARIANT FlushesInOrder
INVARIANT WindowIntact
INVARIANT HashMatchesInput
INVARIANT NoEarlyEnd
INVARIANT GoodArchiveDecodes
PROPERTY CallReturns
\* The extractor stops when it has the last entry.
CHECK_DEADLOCK FALSE
