\* The end of the frame lies in a buffer that nobody reads.
SPECIFICATION Spec
CONSTANTS
  Archives <- MCArchives
  BlockSizeMax = 3
  MinCBlockSize = 1
  OverLength = 2
  MinWindow = 2
  MaxWindow = 16
  MaxOversized = 2
  MaxStalls = 2
  Counts = {1, 4}
  BeyondEnd = 0
  ReadMayFail = FALSE
  MaxBlocks = 2
INVARIANT WholeArchiveHashed
\* The extractor stops when it has the last entry.
CHECK_DEADLOCK FALSE
