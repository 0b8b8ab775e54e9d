SPECIFICATION LineSpec
CONSTANTS
  bufferSize = 12
  HeadGap = 3
  LowGap = 6
  PieceSizes = {1, 3, 5}
INVARIANTS
  WritesInBounds
  BlocksAreWholeLines
