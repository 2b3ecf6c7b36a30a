SPECIFICATION RangeSpec
CONSTANTS
  IntMax = 63
  Threads = 4
  HeadDims = {4, 5}
  Shapes <- MCShapes
INVARIANTS RangeExact GridCovers ObjectWritesFit
CHECK_DEADLOCK FALSE
