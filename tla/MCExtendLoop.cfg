SPECIFICATION ExtendSpec
CONSTANTS
  Chunk = 2
  Metadata <- MCMetadata
  CacheSlots = 5
INVARIANTS ExtendTypeOK RowsConsecutive PlanFollowed
PROPERTIES CallsBounded
CHECK_DEADLOCK FALSE
