SPECIFICATION CacheSpec
CONSTANTS
  SlotCount = 3
  KVHeads = 2
  QueryHeads = 2
  a = a
  b = b
  Tokens = {a, b}
  Bad = Bad
  Zero = Zero
  WriteCalls <- MCWrites
  ReadCalls <- MCReads
  MoveCalls <- MCMoves
  DropCalls <- MCDrops
  MaxCalls = 2
INVARIANTS ReadableRowsWhole EvidenceBacked
PROPERTIES ImplementsStore
CHECK_DEADLOCK FALSE
