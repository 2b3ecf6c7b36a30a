SPECIFICATION CpuSpec
CONSTANTS
  SlotCount = 3
  KVHeads = 2
  QueryHeads = 4
  a = a
  b = b
  Tokens = {a, b}
  Bad = Bad
  Zero = Zero
  WriteCalls <- MCWrites
  ReadCalls <- MCReads
INVARIANT OracleVerdict
PROPERTY OracleEffect
