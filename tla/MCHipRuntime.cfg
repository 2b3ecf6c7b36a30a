SPECIFICATION HipSpec
CONSTANTS
  SlotCount = 2
  KVHeads = 2
  QueryHeads = 4
  a = a
  b = b
  Tokens = {a, b}
  Bad = Bad
  Zero = Zero
  WriteCalls <- MCWrites
  ReadCalls <- MCReads
INVARIANTS HipTypeOK VerdictExact WriteLands ReadExact
PROPERTIES NoStoreBeforeVerdict CallReturns
