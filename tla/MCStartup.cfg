SPECIFICATION StartSpec
CONSTANTS
  Blocked = {speculative}
  Faults = {hybrid}
  Modes = {"decode", "extend", "idle", "verify"}
  Launches <- MCLaunches
  HeadDims = {64, 128, 256}
  IntMax = 4352
  AddressMax = 100000
  MaxChanges = 2
INVARIANTS NoFallback BytesAccounted
PROPERTY DisabledStarts
CHECK_DEADLOCK FALSE
