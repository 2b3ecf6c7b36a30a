SPECIFICATION PrefixSpec
CONSTANTS
  StartLayer = 3
  Layers = 2
  SlotCount = 4
  Calls <- MCCalls
  NoOverride = NoOverride
  Unwritten = Unwritten
  Torn = Torn
INVARIANTS CommittedOnly JudgedByCommitted
PROPERTY PrefixExact
