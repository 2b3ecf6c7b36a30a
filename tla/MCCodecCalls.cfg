SPECIFICATION CallSpec
CONSTANTS
  Dimensions = {2, 4, 8}
  GroupSize = 2
  GroupBytes = 3
  FloatMax = 20
  Calls <- MCCalls
INVARIANTS AllOrNothing Transforms NoOverflow
PROPERTY ReturnsFirstFault
CHECK_DEADLOCK FALSE
