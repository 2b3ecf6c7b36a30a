SPECIFICATION CodecSpec
CONSTANTS
  GroupSize = 2
  Groups <- MCGroups
INVARIANTS Rounded ScaleFits DecodersAccept
