SPECIFICATION HalfSpec
CONSTANTS
  Bits = 6
  HalfBits = 3
  Top = 20
  HalfTop = 7
  Bias = 9
  HalfBias = 3
  Inputs <- MCInputs
INVARIANTS NearestHalf RoundedOnce
CHECK_DEADLOCK FALSE
