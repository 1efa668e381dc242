SPECIFICATION Spec
CONSTANTS
  p = 61
  d = 40
  CoeffA = 10
  RootM1 = 11
  L = 7
  B <- SmallB
  TopBit = 64
  ScalarBit = 8
  Messages = {1, 2}
INVARIANTS
  AdditionLaw
  EncodingRoundTrip
  MultiplesOfPoints
  LadderIsMultiple
  SignaturesVerify
  VerifyIsEquation
  LimbsWithinBounds
