SPECIFICATION Spec
CONSTANTS
  a = a
  b = b
  Leaves <- TwoLeaves
  Awaiters = {awaiter}
  Requests <- ThreeAdds
  BatchMax = 2
  MaxSize = 2
  MaxInvocations = 2
  MaxFresh = 1
  Garbled = Garbled
SYMMETRY Symmetry
CHECK_DEADLOCK FALSE
INVARIANTS
  TypeOK
  PrintedIsTrue
  ZeroMeansVerified
  AcceptedHeadsAreOneLog
  TrueClaimsPass
