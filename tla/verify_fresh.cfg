SPECIFICATION Spec
CONSTANTS
  a = a
  b = b
  Leaves <- TwoLeaves
  Awaiters = {awaiter}
  Requests <- TwoAdds
  BatchMax = 2
  MaxSize = 1
  MaxInvocations = 1
  MaxFresh = 1
  Garbled = Garbled
SYMMETRY Symmetry
CHECK_DEADLOCK FALSE
INVARIANTS
  TilesAreImmutable
