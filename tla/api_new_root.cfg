SPECIFICATION Spec
CONSTANTS
  r1 = r1
  r2 = r2
  r3 = r3
  x = x
  y = y
  NoLeaf = NoLeaf
  Awaiters = {awaiter}
  Requests <- ThreeRequests
  Leaves <- OneLeaf
  Ops = {"submit", "consistency"}
  BatchMax = 3
  MaxSize = 2
  MaxRestarts = 0
SYMMETRY Symmetry
INVARIANTS
  NewRootIsRootAtTo
\* Every client sends one request and then stops.
CHECK_DEADLOCK FALSE
