SPECIFICATION Spec
CONSTANTS
  r1 = r1
  r2 = r2
  r3 = r3
  x = x
  y = y
  NoLeaf = NoLeaf
  Awaiters = {awaiter}
  Requests <- ThreeRequests
  Leaves <- TwoLeaves
  Ops = {"submit", "prove", "sth", "consistency"}
  BatchMax = 2
  MaxSize = 2
  MaxRestarts = 1
SYMMETRY Symmetry
INVARIANTS
  TypeOK
  ReceiptSound
  NoDuplicateSequencing
  NoRegression
  ProofsVerify
  ConsistencyToHeadVerifies
\* Every client sends one request and then stops.
CHECK_DEADLOCK FALSE
PROPERTY KeepsPromise
