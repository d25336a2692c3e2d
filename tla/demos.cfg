SPECIFICATION FairDemoSpec
CONSTANTS
  c1 = c1
  Other = Other
  Tampered = Tampered
  NoLeaf = NoLeaf
  Clients <- OneClient
  Awaiters = {"server", "own"}
  Requests <- DemoCalls
  Leaves <- DemoLeafSet
  Ops = {"submit", "prove", "sth", "consistency"}
  FarIndex = 2
  BatchMax = 2
  MaxSize = 4
  MaxRestarts = 1
\* A program ends; the earlier server may serve all its clients and then idle.
CHECK_DEADLOCK FALSE
INVARIANTS
  DemoTypeOK
  FalseAlarms
  BatchCheckpoints
  ClosedToNobody
  ConsistencyIsChecked
PROPERTIES
  DemoEnds
