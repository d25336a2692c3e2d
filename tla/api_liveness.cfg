SPECIFICATION FairSpec
CONSTANTS
  r1 = r1
  r2 = r2
  r3 = r3
  x = x
  y = y
  NoLeaf = NoLeaf
  Awaiters = {awaiter}
  Requests <- TwoRequests
  Leaves <- OneLeaf
  Ops = {"submit", "prove", "sth", "consistency"}
  BatchMax = 2
  MaxSize = 2
  MaxRestarts = 2
PROPERTIES
  EveryRequestEnds
  EntriesPublished
\* Every client sends one request and then stops.
CHECK_DEADLOCK FALSE
