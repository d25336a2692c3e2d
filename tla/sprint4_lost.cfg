SPECIFICATION RunSpec
CONSTANTS
  Batches = 3
  BatchEntries = 4
  NegativeTests = 3
  Awaiters = {awaiter}
  Requests <- Submissions
  Leaves <- Submissions
  BatchMax = 3
CHECK_DEADLOCK FALSE
INVARIANT FinishedResultsPersist
