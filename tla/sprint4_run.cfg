SPECIFICATION FairRunSpec
CONSTANTS
  Batches = 3
  BatchEntries = 4
  NegativeTests = 3
  Awaiters = {awaiter}
  Requests <- Submissions
  Leaves <- Submissions
  BatchMax = 3
CHECK_DEADLOCK FALSE
INVARIANTS
  RunTypeOK
  LogIndexIsSubmissionIndex
  SnapshotsEndBatches
  OnlyUnreadFails
  ZeroMeansAllPassed
  TableAgreesWithExit
  FilesOfOneRun
PROPERTIES
  RunEnds
