SPECIFICATION Spec
CONSTANTS
  s1 = s1
  s2 = s2
  s3 = s3
  s4 = s4
  NoKey = NoKey
  Starts <- TwoStarts
  Validates = TRUE
  Exclusive = TRUE
  ReadErrors = TRUE
  ShortWrites = FALSE
INVARIANTS
  StableKey
\* Every start makes one call and then leaves the file alone.
CHECK_DEADLOCK FALSE
