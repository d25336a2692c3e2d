SPECIFICATION Spec
CONSTANTS
  s1 = s1
  s2 = s2
  s3 = s3
  s4 = s4
  NoKey = NoKey
  Starts <- FourStarts
  Validates = TRUE
  Exclusive = TRUE
  ReadErrors = FALSE
  ShortWrites = TRUE
INVARIANTS
  TypeOK
  KeyOnDisk
\* Every start makes one call and then leaves the file alone.
CHECK_DEADLOCK FALSE
