SPECIFICATION LiveSpec
CONSTANTS
  Files <- MCFiles
  Contents = {1, 2}
  Absent = 0
  Ignored <- MCIgnored
  Sensitive <- MCSensitive
  Deadline = 4
  RetryDelays <- MCRetryDelays
  ProbeLimit = 2
  MaxEdits = 1
INVARIANTS
  EndsInTime
  CopyIsTree
  CleanIsCommit
PROPERTIES
  RetryIsWorthIt
  CheckoutEnds
CHECK_DEADLOCK FALSE
