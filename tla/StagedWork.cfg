SPECIFICATION Spec
CONSTANTS
  Files <- MCFiles
  Contents = {1, 2}
  Absent = 0
  Ignored <- MCIgnored
  Sensitive <- MCSensitive
  Deadline = 4
  RetryDelays <- MCRetryDelays
  ProbeLimit = 2
  MaxEdits = 1
INVARIANT
  UncommittedWorkIsIncluded
CHECK_DEADLOCK FALSE
