SPECIFICATION LiveSpec
CONSTANTS
  Steps <- MCSteps
  Deadline = 6
  Idle = 2
  AppLimit = 3
  Grace = 1
  MaxLag = 1
  MaxFaults = 1
INVARIANTS
  RunnerIsUsable
  OneCommandAtATime
  CutCommandIsGone
  OverrunIsBounded
  TimeoutIsEarned
PROPERTIES
  SilenceIsCut
  RunEnds
CHECK_DEADLOCK FALSE
