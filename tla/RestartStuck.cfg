SPECIFICATION LiveSpec
CONSTANTS
  HoldsRestarts = TRUE
  Broken <- MCBroken
  MaxVersion = 4
  MaxWork = 1
  MaxFaults = 0
  MaxDecisions = 1
PROPERTY LatestRuns
CHECK_DEADLOCK FALSE
