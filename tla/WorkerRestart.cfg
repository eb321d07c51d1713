SPECIFICATION LiveSpec
CONSTANTS
  HoldsRestarts = TRUE
  Broken <- MCBroken
  MaxVersion = 4
  MaxWork = 1
  MaxFaults = 1
  MaxDecisions = 1
INVARIANTS
  HeldRestartIsShown
PROPERTIES
  HeldWorkIsNotCut
  LatestRunsOrIsHeld
CHECK_DEADLOCK FALSE
