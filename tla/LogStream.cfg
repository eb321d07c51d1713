SPECIFICATION LiveSpec
CONSTANTS
  TailSize = 2
  EventSize = 2
  PageSize = 3
  MaxPieces = 4
  MaxCleanup = 1
  MaxDrops = 1
INVARIANTS
  NoSilentGap
  ShowsTheEnd
PROPERTIES
  StreamEnds
CHECK_DEADLOCK FALSE
