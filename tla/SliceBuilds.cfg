SPECIFICATION LiveSpec
CONSTANTS
  Repos = {p1, p2}
  NoRepo = NoRepo
  MaxBuilds = 3
  KeepBuilds = 1
INVARIANTS
  PassedBuildIsStored
PROPERTIES
  NewestSlicesWin
  EveryBuildEnds
