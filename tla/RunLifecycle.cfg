SPECIFICATION Spec
CONSTANTS
  Repos = {p1}
  Apps = {a1, a2}
  MaxRuns = 2
  Keep = 1
  NoRepo = NoRepo
  NoApp = NoApp
  Requests <- MCRequests
SYMMETRY Symmetry
INVARIANTS
  OneActiveRun
  ExecutingIsHeld
  FinishedRunIsClosed
  PassedMeansAllPassed
  NoticedStopNeverPasses
  CutAppKeepsSnapshot
PROPERTIES
  ActiveRunNeverDropped
  FinishedIsFinal
