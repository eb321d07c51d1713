SPECIFICATION LiveSpec
CONSTANTS
  Repos = {p1, p2}
  Apps = {a1}
  MaxRuns = 2
  Keep = 1
  NoRepo = NoRepo
  NoApp = NoApp
  Requests <- MCRequests
PROPERTIES
  ImplementsQueue
  EveryRunEnds
