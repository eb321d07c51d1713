CONSTANTS
  Null = Null
  Metrics = {"lines", "branches"}
  DetailLimit = 2
  MaxTestCases = 3
  MetricOrder <- MCOrder
  Apps = {1, 2}
  DirOf <- MCDirs
  Reports <- MCReports
  SliceNames = {1, 2}
  Shapes <- MCShapes
  MaxRuns = 3
  MaxBuilds = 1
SPECIFICATION Spec
CHECK_DEADLOCK FALSE
INVARIANTS TrendsAgree MoversHold
PROPERTIES PointIsCurrent SeedsFillGaps
