CONSTANTS
  Null = Null
  Metrics = {"lines", "functions", "branches", "statements"}
  DetailLimit = 2
  MaxTestCases = 3
  Multiplier = 3
  FloorLimit = 5
  DefaultLimit = 8
  History = 2
  Root <- MCRoot
  Directory <- MCDirectory
  Manifests <- MCManifests
  ConfiguredApps <- MCConfigured
  Histories <- MCHistories
  Times = {1, 8}
  Places <- MCPlaces
  Stale <- MCStale
  Records <- MCRecords
  LcovLines <- MCLines
  Suites <- MCSuites
  MaxLines = 3
  MaxSuites = 2
SPECIFICATION Spec
CHECK_DEADLOCK FALSE
INVARIANTS FreshReports ReportAddsUp
