CONSTANTS
  Null = Null
  All = All
  Unset = Unset
  MaxPrefix = 3
  MaxNesting = 2
  TypeNames <- MCTypeNames
  Checkouts <- MCCheckouts
  ParsedAdapter <- MCParsedAdapter
  StoreRequests <- MCStoreRequests
  Recipe <- MCRecipe
SPECIFICATION AnalysisSpec
CHECK_DEADLOCK FALSE
INVARIANTS SliceIsClosed NothingIsLost OneBackend
