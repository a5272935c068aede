CONSTANTS
  Checkouts <- MCCheckouts
  Keys = {"category", "maintainer"}
  Category = "category"
  Cores = 2
  BatchSize = 2
  MaxRuns = 2
SPECIFICATION Spec
INVARIANTS
  EveryNetworkOnce
  CallsAreBalanced
PROPERTIES
  OnlyWholeCheckouts
  CallsEnd
CHECK_DEADLOCK FALSE
