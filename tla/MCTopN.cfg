CONSTANTS
  w1 = w1
  w2 = w2
  w3 = w3
  w4 = w4
  None = None
  N = 3
  Names <- MCNames
  Weights <- MCWeights
  Entries <- MCEntries
  Filters <- MCFilters
SPECIFICATION Spec
INVARIANTS Sorted NoRepackages NothingBetterLost
PROPERTIES ImplementsLeaderboard Termination
CHECK_DEADLOCK FALSE
