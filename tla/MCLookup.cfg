\* A lookup ends, and an image may be refused.
CHECK_DEADLOCK FALSE
CONSTANTS
  None = None
  USize = 256
  Span = 9
  Images <- MCImages
  Tables <- MCTables
  Needles <- MCNeedles
  Catalogs <- MCCatalogs
  Queries <- MCQueries
SPECIFICATION LookupSpec
INVARIANTS OpensExactlyTheWellFormed ReadsStayInBounds FindsExactlyTheRow FindPrefersTheExactName
PROPERTIES Answered
