CONSTANTS
  Characters <- MCCharacters
  Capacities <- MCCapacities
  Heading <- MCHeading
  Legend <- MCLegend
  Notice <- MCNotice
  Nothing <- MCNothing
  Tables <- MCTables
SPECIFICATION Spec
INVARIANTS OverflowedIffSomethingIsMissing CutOnlyWhenFull CleanUpToTheCut
PROPERTIES AnswersAreWhole
