CONSTANTS
  Characters <- MCCharacters
  Capacities <- MCRoomy
  Heading <- MCHeading
  Legend <- MCLegend
  Notice <- MCNotice
  Nothing <- MCNothing
  Tables <- MCTables
SPECIFICATION Spec
INVARIANT TruncatedTableSaysSo
