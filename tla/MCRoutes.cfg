SPECIFICATION Spec
CONSTANTS
  Tables <- OctetTables
  MaxRoutes = 3
  OverflowChecks = TRUE
INVARIANTS TypeOK LongestPrefixElseNicZero
