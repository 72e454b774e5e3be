SPECIFICATION Spec
CONSTANTS
  Tables <- HostTables
  MaxRoutes = 10
  OverflowChecks = FALSE
INVARIANTS AcceptedRouteMatchesPrefix
