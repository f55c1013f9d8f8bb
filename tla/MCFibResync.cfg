\* Decision updates a route while Fib syncs with a restarted agent.
CONSTANTS
  NoRoute = NoRoute
  Prefixes = {p1}
  Routes = {r1}
  OldRoutes = {r1}
  DeleteDelays = {TRUE, FALSE}
  RestartAnyTime = FALSE
  MaxUpdates = 2
  MaxFailures = 1
  MaxRestarts = 1
SPECIFICATION Spec
INVARIANTS
  PublishedIsProgrammed
CHECK_DEADLOCK FALSE
