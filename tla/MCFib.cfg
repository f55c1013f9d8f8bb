\* The agent fails and restarts; deletions may be delayed.
CONSTANTS
  NoRoute = NoRoute
  Prefixes = {p1, p2}
  Routes = {r1, r2}
  OldRoutes = {r1}
  DeleteDelays = {TRUE, FALSE}
  RestartAnyTime = FALSE
  MaxUpdates = 2
  MaxFailures = 1
  MaxRestarts = 1
SPECIFICATION FairSpec
INVARIANTS
  ProgrammedOrDirty
  NoLostWakeup
PROPERTIES
  PublishedWasConfirmed
  EventuallyProgrammed
CHECK_DEADLOCK FALSE
