\* Two nodes on a link that lose messages, restart and flap, with and without compatible subnets;
\* two interfaces with addresses of one subnet; two links to one neighbour, in two areas.
CONSTANTS
  SparkNodes = {1, 2}
  Starting = {2}
  Restarting = {1, 2}
  Reliable = FALSE
  Policies <- MCPolicies
  MaxInFlight = 1
  MaxRestarts = 1
  MaxFlaps = 1
  MaxTroubles = 1
  Ifs = {"e1", "e2"}
  Addrs = {"a1", "a2", "ll"}
  Subnet <- MCSubnet
  NoSubnet = "none"
  DiscoverIfs = {"e1", "e2"}
  RedistAreas <- MCRedist
  Homes <- MCHomes
  UpAtStart = {"e1", "e2"}
  IfScenes <- MCIfScenes
  InitBackoff = 2
  MaxBackoff = 3
  LinkThrottle = 1
  DiscoveryTimeout = 2
  MaxLost = 1
  MaxSyncs = 1
  DrAreas = {1, 2}
  DrIfs = {"e1", "e2"}
  DrAdjs <- MCAdjs
  DrMetrics = {1, 2}
  DrIncrements = {2}
  DrScenes <- MCDrScenes
  NoDb = NoDb
  NoState = NoState
  MaxCommands = 2
SPECIFICATION NeighborsSpec
INVARIANTS
  SparkInvariant
  InterfacesInvariant
  DrainInvariant
PROPERTIES
  FlapsAreDamped
  DrainSurvivesRestart
CHECK_DEADLOCK FALSE
