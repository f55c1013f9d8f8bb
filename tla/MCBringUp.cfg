\* Three stores in a line and a key that is updated; parallel links and two areas, where
\* neighbours come, restart and, after discovery, go.
CONSTANTS
  k1 = k1
  k2 = k2
  Nodes = {1, 2, 3}
  Keys = {k1}
  Writes <- UpdateWrites
  Links = {{1, 2}, {2, 3}}
  MaxSyncLimit = 4
  MaxTtlVersion = 0
  MaxFailures = 1
  MaxPeerEvents = 0
  MaxTroubles = 1
  a1 = a1
  a2 = a2
  n1 = n1
  n2 = n2
  i1 = i1
  i2 = i2
  Areas = {a1, a2}
  Neighbors = {n1, n2}
  Adjacencies <- ParallelLinks
  NoAdjacency = NoAdjacency
  EarlyDowns = FALSE
  MaxUps = 4
  MaxDowns = 2
  SyncTimeouts = {TRUE, FALSE}
  MaxPeerFailures = 1
SPECIFICATION BringUpSpec
INVARIANTS
  PeersFollowAdjacencies
  KvStoreFollowsLinkMonitor
  SyncedWithInitialPeers
PROPERTIES
  StoresAgree
  StartCompletes
CHECK_DEADLOCK FALSE
