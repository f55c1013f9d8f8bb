\* Two stores that write the same key, a failed call and a peer that comes and goes; two
\* connections that are paused while requests of theirs are merged and the server stops;
\* flooding trees on a pair, a line and two triangles whose links fail.
CONSTANTS
  k1 = k1
  k2 = k2
  Nodes = {1, 2}
  Keys = {k1}
  Writes <- ConflictingWrites
  Links = {{1, 2}}
  MaxSyncLimit = 2
  MaxTtlVersion = 1
  MaxFailures = 1
  MaxPeerEvents = 1
  MaxTroubles = 1
  c1 = c1
  c2 = c2
  p1 = p1
  p2 = p2
  Connections = {c1, c2}
  IngressPeers = {p1, p2}
  NoPeer = NoPeer
  Worker = Worker
  KvStoreThread = KvStoreThread
  MainThread = MainThread
  IngressScenes <- MCIngressScenes
  DualNodes = {1, 2, 3}
  NoHop = 0
  DualScenes <- MCDualScenes
SPECIFICATION PeeringSpec
INVARIANTS
  NothingLost
  NoStrandedPeer
  IngressInvariant
  NobodyLeftPaused
  
  DualSettles
PROPERTIES
  StoresOnlyAdvance
CHECK_DEADLOCK FALSE
