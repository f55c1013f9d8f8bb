CONSTANTS
  k1 = k1
  k2 = k2
  Nodes = {1, 2}
  Keys = {k1, k2}
  Writes <- TwoKeyWrites
  Links = {{1, 2}}
  MaxSyncLimit = 4
  MaxTtlVersion = 1
  MaxFailures = 0
  MaxPeerEvents = 0
  MaxTroubles = 0
SPECIFICATION Spec
INVARIANTS
  SubscribersSeeTheStore
