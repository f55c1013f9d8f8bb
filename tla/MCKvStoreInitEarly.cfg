\* A neighbour comes and goes before discovery ends.
CONSTANTS
  a1 = a1
  a2 = a2
  n1 = n1
  n2 = n2
  i1 = i1
  i2 = i2
  Areas = {a1}
  Neighbors = {n1, n2}
  Adjacencies <- TwoNeighbors
  NoAdjacency = NoAdjacency
  EarlyDowns = TRUE
  MaxUps = 2
  MaxDowns = 1
  SyncTimeouts = {FALSE}
  MaxPeerFailures = 0
SPECIFICATION StartSpec
INVARIANTS
  SyncedAfterDiscovery
CHECK_DEADLOCK FALSE
