\* A neighbour goes while its full-sync is pending.
CONSTANTS
  a1 = a1
  a2 = a2
  n1 = n1
  n2 = n2
  i1 = i1
  i2 = i2
  Areas = {a1}
  Neighbors = {n1, n2}
  Adjacencies <- TwoNeighbors
  NoAdjacency = NoAdjacency
  EarlyDowns = FALSE
  MaxUps = 2
  MaxDowns = 1
  SyncTimeouts = {FALSE}
  MaxPeerFailures = 0
SPECIFICATION StartFairSpec
PROPERTIES
  EventuallySynced
CHECK_DEADLOCK FALSE
