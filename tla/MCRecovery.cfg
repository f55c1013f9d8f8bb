\* Two stores that keep giving each other a key two originators contest and may abandon;
\* a node's own key, all kinds of requests for it, and the flood rate limiter; two
\* neighbours and every pair of beliefs they may have of each other.
CONSTANTS
  Nodes = {1, 2}
  Originators = {3, 4}
  OriginatorPeers = {1}
  Keys = {k1}
  KeyTtl = 3
  TtlDecr = 1
  RefreshedTogether = {{k1}}
  TtlThreshold = 1
  MaxVersion = 2
  MaxMsgs = 1
  MaxTtlVersion = 1
  o1 = o1
  o2 = o2
  OwnKeys = {o1}
  Me = 1
  Other = 2
  Values = {1, 2}
  Marker = 3
  RemoteEntries <- Conflicts
  Requests = {"persist", "set", "unset", "erase"}
  FloodLimited = TRUE
  MaxRequests = 3
  MaxRemote = 2
  MaxOwnTtlVersion = 1
  SparkNodes = {1, 2}
  Starting = {}
  Restarting = {}
  Reliable = TRUE
  Policies <- MCCompatible
  MaxInFlight = 2
  MaxRestarts = 1
  MaxFlaps = 0
  MaxTroubles = 1
SPECIFICATION RecoverySpec
INVARIANTS
  EveryKeyIsCountedDown
  SelfInvariant
PROPERTIES
  NeverExpiresEarly
  AbandonedKeysDieOut
  PersistedWins
  NeighborsConverge
CHECK_DEADLOCK FALSE
