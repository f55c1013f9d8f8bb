\* Two keys are persisted; one is contested; the rate limiter is configured.
CONSTANTS
  o1 = o1
  o2 = o2
  OwnKeys = {o1, o2}
  Me = 1
  Other = 2
  Values = {1}
  Marker = 3
  RemoteEntries <- OneConflict
  Requests = {"persist"}
  FloodLimited = TRUE
  MaxRequests = 2
  MaxRemote = 1
  MaxOwnTtlVersion = 0
SPECIFICATION SelfFairSpec
PROPERTIES
  PersistedWins
CHECK_DEADLOCK FALSE
