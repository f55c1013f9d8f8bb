SPECIFICATION MCSpec
CONSTANTS
  DcMe = "me"
  DcPeers = {"x"}
  DcPrefixes = {"p", "s"}
  DcConfigs <- MCConfigs
  MaxDcRestarts = 1
  LsNodes = {"a", "b", "c"}
  LsMe = "a"
  Cables = {"p", "q", "r", "s"}
  CableEnds <- MCEnds
  AdjacencyValues <- MCAdj
  NodeValues <- MCNodeValues
  RsMe = "me"
  RsNodeAreas <- MCNodeAreas
  RsEntries <- MCEntries
  RsDistance <- MCDistance
  RsHops <- MCHops
  RsPolicies <- MCPolicies
INVARIANTS
  
  DecisionInvariant
  
  
CHECK_DEADLOCK FALSE
