\* The small instance of each part.
CONSTANTS
  PmPrefixes = {"b", "c", "r"}
  PmAreas = {1, 2}
  PmOriginated <- MCOriginated
  PmCovers <- MCCovers
  PmScenes <- MCScenes
  StoreNames = {k1, k2}
  StoredValues = {v1, v2}
  kDbFlushRatio = 2
  MaxStoreChanges = 4
  MaxStops = 2
  StoreScenes <- MCStoreScenes
  k1 = k1
  k2 = k2
  q1 = q1
  q2 = q2
  FloodKeys = {k1, k2}
  FloodPeers = {q1, q2}
  NoSender = NoSender
  FloodScenes <- MCFloodScenes
  Stores = {s1, s2}
  Writable <- MCWritable
  MaxWrites = 3
  MaxVersion = 2
  Originators = {1, 2}
  Values = {1, 2}
  MaxTtlVersion = 1
  Keys = {"p", "q"}
  Routes = {"r1", "r2"}
  PrefixTypes = {"CONFIG"}
  Offers <- MCOffers
  Readers = {"fifo", "coalescing", "snoop"}
  Snapshots <- MCSnapshots
  NoUpdate = NoUpdate
  MaxPublished = 4
  StoreKeys = {"k", "l"}
  AreaKeys <- MCAreaKeys
  RequestKeys = {"x", "y"}
  RedistPrefixes = {"p", "q"}
  RequestValues = {v1, v2}
  QueueScenes <- MCQueueScenes
  NoValue = NoValue
  QueueWriters = {"w1", "w2"}
  QueueReaders = {"r1", "r2"}
  MaxPushes = 2
SPECIFICATION ServicesSpec
INVARIANTS
  
  
  
  HoldsTheNewest
  SuppressionInvariant
  EveryReaderInOrder
PROPERTIES
  StartRestoresLastSave
  RefinesStream
  LanesMoveForward
CHECK_DEADLOCK FALSE
