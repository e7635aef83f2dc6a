SPECIFICATION StoreCoresSpec
CONSTANTS
  DiscoveryKeys = {k1, k2, k3}
  Handles = {h1, h2}
  NoStoreHead = NoStoreHead
  NoKey = NoKey
  NoLog = NoLog
  Blocks <- SomeBlocks
  Batches <- SomeBatches
  MaxCores = 4
  MaxLog = 2
SYMMETRY Symmetric
INVARIANTS
  TypeOK
  CountersAgree
  PointersUnique
  HandlesApart
  NewDataUnwritten
PROPERTIES
  CreateTakesNewPointers
  ImplementsLogStore
