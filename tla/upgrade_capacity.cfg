SPECIFICATION Spec
CONSTANTS
  b1 = b1
  b2 = b2
  NoHead = NoHead
  MaxDepth = 8
  MaxRoots = 64
  InitialCapacity = 8
  Blocks <- OneBlock
  BlockLen <- OneBlockLen
  Batches <- LopsidedBatches
  MaxLength = 256
INVARIANTS
  RootsFitCapacity
