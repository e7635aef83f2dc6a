SPECIFICATION Spec
CONSTANTS
  b1 = b1
  b2 = b2
  h1 = h1
  h2 = h2
  NoHead = NoHead
  Closed = Closed
  MaxDepth = 3
  MaxRoots = 64
  InitialCapacity = 8
  Blocks <- OneBlock
  BlockLen <- OneBlockLen
  Handles <- TwoHandles
  Batches <- AllBatches
  CheckoutLengths <- NoLengths
  JunkNodes <- OneJunkNode
  MaxLength = 3
INVARIANTS
  RootsMatchLength
