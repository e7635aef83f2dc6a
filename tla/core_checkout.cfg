SPECIFICATION Spec
CONSTANTS
  b1 = b1
  b2 = b2
  h1 = h1
  h2 = h2
  NoHead = NoHead
  Closed = Closed
  MaxDepth = 2
  MaxRoots = 4
  InitialCapacity = 2
  Blocks <- OneBlock
  BlockLen <- OneBlockLen
  Handles <- OneHandle
  Batches <- AllBatches
  CheckoutLengths <- SomeLengths
  JunkNodes <- TwoJunkNodes
  MaxLength = 4
INVARIANTS
  RootsFitCapacity
  AppendHasRoom
