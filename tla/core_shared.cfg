SPECIFICATION Spec
CONSTANTS
  b1 = b1
  b2 = b2
  h1 = h1
  h2 = h2
  NoHead = NoHead
  Closed = Closed
  MaxDepth = 3
  MaxRoots = 4
  InitialCapacity = 8
  Blocks <- OneBlock
  BlockLen <- OneBlockLen
  Handles <- TwoHandles
  Batches <- PairBatches
  CheckoutLengths <- NoLengths
  JunkNodes <- OneJunkNode
  MaxLength = 7
INVARIANTS
  RootsMatchLength
  LoadIsDefined
