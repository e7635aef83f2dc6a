SPECIFICATION FairSpec
CONSTANTS
  b1 = b1
  b2 = b2
  h1 = h1
  h2 = h2
  NoHead = NoHead
  Closed = Closed
  MaxDepth = 2
  MaxRoots = 3
  InitialCapacity = 1
  Blocks <- TwoBlocks
  BlockLen <- TwoBlockLen
  Handles <- OneHandle
  Batches <- TripleBatches
  CheckoutLengths <- NoLengths
  JunkNodes <- OneJunkNode
  MaxLength = 8
INVARIANTS
  TypeOK
  HandleMatchesDisk
  DurableTree
  HolderFollowsLog
PROPERTIES
  ImplementsAppendLog
  AppendsAcknowledged
  CallsReturn
