SPECIFICATION Spec
CONSTANTS
  b1 = b1
  b2 = b2
  NoHead = NoHead
  MaxDepth = 3
  MaxRoots = 4
  InitialCapacity = 8
  Blocks <- TwoBlocks
  BlockLen <- TwoBlockLen
  Batches <- SmallBatches
  MaxLength = 6
INVARIANTS
  UpgradeIsAppend
  BatchHoldsUpgrade
