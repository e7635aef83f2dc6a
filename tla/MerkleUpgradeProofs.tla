-------------------------- MODULE MerkleUpgradeProofs -----------------------
(***************************************************************************)
(* What TLAPS proves of MerkleUpgrade: an upgrade that is appended to by   *)
(* any number of calls is the tree over all of their blocks, for every set *)
(* of blocks and batches and every depth.                                  *)
(***************************************************************************)
EXTENDS MerkleUpgrade, MerkleTreeProofs

(* The types of the variables.                                             *)
UpgradeTypes ==
  /\ MerkleTypeOK
  /\ core \in Core
  /\ log \in Seq(Blocks)
  /\ pending \in Seq(Blocks)

(* The blocks that the upgrade is to hold when the call in progress is     *)
(* over.                                                                   *)
Whole == log \o (pending \o frame.buffers)

(* How many of them the upgrade counts.                                    *)
UpgradeCounts ==
  LET before == Len(log) + Len(pending)
      count  == Len(frame.buffers) IN
  /\ pc = "idle" => frame.buffers = <<>>
  /\ pc \in {"idle", "append"} => frame.i = 0
  /\ pc \in {"idle", "append"} /\ upgrade.forked => upgrade.length = before
  /\ pc = "leaf" => frame.i <= count /\ upgrade.length = before + frame.i
  /\ pc = "merge" => frame.i < count /\ upgrade.length = before + frame.i + 1
  /\ pc = "appended" =>
       IF upgrade.forked THEN upgrade.length = before + count
       ELSE frame.buffers = <<>>
  /\ ~upgrade.forked => pending = <<>>

(* With the types this is inductive: while no call on it fails, the upgrade*)
(* grows from the core to the tree over the whole.                         *)
UpgradeInv ==
  /\ core = CoreOver(log) /\ LengthInRange(Len(log))
  /\ pc # "idle" => life = "live"
  /\ life = "none" => pending = <<>>
  /\ pc = "idle" => frame = NoFrame
  /\ life = "live" => UpgradeCounts /\ Growing(NodesOver(Whole), core)

(* The core and the upgrade before any call.                               *)
LEMMA InitUpgrade ==
  ASSUME Init
  PROVE  UpgradeTypes /\ UpgradeInv
<1>1. NoUpgrade \in UpgradeType
  BY DEF NoUpgrade, UpgradeType
<1>2. NoFrame \in [buffers : Seq(Blocks), i : Nat, ite : Iterator]
  BY LeafIteratorType DEF NoFrame
<1>3. IsMap(EmptyMap, Node) /\ IsMap(EmptyMap, Blocks)
  BY DEF IsMap, EmptyMap
<1>4. MerkleTypeOK
  BY <1>1, <1>2, <1>3 DEF Init, MerkleTypeOK, UpgradeType, NoWrite
<1>5. LengthInRange(0)
  <2>1. MaxDepth + 1 \in Nat
    BY MaxDepthAssumption
  <2>2. 2^(MaxDepth + 1) \in Nat /\ 2^(MaxDepth + 1) > 0
    BY <2>1, PowerGrows
  <2>3. QED
    BY <2>2 DEF LengthInRange
<1>6. CoreOver(<<>>) \in Core
  <2>1. <<>> \in Seq(Blocks) /\ Len(<<>>) = 0
    OBVIOUS
  <2>2. TreeRoots(<<>>) \in Seq(Node)
    BY <2>1, TreeRootsType
  <2>3. ByteLength(<<>>) \in Nat
    BY <2>1, ByteLengthConcat
  <2>4. QED
    BY <2>1, <2>2, <2>3 DEF CoreOver, Core
<1>7. QED
  BY <1>4, <1>5, <1>6 DEF Init, UpgradeTypes, UpgradeInv

(* Three lists of blocks, one after the other.                             *)
LEMMA ConcatThree ==
  ASSUME NEW a \in Seq(Blocks), NEW b \in Seq(Blocks), NEW c \in Seq(Blocks)
  PROVE  /\ a \o (b \o c) = (a \o b) \o c
         /\ a \o (b \o c) \in Seq(Blocks)
         /\ Len(a \o (b \o c)) = Len(a) + Len(b) + Len(c)
<1>1. b \o c \in Seq(Blocks) /\ Len(b \o c) = Len(b) + Len(c)
  BY ConcatBlocks
<1>2. a \o (b \o c) \in Seq(Blocks) /\ Len(a \o (b \o c)) = Len(a) + Len(b \o c)
  BY <1>1, ConcatBlocks
<1>3. a \o (b \o c) = (a \o b) \o c
  OBVIOUS
<1>4. QED
  BY <1>1, <1>2, <1>3

(* What the proofs below need of the types.                                *)
LEMMA UpgradeFacts ==
  ASSUME UpgradeTypes
  PROVE  /\ MerkleTypeOK /\ core \in Core
         /\ upgrade.length \in Nat /\ upgrade.roots \in Seq(Node)
         /\ frame.i \in Nat
         /\ frame.buffers \in Seq(Blocks) /\ Len(frame.buffers) \in Nat
         /\ log \in Seq(Blocks) /\ Len(log) \in Nat
         /\ pending \in Seq(Blocks) /\ Len(pending) \in Nat
         /\ log \o pending \in Seq(Blocks)
         /\ Len(log \o pending) = Len(log) + Len(pending)
         /\ pending \o frame.buffers \in Seq(Blocks)
         /\ Whole \in Seq(Blocks)
         /\ Whole = (log \o pending) \o frame.buffers
         /\ Len(Whole) = Len(log) + Len(pending) + Len(frame.buffers)
<1>1. /\ MerkleTypeOK /\ core \in Core
      /\ upgrade.length \in Nat /\ upgrade.roots \in Seq(Node)
      /\ frame.i \in Nat
      /\ frame.buffers \in Seq(Blocks) /\ Len(frame.buffers) \in Nat
      /\ log \in Seq(Blocks) /\ Len(log) \in Nat
      /\ pending \in Seq(Blocks) /\ Len(pending) \in Nat
  BY DEF UpgradeTypes, MerkleTypeOK
<1>2. /\ log \o pending \in Seq(Blocks)
      /\ Len(log \o pending) = Len(log) + Len(pending)
      /\ pending \o frame.buffers \in Seq(Blocks)
  BY <1>1, ConcatBlocks
<1>3. Whole = log \o (pending \o frame.buffers)
  BY DEF Whole
<1>4. /\ log \o (pending \o frame.buffers) = (log \o pending) \o frame.buffers
      /\ log \o (pending \o frame.buffers) \in Seq(Blocks)
      /\ Len(log \o (pending \o frame.buffers))
           = Len(log) + Len(pending) + Len(frame.buffers)
  BY <1>1, ConcatThree
<1>5. QED
  BY <1>1, <1>2, <1>3, <1>4

(* Every step keeps the types.                                             *)
LEMMA NextUpgradeTypes ==
  ASSUME UpgradeTypes, [Next]_vars
  PROVE  UpgradeTypes'
<1>1. NoUpgrade \in UpgradeType
  BY DEF NoUpgrade, UpgradeType
<1>2. NoFrame \in [buffers : Seq(Blocks), i : Nat, ite : Iterator]
  BY LeafIteratorType DEF NoFrame
<1>3. IsMap(EmptyMap, Node) /\ IsMap(EmptyMap, Blocks)
  BY DEF IsMap, EmptyMap
<1>4. CASE UNCHANGED vars
  BY <1>4 DEF vars, merkleVars, UpgradeTypes, MerkleTypeOK
<1>5. CASE UpgradeInit \/ UpgradeDestroy
  <2>1. MerkleTypeOK'
    BY <1>1, <1>3, <1>5
       DEF UpgradeInit, UpgradeDestroy, UpgradeTypes, MerkleTypeOK, UpgradeType,
           NoWrite
  <2>2. <<>> \in Seq(Blocks)
    OBVIOUS
  <2>3. QED
    BY <1>5, <2>1, <2>2 DEF UpgradeInit, UpgradeDestroy, UpgradeTypes
<1>6. ASSUME NEW batch \in Batches, CallMerkleAppend(batch)
      PROVE  UpgradeTypes'
  <2>1. frame' \in [buffers : Seq(Blocks), i : Nat, ite : Iterator]
    BY <1>6, BatchesAssumption, LeafIteratorType DEF CallMerkleAppend, NoFrame
  <2>2. QED
    BY <1>6, <2>1 DEF CallMerkleAppend, UpgradeTypes, MerkleTypeOK
<1>7. CASE GrowTree
  BY <1>7, MerkleStepType DEF GrowTree, UpgradeTypes
<1>8. CASE MerkleAppendReturns \/ MerkleAppendFails
  <2>1. MerkleTypeOK'
    BY <1>2, <1>8
       DEF MerkleAppendReturns, MerkleAppendFails, UpgradeTypes, MerkleTypeOK
  <2>2. pending \o frame.buffers \in Seq(Blocks)
    BY UpgradeFacts
  <2>3. QED
    BY <1>8, <2>1, <2>2
       DEF MerkleAppendReturns, MerkleAppendFails, UpgradeTypes
<1>9. CASE Commit
  <2>1. MerkleTypeOK'
    BY <1>1, <1>3, <1>9
       DEF Commit, UpgradeTypes, MerkleTypeOK, UpgradeType, NoWrite
  <2>2. core' \in Core
    BY <1>9 DEF Commit, UpgradeTypes, MerkleTypeOK, Core
  <2>3. log' \in Seq(Blocks) /\ pending' \in Seq(Blocks)
    BY <1>9, UpgradeFacts DEF Commit
  <2>4. QED
    BY <2>1, <2>2, <2>3 DEF UpgradeTypes
<1>10. QED
  BY <1>4, <1>5, <1>6, <1>7, <1>8, <1>9 DEF Next
-----------------------------------------------------------------------------
(* Between calls a forked upgrade is the tree over what was appended.      *)
LEMMA ForkedIsTree ==
  ASSUME UpgradeTypes, UpgradeInv, pc = "idle", life = "live", upgrade.forked
  PROVE  /\ [roots |-> upgrade.roots, length |-> upgrade.length,
             byte_length |-> upgrade.byte_length] = CoreOver(log \o pending)
         /\ LengthInRange(Len(log \o pending))
         /\ Grown(NodesOver(log \o pending), Len(log))
<1> DEFINE blocks == log \o pending
<1>1. blocks \in Seq(Blocks) /\ upgrade.roots \in Seq(Node)
  BY UpgradeFacts
<1>2. upgrade.length = Len(blocks)
  BY UpgradeFacts DEF UpgradeInv, UpgradeCounts
<1>3. Whole = blocks
  <2>1. frame.buffers = <<>>
    BY DEF UpgradeInv, UpgradeCounts
  <2> HIDE DEF blocks
  <2>2. blocks \o <<>> = blocks
    BY <1>1
  <2>3. QED
    BY <2>1, <2>2, UpgradeFacts DEF blocks
<1> HIDE DEF blocks
<1>4. Grown(NodesOver(blocks), Len(log))
  <2>1. Grown(NodesOver(Whole), core.length)
    BY DEF UpgradeInv, Growing
  <2>2. core.length = Len(log)
    BY DEF UpgradeInv, CoreOver
  <2>3. QED
    BY <1>3, <2>1, <2>2
<1>5. /\ LengthInRange(Len(blocks))
      /\ upgrade.byte_length = Total(SizesOf(upgrade.roots))
      /\ RootsFit(NodesOver(blocks), upgrade.roots, Len(blocks))
  BY <1>2, <1>4 DEF Grown
<1>6. upgrade.roots = TreeRoots(blocks)
  BY <1>1, <1>5, RootsAreTree
<1>7. upgrade.byte_length = ByteLength(blocks)
  BY <1>1, <1>5, <1>6, RootSizes
<1>8. QED
  BY <1>2, <1>4, <1>5, <1>6, <1>7 DEF CoreOver, blocks

(* A step of hc_merkle_tree_append counts at most one leaf.                *)
LEMMA GrowTreeUpgradeCounts ==
  ASSUME UpgradeTypes, UpgradeInv, life = "live", GrowTree
  PROVE  UpgradeCounts'
<1> DEFINE before == Len(log) + Len(pending)
           count == Len(frame.buffers)
<1>1. /\ before \in Nat /\ count \in Nat /\ frame.i \in Nat
      /\ upgrade.length \in Nat /\ frame.buffers \in Seq(Blocks)
      /\ core.length = Len(log)
  BY UpgradeFacts DEF UpgradeInv, CoreOver
<1>2. /\ pc \in {"append", "leaf", "merge"}
      /\ pc' \in {"leaf", "merge", "appended", "failed"}
      /\ UNCHANGED <<log, pending>> /\ frame'.buffers = frame.buffers
      /\ upgrade.forked => upgrade'.forked
  BY UpgradeFacts
     DEF GrowTree, MerkleTypeOK, MerkleStep, AppendNothing, ForkUpgrade, ForkFails,
         ForkedFrom, PushLeaf, RootsFull, Merge, MergeDone, LeavesDone
<1>3. /\ pc = "append" => frame.i = 0
      /\ pc = "append" /\ upgrade.forked => upgrade.length = before
      /\ pc = "leaf" => frame.i <= count /\ upgrade.length = before + frame.i
      /\ pc = "merge" => frame.i < count /\ upgrade.length = before + frame.i + 1
      /\ ~upgrade.forked => pending = <<>>
      /\ pc \in {"leaf", "merge"} => upgrade.forked
  BY DEF UpgradeInv, UpgradeCounts, Growing
<1>4. /\ pc' = "leaf" => frame'.i <= count /\ upgrade'.length = before + frame'.i
      /\ pc' = "merge" =>
           frame'.i < count /\ upgrade'.length = before + frame'.i + 1
      /\ pc' = "appended" =>
           IF upgrade'.forked THEN upgrade'.length = before + count
           ELSE frame.buffers = <<>>
  <2>1. CASE AppendNothing
    <3>1. /\ pc = "append" /\ pc' = "appended" /\ UNCHANGED upgrade
          /\ frame.buffers = <<>>
      BY <2>1 DEF AppendNothing
    <3>2. count = 0
      BY <3>1
    <3> HIDE DEF before, count
    <3>3. QED
      BY <1>1, <1>3, <3>1, <3>2
  <2>2. CASE ForkUpgrade(core)
    <3>1. pc = "append" /\ pc' = "leaf" /\ frame' = frame
      BY <2>2 DEF ForkUpgrade
    <3>2. upgrade'.length = before
      <4>1. CASE upgrade.forked
        BY <1>3, <2>2, <3>1, <4>1 DEF ForkUpgrade, ForkedFrom
      <4>2. CASE ~upgrade.forked
        <5>1. upgrade'.length = Len(log) /\ Len(pending) = 0
          BY <1>1, <1>3, <2>2, <4>2 DEF ForkUpgrade, ForkedFrom
        <5>2. QED
          BY <5>1, UpgradeFacts
      <4>3. QED
        BY <4>1, <4>2
    <3> HIDE DEF before, count
    <3>3. QED
      BY <1>1, <1>3, <3>1, <3>2
  <2>3. CASE ForkFails(core) \/ RootsFull
    BY <2>3 DEF ForkFails, RootsFull
  <2>4. CASE PushLeaf
    <3>1. /\ upgrade'.length = upgrade.length + 1 /\ frame'.i = frame.i
          /\ pc = "leaf" /\ frame.i < count
          /\ pc' \in {"merge", "failed"}
      BY <2>4, UpgradeFacts DEF PushLeaf, MerkleTypeOK
    <3> HIDE DEF before, count
    <3>2. QED
      BY <1>1, <1>3, <3>1
  <2>5. CASE Merge
    <3>1. /\ upgrade'.length = upgrade.length /\ frame'.i = frame.i
          /\ pc = "merge" /\ pc' \in {"merge", "failed"}
      BY <2>5, UpgradeFacts DEF Merge, MerkleTypeOK
    <3>2. QED
      BY <1>1, <1>3, <3>1
  <2>6. CASE MergeDone
    <3>1. /\ upgrade'.length = upgrade.length /\ frame'.i = frame.i + 1
          /\ pc = "merge" /\ pc' = "leaf"
      BY <2>6, UpgradeFacts DEF MergeDone, MerkleTypeOK
    <3> HIDE DEF before, count
    <3>2. QED
      BY <1>1, <1>3, <3>1
  <2>7. CASE LeavesDone
    <3>1. /\ upgrade' = upgrade /\ pc = "leaf" /\ upgrade.forked
          /\ pc' = "appended" /\ frame.i >= count
      BY <1>3, <2>7 DEF LeavesDone
    <3> HIDE DEF before, count
    <3>2. QED
      BY <1>1, <1>3, <3>1
  <2>8. QED
    BY <2>1, <2>2, <2>3, <2>4, <2>5, <2>6, <2>7 DEF GrowTree, MerkleStep
<1>5. QED
  BY <1>2, <1>3, <1>4 DEF UpgradeCounts

(* And keeps the upgrade a tree.                                           *)
LEMMA GrowTreeUpgrade ==
  ASSUME UpgradeTypes, UpgradeInv, MaxRoots = MaxDepth + 1, GrowTree
  PROVE  UpgradeInv'
<1>1. /\ MerkleStep(core) /\ UNCHANGED <<core, life, log, pending>>
      /\ pc \in {"append", "leaf", "merge"}
      /\ pc' \in {"leaf", "merge", "appended", "failed"}
      /\ frame'.buffers = frame.buffers
  BY UpgradeFacts
     DEF GrowTree, MerkleTypeOK, MerkleStep, AppendNothing, ForkUpgrade, ForkFails,
         PushLeaf, RootsFull, Merge, MergeDone, LeavesDone
<1>2. life = "live" /\ UpgradeCounts /\ Growing(NodesOver(Whole), core)
  BY <1>1 DEF UpgradeInv
<1>3. CoreFits(NodesOver(Whole), core)
  <2>1. /\ core.roots = TreeRoots(log) /\ core.length = Len(log)
        /\ core.byte_length = ByteLength(log) /\ LengthInRange(Len(log))
    BY DEF UpgradeInv, CoreOver
  <2>2. RootsFit(NodesOver(Whole), TreeRoots(log), Len(log))
    BY UpgradeFacts, TreeRootsFit DEF Whole
  <2>3. QED
    BY <2>1, <2>2, UpgradeFacts, RootSizes DEF CoreFits
<1>4. /\ pc = "merge" => upgrade.length <= Len(Whole)
      /\ pc = "leaf" => upgrade.length = Len(log \o pending) + frame.i
  <2>1. /\ pc = "merge" => /\ frame.i < Len(frame.buffers)
                           /\ upgrade.length = Len(log) + Len(pending) + frame.i + 1
        /\ pc = "leaf" => upgrade.length = Len(log) + Len(pending) + frame.i
    BY <1>2 DEF UpgradeCounts
  <2>2. /\ Len(log) \in Nat /\ Len(pending) \in Nat
        /\ Len(frame.buffers) \in Nat /\ frame.i \in Nat
        /\ Len(log \o pending) = Len(log) + Len(pending)
        /\ Len(Whole) = Len(log) + Len(pending) + Len(frame.buffers)
    BY UpgradeFacts
  <2> DEFINE a == Len(log)
             b == Len(pending)
             d == Len(frame.buffers)
             w == Len(Whole)
             v == Len(log \o pending)
             i == frame.i
             n == upgrade.length
  <2>3. /\ a \in Nat /\ b \in Nat /\ d \in Nat /\ i \in Nat
        /\ v = a + b /\ w = a + b + d
    BY <2>2
  <2>4. /\ pc = "merge" => i < d /\ n = a + b + i + 1
        /\ pc = "leaf" => n = a + b + i
    BY <2>1
  <2> HIDE DEF a, b, d, w, v, i, n
  <2>5. (pc = "merge" => n <= w) /\ (pc = "leaf" => n = v + i)
    BY <2>3, <2>4
  <2>6. QED
    BY <2>5 DEF n, w, v, i
<1>5. pc = "leaf" /\ frame.i < Len(frame.buffers) =>
        LeafNode(2 * upgrade.length, frame.buffers[frame.i + 1])
          \in NodesOver(Whole)[<<upgrade.length, 0>>]
  <2>1. SUFFICES ASSUME pc = "leaf", frame.i < Len(frame.buffers)
                 PROVE  LeafNode(2 * upgrade.length, frame.buffers[frame.i + 1])
                          \in NodesOver(Whole)[<<upgrade.length, 0>>]
    OBVIOUS
  <2> DEFINE first == log \o pending
             buffers == frame.buffers
             i == frame.i
  <2>2. /\ first \in Seq(Blocks) /\ Len(first) \in Nat
        /\ buffers \in Seq(Blocks) /\ Len(buffers) \in Nat /\ i \in Nat
        /\ Whole = first \o buffers /\ Whole \in Seq(Blocks)
        /\ upgrade.length \in Nat /\ upgrade.length = Len(first) + i
        /\ i < Len(buffers)
    <3>1. log \o pending \in Seq(Blocks) /\ Len(log \o pending) \in Nat
      BY UpgradeFacts
    <3>2. upgrade.length = Len(log \o pending) + frame.i
      BY <1>4, <2>1
    <3> HIDE DEF first, buffers, i
    <3>3. QED
      BY <2>1, <3>1, <3>2, UpgradeFacts DEF first, buffers, i
  <2> HIDE DEF first, buffers, i
  <2>3. /\ i + 1 \in 1..Len(buffers) /\ buffers[i + 1] \in Blocks
        /\ Len(Whole) = Len(first) + Len(buffers)
        /\ \A k \in 1..Len(buffers) : Whole[Len(first) + k] = buffers[k]
    BY <2>2
  <2>4. /\ Whole[upgrade.length + 1] = buffers[i + 1]
        /\ upgrade.length < Len(Whole)
    <3>1. upgrade.length + 1 = Len(first) + (i + 1)
      BY <2>2
    <3>2. QED
      BY <2>2, <2>3, <3>1
  <2>5. QED
    BY <2>2, <2>3, <2>4, LeafFits DEF buffers, i
<1>6. Growing(NodesOver(Whole), core)'
  <2>1. IsNodeMap(NodesOver(Whole), Len(Whole))
    BY UpgradeFacts, TreeNodeMap
  <2>2. ASSUME NEW c, c = core, NEW nodes, nodes = NodesOver(Whole)
        PROVE  Growing(nodes, c)'
    BY <1>1, <1>2, <1>3, <1>4, <1>5, <2>1, <2>2, UpgradeFacts, MerkleStepGrowing
  <2>3. core' = core /\ NodesOver(Whole)' = NodesOver(Whole)
    BY <1>1 DEF Whole
  <2>4. QED
    BY <2>2, <2>3
<1>7. UpgradeCounts'
  BY <1>2, GrowTreeUpgradeCounts
<1>8. QED
  BY <1>1, <1>2, <1>6, <1>7 DEF UpgradeInv

(* A call that begins adds its blocks to the whole; the upgrade so far is a*)
(* tree over those before them.                                            *)
LEMMA CallUpgrade ==
  ASSUME UpgradeTypes, UpgradeTypes', UpgradeInv, NEW batch \in Batches,
         CallMerkleAppend(batch)
  PROVE  UpgradeInv'
<1>1. /\ pc = "idle" /\ pc' = "append" /\ life = "live"
      /\ frame'.buffers = batch /\ frame'.i = 0
      /\ UNCHANGED <<upgrade, write, core, life, log, pending>>
  BY DEF CallMerkleAppend, NoFrame
<1>2. UpgradeCounts /\ Growing(NodesOver(Whole), core)
  BY <1>1 DEF UpgradeInv
<1>3. UpgradeCounts'
  BY <1>1, <1>2 DEF UpgradeCounts
<1>4. upgrade.forked => Grown(NodesOver(Whole), core.length)'
  <2>1. SUFFICES ASSUME upgrade.forked
                 PROVE  Grown(NodesOver(Whole), core.length)'
    OBVIOUS
  <2> DEFINE first == log \o pending
             more == first \o batch
  <2>2. /\ Grown(NodesOver(first), Len(log)) /\ first \in Seq(Blocks)
        /\ upgrade.length = Len(first) /\ core.length = Len(log)
    BY <1>1, <1>2, <2>1, ForkedIsTree, UpgradeFacts
       DEF UpgradeInv, UpgradeCounts, CoreOver
  <2>3. batch \in Seq(Blocks)
    BY BatchesAssumption
  <2> HIDE DEF first
  <2>4. Grown(NodesOver(more), Len(log))
    <3>1. \A place \in Subtrees(upgrade.length) :
            NodesOver(first)[place] = NodesOver(more)[place]
      BY <2>2, <2>3, NodesOfPrefix
    <3> HIDE DEF more
    <3>2. QED
      BY <2>2, <3>1, UpgradeFacts, GrownOver
  <2>5. Whole' = more
    <3>1. Whole' = log \o (pending \o batch)
      BY <1>1 DEF Whole
    <3>2. log \o (pending \o batch) = (log \o pending) \o batch
      <4>1. log \in Seq(Blocks) /\ pending \in Seq(Blocks)
        BY DEF UpgradeTypes
      <4>2. QED
        BY <2>3, <4>1, ConcatThree
    <3>3. QED
      BY <3>1, <3>2 DEF first
  <2>6. ASSUME NEW nodes, nodes = NodesOver(more), NEW base, base = Len(log)
        PROVE  Grown(nodes, base)'
    BY <1>1, <2>4, <2>6, SameGrown
  <2>7. NodesOver(Whole)' = NodesOver(more) /\ core'.length = Len(log)
    BY <1>1, <2>2, <2>5
  <2>8. QED
    BY <2>6, <2>7
<1>5. Growing(NodesOver(Whole), core)'
  BY <1>1, <1>2, <1>4 DEF Growing
<1>6. QED
  BY <1>1, <1>3, <1>5 DEF UpgradeInv

(* A call that returns has appended its blocks.                            *)
LEMMA ReturnUpgrade ==
  ASSUME UpgradeTypes, UpgradeInv, MerkleAppendReturns
  PROVE  UpgradeInv'
<1>1. /\ pc = "appended" /\ pc' = "idle" /\ life = "live"
      /\ frame' = NoFrame /\ frame'.buffers = <<>> /\ frame'.i = 0
      /\ pending' = pending \o frame.buffers
      /\ UNCHANGED <<upgrade, write, core, life, log>>
  BY DEF MerkleAppendReturns, NoFrame, UpgradeInv
<1>2. UpgradeCounts /\ Growing(NodesOver(Whole), core)
  BY <1>1 DEF UpgradeInv
<1>3. Whole' = Whole
  <2> DEFINE more == pending \o frame.buffers
  <2>1. more \in Seq(Blocks)
    BY UpgradeFacts
  <2> HIDE DEF more
  <2>2. more \o <<>> = more
    BY <2>1
  <2>3. Whole' = log \o (more \o <<>>)
    BY <1>1 DEF Whole, more
  <2>4. QED
    BY <2>2, <2>3 DEF Whole, more
<1>4. UpgradeCounts'
  <2>1. Len(pending') = Len(pending) + Len(frame.buffers)
    BY <1>1, UpgradeFacts, ConcatBlocks
  <2>2. CASE upgrade.forked
    <3>1. upgrade.length = Len(log) + Len(pending) + Len(frame.buffers)
      BY <1>1, <1>2, <2>2 DEF UpgradeCounts
    <3>2. upgrade'.length = Len(log') + Len(pending')
      <4> DEFINE a == Len(log)
                 b == Len(pending)
                 d == Len(frame.buffers)
      <4>1. a \in Nat /\ b \in Nat /\ d \in Nat
        BY UpgradeFacts
      <4>2. upgrade'.length = a + b + d /\ Len(log') = a /\ Len(pending') = b + d
        BY <1>1, <2>1, <3>1
      <4> HIDE DEF a, b, d
      <4>3. QED
        BY <4>1, <4>2
    <3>3. QED
      BY <1>1, <2>2, <3>2 DEF UpgradeCounts
  <2>3. CASE ~upgrade.forked
    <3>1. pending = <<>> /\ frame.buffers = <<>>
      BY <1>1, <1>2, <2>3 DEF UpgradeCounts
    <3>2. pending' = <<>>
      BY <1>1, <3>1
    <3>3. QED
      BY <1>1, <2>3, <3>2 DEF UpgradeCounts
  <2>4. QED
    BY <2>2, <2>3
<1>5. Growing(NodesOver(Whole), core)'
  <2>1. ASSUME NEW c, c = core, NEW nodes, nodes = NodesOver(Whole)
        PROVE  Growing(nodes, c)'
    BY <1>1, <1>2, <2>1, SameGrown DEF Growing
  <2>2. core' = core /\ NodesOver(Whole)' = NodesOver(Whole)
    BY <1>1, <1>3
  <2>3. QED
    BY <2>1, <2>2
<1>6. QED
  BY <1>1, <1>4, <1>5 DEF UpgradeInv

(* Outside of calls.                                                       *)
LEMMA BetweenCallsUpgrade ==
  ASSUME UpgradeTypes, UpgradeInv,
         UpgradeInit \/ MerkleAppendFails \/ Commit \/ UpgradeDestroy
  PROVE  UpgradeInv'
<1>1. CASE UpgradeInit
  <2>1. /\ pc = "idle" /\ pc' = "idle" /\ life = "none" /\ life' = "live"
        /\ ~upgrade'.forked /\ write'.tree = EmptyMap
        /\ UNCHANGED <<frame, core, log, pending>>
    BY <1>1 DEF UpgradeInit, NoUpgrade, NoWrite
  <2>2. pending = <<>> /\ frame = NoFrame
    BY <2>1 DEF UpgradeInv
  <2>3. UpgradeCounts'
    BY <2>1, <2>2 DEF UpgradeCounts, NoFrame
  <2>4. Growing(NodesOver(Whole), core)'
    BY <2>1 DEF Growing
  <2>5. QED
    BY <2>1, <2>3, <2>4 DEF UpgradeInv
<1>2. CASE MerkleAppendFails
  BY <1>2 DEF MerkleAppendFails, UpgradeInv
<1>3. CASE Commit
  <2>1. /\ pc = "idle" /\ pc' = "idle" /\ life = "live" /\ life' = "live"
        /\ upgrade.forked
        /\ ~upgrade'.forked /\ write'.tree = EmptyMap
        /\ core' = [roots |-> upgrade.roots, length |-> upgrade.length,
                    byte_length |-> upgrade.byte_length]
        /\ log' = log \o pending /\ pending' = <<>>
        /\ UNCHANGED frame
    BY <1>3 DEF Commit, NoUpgrade, NoWrite
  <2>2. core' = CoreOver(log') /\ LengthInRange(Len(log'))
    BY <2>1, ForkedIsTree
  <2>3. frame = NoFrame
    BY <2>1 DEF UpgradeInv
  <2>4. UpgradeCounts'
    BY <2>1, <2>3 DEF UpgradeCounts, NoFrame
  <2>5. Growing(NodesOver(Whole), core)'
    BY <2>1 DEF Growing
  <2>6. QED
    BY <2>1, <2>2, <2>3, <2>4, <2>5 DEF UpgradeInv
<1>4. CASE UpgradeDestroy
  BY <1>4 DEF UpgradeDestroy, UpgradeInv
<1>5. QED
  BY <1>1, <1>2, <1>3, <1>4

(* Every step keeps the upgrade a tree.                                    *)
LEMMA NextUpgrade ==
  ASSUME UpgradeTypes, UpgradeInv, MaxRoots = MaxDepth + 1, [Next]_vars
  PROVE  UpgradeInv'
<1>1. CASE UNCHANGED vars
  <2>1. UNCHANGED <<upgrade, write, frame, pc, core, life, log, pending>>
    BY <1>1 DEF vars, merkleVars
  <2>2. Growing(NodesOver(Whole), core) => Growing(NodesOver(Whole), core)'
    BY <2>1 DEF Growing, Grown, Merging, MergingAt, Whole
  <2>3. QED
    BY <2>1, <2>2 DEF UpgradeInv, UpgradeCounts
<1>2. CASE Next
  <2>1. UpgradeTypes'
    BY NextUpgradeTypes
  <2>2. QED
    BY <1>2, <2>1, GrowTreeUpgrade, CallUpgrade, ReturnUpgrade,
       BetweenCallsUpgrade DEF Next
<1>3. QED
  BY <1>1, <1>2

(* The invariant of the upgrade holds in every state.                      *)
LEMMA UpgradeHolds ==
  ASSUME MaxRoots = MaxDepth + 1
  PROVE  Spec => [](UpgradeTypes /\ UpgradeInv)
<1>1. Init => UpgradeTypes /\ UpgradeInv
  BY InitUpgrade
<1>2. (UpgradeTypes /\ UpgradeInv) /\ [Next]_vars => (UpgradeTypes /\ UpgradeInv)'
  BY NextUpgradeTypes, NextUpgrade
<1>3. QED
  BY <1>1, <1>2, PTL DEF Spec

(* However the blocks are split into calls of hc_merkle_tree_append, and   *)
(* however often the upgrade is committed and appended to again, it is the *)
(* tree over all of them, and the core is not touched before the commit.   *)
THEOREM UpgradeAlwaysAppends ==
  ASSUME MaxRoots = MaxDepth + 1
  PROVE  Spec => []UpgradeIsAppend
<1>1. ASSUME UpgradeTypes, UpgradeInv
      PROVE  UpgradeIsAppend
  <2>1. core = CoreOver(log)
    BY <1>1 DEF UpgradeInv
  <2>2. pc = "idle" /\ life = "live" /\ ~upgrade.forked => pending = <<>>
    BY <1>1 DEF UpgradeInv, UpgradeCounts
  <2>3. QED
    BY <1>1, <2>1, <2>2, ForkedIsTree DEF UpgradeIsAppend
<1>2. QED
  BY <1>1, UpgradeHolds, PTL

(* And its batch has every complete subtree that the committed blocks do   *)
(* not have (hc__db_core_write_tree_node in hc_merkle_tree_append).        *)
THEOREM BatchAlwaysHolds ==
  ASSUME MaxRoots = MaxDepth + 1
  PROVE  Spec => []BatchHoldsUpgrade
<1>1. ASSUME UpgradeTypes, UpgradeInv
      PROVE  BatchHoldsUpgrade
  <2> DEFINE blocks == log \o pending
  <2>1. SUFFICES ASSUME pc = "idle", life = "live",
                        NEW sd \in Subtrees(Len(blocks)) \ Subtrees(Len(log))
                 PROVE  LET node == TreeNode(blocks, sd[1], sd[2])
                        IN  /\ node.index \in DOMAIN write.tree
                            /\ write.tree[node.index] = node
    BY DEF BatchHoldsUpgrade
  <2>2. blocks \in Seq(Blocks)
    BY <1>1, UpgradeFacts
  <2>3. upgrade.forked
    <3>1. SUFFICES ASSUME ~upgrade.forked
                   PROVE  FALSE
      OBVIOUS
    <3>2. pending = <<>>
      BY <1>1, <2>1, <3>1 DEF UpgradeInv, UpgradeCounts
    <3>3. Len(blocks) = Len(log)
      BY <1>1, <3>2, UpgradeFacts
    <3>4. QED
      BY <2>1, <3>3
  <2>4. /\ Grown(NodesOver(blocks), Len(log)) /\ upgrade.length = Len(blocks)
    BY <1>1, <2>1, <2>3, ForkedIsTree DEF CoreOver
  <2> HIDE DEF blocks
  <2>5. Stands(NodesOver(blocks), write.tree, sd)
    BY <2>1, <2>4 DEF Grown, StandAll
  <2>6. NodesOver(blocks)[sd] = {TreeNode(blocks, sd[1], sd[2])}
    BY <2>1, <2>2, NodesOfPrefix
  <2>7. TreeNode(blocks, sd[1], sd[2]).index = NodeIndex(sd[1], sd[2])
    BY DEF TreeNode
  <2>8. QED
    BY <2>5, <2>6, <2>7 DEF Stands
<1>2. QED
  BY <1>1, UpgradeHolds, PTL

=============================================================================
