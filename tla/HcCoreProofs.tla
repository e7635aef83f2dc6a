---------------------------- MODULE HcCoreProofs ----------------------------
(***************************************************************************)
(* What TLAPS proves of HcCore, for every set of handles, blocks and       *)
(* batches and every bound; and of HcCoreLog: with one handle, whatever    *)
(* fails, HcCore takes no step that an append-only log does not take.      *)
(***************************************************************************)
EXTENDS HcCoreLog, MerkleTreeProofs

(* The state of a call is reset, with its types.                           *)
LEMMA ReturnType ==
  ASSUME Return
  PROVE  MerkleTypeOK' /\ pc' = "idle"
<1>1. NoUpgrade \in UpgradeType
  BY DEF NoUpgrade, UpgradeType
<1>2. NoFrame \in [buffers : Seq(Blocks), i : Nat, ite : Iterator]
  BY LeafIteratorType DEF NoFrame
<1>3. IsMap(EmptyMap, Node) /\ IsMap(EmptyMap, Blocks)
  BY DEF IsMap, EmptyMap
<1>4. QED
  BY <1>1, <1>2, <1>3 DEF Return, MerkleTypeOK, UpgradeType, NoWrite

(* hc_core_init leaves a well-typed core.                                   *)
LEMMA EmptyCoreType == EmptyCore \in Core
BY DEF EmptyCore, Core

(* Where TypeOK does not need a closer look: the call state is known to be *)
(* well typed and the core of one handle changed to a well typed one.      *)
LEMMA FrameType ==
  ASSUME TypeOK, MerkleTypeOK', UNCHANGED <<dbVars, caller>>,
         core' \in [Handles -> Core],
         status' \in [Handles -> {"closed", "unloaded", "open"}],
         pc' \in {"idle", "load_head", "load_roots", "sum", "append", "leaf",
                  "merge", "appended", "flush", "commit", "failed"}
  PROVE  TypeOK'
BY DEF TypeOK, dbVars, IsMap

(* The steps of hc_core_load.                                              *)
LEMMA LoadType ==
  ASSUME TypeOK,
         \/ LoadHeadFails \/ LoadHeadMissing \/ LoadEmptyHead \/ LoadHead
         \/ LoadRootsFails \/ LoadRoots \/ SumRoots \/ LoadReturns
  PROVE  TypeOK'
<1>1. core[caller] \in Core /\ caller \in Handles
  BY DEF TypeOK
<1>2. CASE LoadHeadFails
  BY <1>2, ReturnType, FrameType DEF LoadHeadFails, TypeOK, dbVars
<1>3. CASE LoadHeadMissing
  BY <1>3, ReturnType, FrameType DEF LoadHeadMissing, SetStatus, TypeOK, dbVars
<1>4. CASE LoadEmptyHead
  <2>1. core' \in [Handles -> Core]
    BY <1>4 DEF LoadEmptyHead, TypeOK, Core
  <2>2. QED
    BY <1>4, <2>1, ReturnType, FrameType DEF LoadEmptyHead, SetStatus, TypeOK, dbVars
<1>5. CASE LoadHead
  <2>1. dbHead.length \in Nat
    BY <1>5 DEF LoadHead, TypeOK, HeadRecord
  <2>2. core' \in [Handles -> Core]
    BY <1>5, <2>1 DEF LoadHead, TypeOK, Core
  <2>3. MerkleTypeOK'
    BY <1>5 DEF LoadHead, TypeOK, MerkleTypeOK
  <2>4. QED
    BY <1>5, <2>2, <2>3, FrameType DEF LoadHead, TypeOK, dbVars
<1>6. CASE LoadRootsFails
  <2> DEFINE old == core[caller].roots
             indices == FullRoots(core[caller].length)
             read(item) == [k \in 1..Len(old) |->
                              IF k < item /\ indices[k] \in DOMAIN dbTree
                              THEN dbTree[indices[k]]
                              ELSE old[k]]
  <2>1. PICK item \in 1..RootCount(core[caller].length) :
          core' = [core EXCEPT ![caller].roots = read(item)]
    BY <1>6 DEF LoadRootsFails
  <2>2. old \in Seq(Node) /\ Len(old) \in Nat
    BY <1>1 DEF Core
  <2>3. ASSUME NEW k \in 1..Len(old)
        PROVE  read(item)[k] \in Node
    <3>1. old[k] \in Node
      BY <2>2
    <3>2. \A x \in DOMAIN dbTree : dbTree[x] \in Node
      BY DEF TypeOK, IsMap
    <3> HIDE DEF old, indices
    <3>3. QED
      BY <3>1, <3>2
  <2>4. read(item) \in [1..Len(old) -> Node]
    BY <2>3
  <2>5. read(item) \in Seq(Node)
    BY <2>2, <2>4
  <2> HIDE DEF read, old
  <2>6. core' \in [Handles -> Core]
    BY <2>1, <2>5 DEF TypeOK, Core
  <2>7. QED
    BY <1>6, <2>6, ReturnType, FrameType DEF LoadRootsFails, TypeOK, dbVars
<1>7. CASE LoadRoots
  <2> DEFINE old == core[caller].roots
             indices == FullRoots(core[caller].length)
             n == RootCount(core[caller].length)
             read(junk) == [k \in 1..n |-> ReadRoot(old, indices[k], k, junk)]
  <2>1. PICK junk \in [1..n -> JunkNodes] :
          core' = [core EXCEPT ![caller].roots = read(junk),
                               ![caller].byte_length = 0]
    BY <1>7 DEF LoadRoots
  <2>2. old \in Seq(Node) /\ n \in Nat
    BY <1>1, RootCountBound DEF Core
  <2>3. ASSUME NEW k \in 1..n
        PROVE  read(junk)[k] \in Node
    <3>1. junk[k] \in Node
      BY JunkAssumption
    <3>2. \A x \in DOMAIN dbTree : dbTree[x] \in Node
      BY DEF TypeOK, IsMap
    <3>3. \A x \in DOMAIN old : old[x] \in Node
      BY <2>2
    <3> HIDE DEF old, indices, n
    <3>4. QED
      BY <3>1, <3>2, <3>3 DEF ReadRoot
  <2>4. read(junk) \in [1..n -> Node]
    BY <2>3
  <2>5. read(junk) \in Seq(Node)
    BY <2>2, <2>4
  <2> HIDE DEF read, old, n
  <2>6. core' \in [Handles -> Core]
    BY <2>1, <2>5 DEF TypeOK, Core
  <2>7. MerkleTypeOK'
    BY <1>7 DEF LoadRoots, TypeOK, MerkleTypeOK
  <2>8. QED
    BY <1>7, <2>6, <2>7, FrameType DEF LoadRoots, TypeOK, dbVars
<1>8. CASE SumRoots
  <2>1. /\ core[caller].roots \in Seq(Node) /\ core[caller].byte_length \in Nat
        /\ frame.i \in Nat
    BY <1>1 DEF Core, TypeOK, MerkleTypeOK
  <2>2. core[caller].roots[frame.i + 1] \in Node
    BY <1>8, <2>1 DEF SumRoots
  <2> DEFINE size == core[caller].roots[frame.i + 1].size
  <2>3. size \in Nat
    BY <2>2 DEF Node
  <2> HIDE DEF size
  <2>4. core[caller].byte_length + size \in Nat
    BY <2>1, <2>3
  <2>5. core' \in [Handles -> Core]
    BY <1>8, <2>4 DEF SumRoots, TypeOK, Core, size
  <2>6. frame' \in [buffers : Seq(Blocks), i : Nat, ite : Iterator]
    BY <1>8 DEF SumRoots, TypeOK, MerkleTypeOK
  <2>7. MerkleTypeOK'
    BY <1>8, <2>6 DEF SumRoots, TypeOK, MerkleTypeOK
  <2>8. QED
    BY <1>8, <2>5, <2>7, FrameType DEF SumRoots, TypeOK, dbVars
<1>9. CASE LoadReturns
  BY <1>9, ReturnType, FrameType DEF LoadReturns, SetStatus, TypeOK, dbVars
<1>10. QED
  BY <1>2, <1>3, <1>4, <1>5, <1>6, <1>7, <1>8, <1>9

(* The steps of hc_core_append.                                            *)
LEMMA AppendType ==
  ASSUME TypeOK,
         \/ GrowTree \/ QueueBatch \/ QueueBatchFails \/ Flush \/ FlushFails
         \/ Commit \/ AppendFails
  PROVE  TypeOK'
<1>1. core[caller] \in Core /\ caller \in Handles /\ MerkleTypeOK
  BY DEF TypeOK
<1>2. CASE GrowTree
  <2>1. MerkleTypeOK'
    BY <1>1, <1>2, MerkleStepType DEF GrowTree
  <2>2. pc' \in {"leaf", "merge", "appended", "failed"}
    BY <1>2 DEF GrowTree, MerkleStep, AppendNothing, ForkUpgrade, ForkFails,
                PushLeaf, RootsFull, Merge, MergeDone, LeavesDone
  <2>3. QED
    BY <1>2, <2>1, <2>2, FrameType DEF GrowTree, TypeOK
<1>3. CASE QueueBatch
  <2> DEFINE first == core[caller].length
             blocks == BlockBatch(first, frame.buffers)
             head == HeadOf(upgrade)
  <2>1. write' = [write EXCEPT !.blocks = blocks, !.head = head]
    BY <1>3 DEF QueueBatch
  <2>2. /\ first \in Nat /\ frame.buffers \in Seq(Blocks)
        /\ Len(frame.buffers) \in Nat
    BY <1>1 DEF Core, MerkleTypeOK
  <2>3. IsMap(blocks, Blocks)
    <3>1. ASSUME NEW k \in first..(first + Len(frame.buffers) - 1)
          PROVE  k \in Nat /\ k - first + 1 \in 1..Len(frame.buffers)
      <4> HIDE DEF first
      <4>1. QED
        BY <2>2
    <3>2. ASSUME NEW k \in first..(first + Len(frame.buffers) - 1)
          PROVE  frame.buffers[k - first + 1] \in Blocks
      BY <2>2, <3>1
    <3> HIDE DEF first
    <3>3. QED
      BY <3>1, <3>2 DEF IsMap, BlockBatch
  <2>4. head \in HeadRecord
    BY <1>1 DEF MerkleTypeOK, HeadRecord, HeadOf, RootHash
  <2>5. write' = [tree |-> write.tree, blocks |-> blocks, head |-> head]
    BY <1>1, <2>1 DEF MerkleTypeOK
  <2> HIDE DEF blocks, head
  <2>6. /\ write' = [tree |-> write'.tree, blocks |-> write'.blocks,
                     head |-> write'.head]
        /\ write'.tree = write.tree /\ write'.blocks = blocks
        /\ write'.head = head
    BY <2>5
  <2>7. UNCHANGED <<upgrade, frame>>
    BY <1>3 DEF QueueBatch
  <2>8. MerkleTypeOK'
    BY <1>1, <2>3, <2>4, <2>6, <2>7 DEF MerkleTypeOK
  <2>9. QED
    BY <1>3, <2>8, FrameType DEF QueueBatch, TypeOK
<1>4. CASE QueueBatchFails
  <2>1. MerkleTypeOK'
    BY <1>1, <1>4 DEF QueueBatchFails, MerkleTypeOK
  <2>2. QED
    BY <1>4, <2>1, FrameType DEF QueueBatchFails, TypeOK
<1>5. CASE Flush
  <2>1. MerkleTypeOK'
    BY <1>1, <1>5 DEF Flush, MerkleTypeOK
  <2>2. IsMap(dbTree', Node) /\ IsMap(dbBlocks', Blocks)
    BY <1>1, <1>5, PutAllType DEF Flush, TypeOK, MerkleTypeOK
  <2>3. dbHead' # NoHead => dbHead' \in HeadRecord
    BY <1>1, <1>5 DEF Flush, MerkleTypeOK
  <2>4. QED
    BY <1>5, <2>1, <2>2, <2>3 DEF Flush, TypeOK
<1>6. CASE FlushFails
  <2>1. MerkleTypeOK'
    BY <1>1, <1>6 DEF FlushFails, MerkleTypeOK
  <2>2. QED
    BY <1>6, <2>1, FrameType DEF FlushFails, TypeOK
<1>7. CASE Commit
  <2>1. [roots |-> upgrade.roots, length |-> upgrade.length,
         byte_length |-> upgrade.byte_length] \in Core
    BY <1>1 DEF MerkleTypeOK, Core
  <2>2. core' \in [Handles -> Core]
    BY <1>7, <2>1 DEF Commit, TypeOK
  <2>3. QED
    BY <1>7, <2>2, ReturnType, FrameType DEF Commit, TypeOK
<1>8. CASE AppendFails
  BY <1>8, ReturnType, FrameType DEF AppendFails, TypeOK
<1>9. QED
  BY <1>2, <1>3, <1>4, <1>5, <1>6, <1>7, <1>8

(* The steps between calls, and a crash.                                   *)
LEMMA BetweenCallsType ==
  ASSUME TypeOK,
         \/ \E h \in Handles : Open(h) \/ CallLoad(h) \/ Destroy(h)
         \/ \E h \in Handles, batch \in Batches : CallAppend(h, batch)
         \/ \E h \in Handles, length \in CheckoutLengths : Checkout(h, length)
         \/ Crash
  PROVE  TypeOK'
<1>1. MerkleTypeOK /\ IsMap(dbTree, Node) /\ IsMap(dbBlocks, Blocks)
  BY DEF TypeOK
<1>2. ASSUME NEW h \in Handles, Open(h)
      PROVE  TypeOK'
  <2>1. MerkleTypeOK'
    BY <1>1, <1>2 DEF Open, MerkleTypeOK
  <2>2. QED
    BY <1>1, <1>2, <2>1, EmptyCoreType DEF Open, SetStatus, TypeOK, dbVars
<1>3. ASSUME NEW h \in Handles, CallLoad(h)
      PROVE  TypeOK'
  <2>1. MerkleTypeOK'
    BY <1>1, <1>3 DEF CallLoad, MerkleTypeOK
  <2>2. QED
    BY <1>1, <1>3, <2>1 DEF CallLoad, SetStatus, TypeOK, dbVars
<1>4. ASSUME NEW h \in Handles, Destroy(h)
      PROVE  TypeOK'
  <2>1. MerkleTypeOK'
    BY <1>1, <1>4 DEF Destroy, MerkleTypeOK, merkleVars
  <2>2. QED
    BY <1>1, <1>4, <2>1, EmptyCoreType
       DEF Destroy, SetStatus, TypeOK, dbVars, merkleVars
<1>5. ASSUME NEW h \in Handles, NEW batch \in Batches, CallAppend(h, batch)
      PROVE  TypeOK'
  <2>1. frame' \in [buffers : Seq(Blocks), i : Nat, ite : Iterator]
    BY <1>5, BatchesAssumption, LeafIteratorType DEF CallAppend, NoFrame
  <2>2. NoUpgrade \in UpgradeType
    BY DEF NoUpgrade, UpgradeType
  <2>3. IsMap(EmptyMap, Node) /\ IsMap(EmptyMap, Blocks)
    BY DEF IsMap, EmptyMap
  <2>4. MerkleTypeOK'
    BY <1>5, <2>1, <2>2, <2>3 DEF CallAppend, MerkleTypeOK, UpgradeType, NoWrite
  <2>5. QED
    BY <1>1, <1>5, <2>4 DEF CallAppend, TypeOK, dbVars
<1>6. ASSUME NEW h \in Handles, NEW length \in CheckoutLengths,
             Checkout(h, length)
      PROVE  TypeOK'
  <2>1. length \in Nat
    BY CheckoutAssumption
  <2>2. core' \in [Handles -> Core]
    BY <1>6, <2>1 DEF Checkout, TypeOK, Core
  <2>3. MerkleTypeOK'
    BY <1>1, <1>6 DEF Checkout, MerkleTypeOK, merkleVars
  <2>4. QED
    BY <1>6, <2>2, <2>3, FrameType DEF Checkout, TypeOK, merkleVars
<1>7. CASE Crash
  <2>1. MerkleTypeOK' /\ pc' = "idle"
    BY <1>7, ReturnType DEF Crash
  <2>2. QED
    BY <1>7, <2>1, EmptyCoreType, FrameType DEF Crash, TypeOK
<1>8. QED
  BY <1>2, <1>3, <1>4, <1>5, <1>6, <1>7

(* No handle and an empty disk have their types.                           *)
LEMMA InitType ==
  ASSUME Init
  PROVE  TypeOK
<1>1. NoUpgrade \in UpgradeType
  BY DEF NoUpgrade, UpgradeType
<1>2. NoFrame \in [buffers : Seq(Blocks), i : Nat, ite : Iterator]
  BY LeafIteratorType DEF NoFrame
<1>3. IsMap(EmptyMap, Node) /\ IsMap(EmptyMap, Blocks)
  BY DEF IsMap, EmptyMap
<1>4. MerkleTypeOK
  BY <1>1, <1>2, <1>3 DEF Init, MerkleTypeOK, UpgradeType, NoWrite
<1>5. QED
  BY <1>3, <1>4, EmptyCoreType DEF Init, TypeOK

(* Every step of every call keeps the types.                                *)
LEMMA NextType ==
  ASSUME TypeOK, [Next]_vars
  PROVE  TypeOK'
<1>1. CASE UNCHANGED vars
  <2>1. MerkleTypeOK'
    BY <1>1 DEF TypeOK, MerkleTypeOK, vars, merkleVars
  <2>2. QED
    BY <1>1, <2>1, FrameType DEF TypeOK, vars, merkleVars
<1>2. CASE Next
  BY <1>2, LoadType, AppendType, BetweenCallsType DEF Next, CallStep
<1>3. QED
  BY <1>1, <1>2

(* In every state of every core, whatever its handles do and whatever      *)
(* fails, the variables have their types: in particular no flat tree index *)
(* computed in the merge loop is ever negative (uint64 arithmetic in       *)
(* src/merkle_tree.c and libflattree).                                     *)
THEOREM TypeCorrect == Spec => []TypeOK
<1>1. Init => TypeOK
  BY InitType
<1>2. TypeOK /\ [Next]_vars => TypeOK'
  BY NextType
<1>3. QED
  BY <1>1, <1>2, PTL DEF Spec
-----------------------------------------------------------------------------
(* A call that is over has no roots to hold.                               *)
LEMMA ReturnRoom ==
  ASSUME Return, NEW c
  PROVE  Room(c)'
BY MaxRootsAssumption DEF Return, Room, RootsFitCapacity, NoUpgrade

(* A step outside the merkle append keeps the room of its caller when it   *)
(* leaves the upgrade alone and no merge loop is running after it.         *)
LEMMA QuietRoom ==
  ASSUME NEW c, NEW d, Room(c), UNCHANGED upgrade,
         pc' \notin {"append", "leaf", "merge"}
  PROVE  Room(d)'
BY DEF Room, RootsFitCapacity

(* No call is running, and no core has a root.                             *)
LEMMA InitRoom ==
  ASSUME Init
  PROVE  AppendHasRoom
BY MaxRootsAssumption
   DEF Init, AppendHasRoom, Room, RootsFitCapacity, NoUpgrade, EmptyCore

(* Every step keeps the room of the append in progress, and the bound on   *)
(* the roots of every core.                                                *)
LEMMA NextRoom ==
  ASSUME TypeOK, AppendHasRoom, [Next]_vars
  PROVE  AppendHasRoom'
<1> USE DEF AppendHasRoom
<1>1. /\ core \in [Handles -> Core] /\ caller \in Handles
      /\ MerkleTypeOK /\ MaxRoots \in Nat /\ MaxDepth + 1 <= MaxRoots
  BY MaxRootsAssumption, MaxDepthAssumption DEF TypeOK
<1>2. \A h \in Handles : core[h].roots \in Seq(Node)
  BY <1>1 DEF Core
<1>3. CASE UNCHANGED vars
  BY <1>3 DEF vars, merkleVars, Room, RootsFitCapacity
<1>4. CASE LoadHeadFails \/ LoadHeadMissing \/ LoadReturns \/ AppendFails
  <2>1. Return /\ UNCHANGED <<core, caller>>
    BY <1>4 DEF LoadHeadFails, LoadHeadMissing, LoadReturns, AppendFails
  <2>2. QED
    BY <2>1, ReturnRoom
<1>5. CASE LoadEmptyHead
  <2>1. Return /\ \A h \in Handles : core'[h].roots = core[h].roots
    BY <1>1, <1>5 DEF LoadEmptyHead, Core
  <2>2. QED
    BY <2>1, ReturnRoom
<1>6. CASE LoadHead
  <2>1. \A h \in Handles : core'[h].roots = core[h].roots
    BY <1>1, <1>6 DEF LoadHead, Core
  <2>2. Room(core[caller])'
    BY <1>6, QuietRoom DEF LoadHead
  <2>3. QED
    BY <2>1, <2>2
<1>7. CASE LoadRootsFails
  <2>1. Return
    BY <1>7 DEF LoadRootsFails
  <2>2. \A h \in Handles : Len(core'[h].roots) = Len(core[h].roots)
    BY <1>1, <1>2, <1>7 DEF LoadRootsFails, Core
  <2>3. QED
    BY <2>1, <2>2, ReturnRoom
<1>8. CASE LoadRoots
  <2> DEFINE n == RootCount(core[caller].length)
  <2>1. n \in Nat /\ n <= MaxDepth + 1
    BY <1>1, RootCountBound DEF Core
  <2>2. Len(core'[caller].roots) = n
    BY <1>1, <1>8, <2>1 DEF LoadRoots, Core
  <2>3. \A h \in Handles \ {caller} : core'[h] = core[h]
    BY <1>1, <1>8 DEF LoadRoots
  <2> HIDE DEF n
  <2>4. n <= MaxRoots
    BY <1>1, <2>1, MaxDepthAssumption
  <2>5. Room(core[caller])'
    BY <1>8, QuietRoom DEF LoadRoots
  <2>6. QED
    BY <2>2, <2>3, <2>4, <2>5
<1>9. CASE SumRoots
  <2>1. \A h \in Handles : core'[h].roots = core[h].roots
    BY <1>1, <1>9 DEF SumRoots, Core
  <2>2. Room(core[caller])'
    BY <1>9, QuietRoom DEF SumRoots
  <2>3. QED
    BY <2>1, <2>2
<1>10. CASE GrowTree
  <2>1. core[caller] \in Core /\ Len(core[caller].roots) <= MaxRoots
        /\ MerkleStep(core[caller]) /\ UNCHANGED <<core, caller>>
    BY <1>1, <1>10 DEF GrowTree
  <2>2. QED
    BY <1>1, <2>1, MerkleStepRoom
<1>11. CASE QueueBatch \/ QueueBatchFails \/ Flush \/ FlushFails
  <2>1. /\ UNCHANGED <<core, caller, upgrade>>
        /\ pc' \notin {"append", "leaf", "merge"}
    BY <1>11 DEF QueueBatch, QueueBatchFails, Flush, FlushFails
  <2>2. QED
    BY <2>1, QuietRoom
<1>12. CASE Commit
  <2>1. /\ core'[caller].roots = upgrade.roots
        /\ \A h \in Handles \ {caller} : core'[h] = core[h]
    BY <1>1, <1>12 DEF Commit
  <2>2. Len(upgrade.roots) <= MaxRoots
    BY DEF Room
  <2>3. Return
    BY <1>12 DEF Commit
  <2>4. QED
    BY <2>1, <2>2, <2>3, ReturnRoom
<1>13. ASSUME NEW h \in Handles, Open(h) \/ CallLoad(h) \/ Destroy(h)
       PROVE  AppendHasRoom'
  <2>1. /\ UNCHANGED upgrade
        /\ pc' \notin {"append", "leaf", "merge"}
    BY <1>13 DEF Open, CallLoad, Destroy, merkleVars
  <2>2. \A g \in Handles : core'[g] = core[g] \/ core'[g] = EmptyCore
    BY <1>1, <1>13 DEF Open, CallLoad, Destroy
  <2>3. Len(EmptyCore.roots) <= MaxRoots
    BY <1>1 DEF EmptyCore
  <2>4. QED
    BY <2>1, <2>2, <2>3, QuietRoom
<1>14. ASSUME NEW h \in Handles, NEW batch \in Batches, CallAppend(h, batch)
       PROVE  AppendHasRoom'
  <2>1. /\ upgrade' = NoUpgrade /\ pc' = "append" /\ UNCHANGED core
    BY <1>14 DEF CallAppend
  <2>2. QED
    BY <1>1, <2>1 DEF Room, RootsFitCapacity, NoUpgrade
<1>15. ASSUME NEW h \in Handles, NEW length \in CheckoutLengths,
              Checkout(h, length)
       PROVE  AppendHasRoom'
  <2>1. \A g \in Handles : core'[g].roots = core[g].roots
    BY <1>1, <1>15 DEF Checkout, Core
  <2>2. Room(core[caller])'
    BY <1>15, QuietRoom DEF Checkout, merkleVars
  <2>3. QED
    BY <2>1, <2>2
<1>16. CASE Crash
  <2>1. Return /\ \A h \in Handles : core'[h] = EmptyCore
    BY <1>16 DEF Crash
  <2>2. Len(EmptyCore.roots) <= MaxRoots
    BY <1>1 DEF EmptyCore
  <2>3. QED
    BY <2>1, <2>2, ReturnRoom
<1>17. QED
  BY <1>3, <1>4, <1>5, <1>6, <1>7, <1>8, <1>9, <1>10, <1>11, <1>12, <1>13,
     <1>14, <1>15, <1>16 DEF Next, CallStep

(* An append always has the room it needs, and no core ever has more roots *)
(* than an array may hold.                                                 *)
THEOREM AppendAlwaysHasRoom == Spec => []AppendHasRoom
<1>1. Init => TypeOK /\ AppendHasRoom
  BY InitType, InitRoom
<1>2. (TypeOK /\ AppendHasRoom) /\ [Next]_vars => (TypeOK /\ AppendHasRoom)'
  BY NextType, NextRoom
<1>3. QED
  BY <1>1, <1>2, PTL DEF Spec

(* The array of roots never overflows in hc_core_append, however many      *)
(* blocks are appended, also behind a stale handle, a checkout or a load   *)
(* that read garbage (merkle_tree.c:17-19 and 45).                         *)
THEOREM NoRootOverflow == Spec => []RootsFitCapacity
<1>1. AppendHasRoom => RootsFitCapacity
  BY DEF AppendHasRoom, Room
<1>2. QED
  BY <1>1, AppendAlwaysHasRoom, PTL

-----------------------------------------------------------------------------
(* What the proofs below need of the types.                                *)
LEMMA CallerType ==
  ASSUME TypeOK
  PROVE  /\ core[caller] \in Core /\ caller \in Handles
         /\ core[caller].length \in Nat
         /\ DOMAIN core = Handles /\ DOMAIN status = Handles
         /\ upgrade.length \in Nat /\ frame.i \in Nat
         /\ frame.buffers \in Seq(Blocks) /\ Len(frame.buffers) \in Nat
         /\ MerkleTypeOK
BY DEF TypeOK, MerkleTypeOK, Core

(* The head that an append queues is a head record.                        *)
LEMMA HeadOfUpgrade ==
  ASSUME MerkleTypeOK
  PROVE  /\ HeadOf(upgrade) \in HeadRecord /\ HeadOf(upgrade) # NoHead
         /\ HeadOf(upgrade).length = upgrade.length
         /\ HeadOf(upgrade).root_hash = upgrade.roots
BY NoHeadAssumption DEF HeadOf, RootHash, HeadRecord, MerkleTypeOK

(* One step of hc_merkle_tree_append counts at most one leaf.              *)
LEMMA GrowTreeCounts ==
  ASSUME TypeOK, AppendCounts, <<>> \notin Batches, GrowTree
  PROVE  AppendCounts'
<1> DEFINE base == core[caller].length
           count == Len(frame.buffers)
<1>1. /\ base \in Nat /\ upgrade.length \in Nat /\ frame.i \in Nat
      /\ count \in Nat
  BY CallerType
<1>2. /\ pc \in Appending /\ status[caller] = "open"
      /\ frame.buffers \in Batches /\ frame.buffers # <<>>
  BY DEF AppendCounts, Appending, GrowTree, MerkleStep, AppendNothing,
         ForkUpgrade, ForkFails, PushLeaf, RootsFull, Merge, MergeDone, LeavesDone
<1>3. /\ UNCHANGED <<core, caller, status>>
      /\ frame'.buffers = frame.buffers
      /\ pc' \in {"leaf", "merge", "appended", "failed"}
  BY <1>2 DEF GrowTree, TypeOK, MerkleTypeOK, MerkleStep, AppendNothing, ForkUpgrade,
              ForkFails, PushLeaf, RootsFull, Merge, MergeDone, LeavesDone
<1>4. /\ pc' = "leaf" =>
           frame'.i <= count /\ upgrade'.length = base + frame'.i
      /\ pc' = "merge" =>
           frame'.i < count /\ upgrade'.length = base + frame'.i + 1
      /\ pc' = "appended" => upgrade'.length = base + count
  <2>1. /\ pc = "append" => frame.i = 0 /\ ~upgrade.forked
        /\ pc = "leaf" => frame.i <= count /\ upgrade.length = base + frame.i
        /\ pc = "merge" =>
             frame.i < count /\ upgrade.length = base + frame.i + 1
    BY DEF AppendCounts
  <2>2. CASE AppendNothing
    BY <1>2, <2>2 DEF AppendNothing
  <2>3. CASE ForkUpgrade(core[caller])
    <3>1. upgrade'.length = base
      BY <1>1, <2>1, <2>3 DEF ForkUpgrade, ForkedFrom
    <3>2. QED
      BY <1>1, <2>1, <2>3, <3>1 DEF ForkUpgrade
  <2>4. CASE ForkFails(core[caller]) \/ RootsFull
    BY <2>4 DEF ForkFails, RootsFull
  <2>5. CASE PushLeaf
    <3>1. /\ upgrade'.length = upgrade.length + 1 /\ frame'.i = frame.i
          /\ pc = "leaf" /\ frame.i < count
          /\ pc' \in {"merge", "failed"}
      BY <2>5 DEF PushLeaf, TypeOK, MerkleTypeOK
    <3> HIDE DEF base, count
    <3>2. QED
      BY <1>1, <2>1, <3>1
  <2>6. CASE Merge
    <3>1. /\ upgrade'.length = upgrade.length /\ frame'.i = frame.i
          /\ pc = "merge" /\ pc' \in {"merge", "failed"}
      BY <2>6 DEF Merge, TypeOK, MerkleTypeOK
    <3>2. QED
      BY <1>1, <2>1, <3>1
  <2>7. CASE MergeDone
    <3>1. /\ upgrade'.length = upgrade.length /\ frame'.i = frame.i + 1
          /\ pc = "merge" /\ pc' = "leaf"
      BY <2>7 DEF MergeDone, TypeOK, MerkleTypeOK
    <3> HIDE DEF base, count
    <3>2. QED
      BY <1>1, <2>1, <3>1
  <2>8. CASE LeavesDone
    <3>1. /\ upgrade'.length = upgrade.length /\ pc = "leaf"
          /\ pc' = "appended" /\ frame.i >= count
      BY <2>8 DEF LeavesDone
    <3> HIDE DEF base, count
    <3>2. QED
      BY <1>1, <2>1, <3>1
  <2>9. QED
    BY <2>2, <2>3, <2>4, <2>5, <2>6, <2>7, <2>8 DEF GrowTree, MerkleStep
<1>5. QED
  BY <1>2, <1>3, <1>4 DEF AppendCounts, Appending

(* Every step keeps the counts.                                            *)
LEMMA NextCounts ==
  ASSUME TypeOK, AppendCounts, <<>> \notin Batches, [Next]_vars
  PROVE  AppendCounts'
<1>1. /\ core[caller] \in Core /\ caller \in Handles
      /\ DOMAIN status = Handles /\ MerkleTypeOK
  BY CallerType
<1>2. CASE UNCHANGED vars
  BY <1>2 DEF vars, merkleVars, dbVars, AppendCounts, DurableLength
<1>3. CASE pc' \notin Appending
  BY <1>3 DEF AppendCounts, Appending
<1>4. CASE \/ LoadHeadFails \/ LoadHeadMissing \/ LoadEmptyHead \/ LoadHead
           \/ LoadRootsFails \/ LoadRoots \/ SumRoots \/ LoadReturns
           \/ Commit \/ AppendFails \/ Crash
           \/ \E h \in Handles : Open(h) \/ CallLoad(h) \/ Destroy(h)
           \/ \E h \in Handles, length \in CheckoutLengths : Checkout(h, length)
  <2>1. pc' \notin Appending
    BY <1>4
       DEF Appending, LoadHeadFails, LoadHeadMissing, LoadEmptyHead, LoadHead,
           LoadRootsFails, LoadRoots, SumRoots, LoadReturns, Commit,
           AppendFails, Crash, Open, CallLoad, Destroy, Checkout, Return,
           merkleVars
  <2>2. QED
    BY <1>3, <2>1
<1>5. CASE GrowTree
  BY <1>5, GrowTreeCounts
<1>6. CASE QueueBatch
  <2>1. /\ UNCHANGED <<core, caller, status, frame, upgrade>>
        /\ pc = "appended" /\ pc' = "flush"
    BY <1>6 DEF QueueBatch
  <2>2. /\ write'.blocks = BlockBatch(core[caller].length, frame.buffers)
        /\ write'.head = HeadOf(upgrade)
    BY <1>1, <1>6 DEF QueueBatch, MerkleTypeOK
  <2>3. QED
    BY <2>1, <2>2 DEF AppendCounts, Appending
<1>7. CASE QueueBatchFails \/ FlushFails
  <2>1. /\ UNCHANGED <<caller, status, frame>>
        /\ pc \in Appending /\ pc' = "failed"
    BY <1>7 DEF QueueBatchFails, FlushFails, Appending
  <2>2. QED
    BY <2>1 DEF AppendCounts, Appending
<1>8. CASE Flush
  <2>1. /\ UNCHANGED <<core, caller, status, frame, upgrade>>
        /\ pc = "flush" /\ pc' = "commit" /\ dbHead' = write.head
    BY <1>8 DEF Flush
  <2>2. dbHead' = HeadOf(upgrade)
    BY <2>1 DEF AppendCounts
  <2>3. dbHead' # NoHead /\ DurableLength' = upgrade.length
    BY <1>1, <2>2, HeadOfUpgrade DEF DurableLength
  <2>4. QED
    BY <2>1, <2>3 DEF AppendCounts, Appending
<1>9. ASSUME NEW h \in Handles, NEW batch \in Batches, CallAppend(h, batch)
      PROVE  AppendCounts'
  <2>1. /\ status'[caller'] = "open" /\ pc' = "append"
        /\ frame'.buffers = batch /\ frame'.i = 0 /\ ~upgrade'.forked
    BY <1>9 DEF CallAppend, NoFrame, NoUpgrade
  <2>2. QED
    BY <2>1 DEF AppendCounts, Appending
<1>10. QED
  BY <1>2, <1>4, <1>5, <1>6, <1>7, <1>8, <1>9 DEF Next, CallStep

-----------------------------------------------------------------------------
(* The use of the cores that their trees are promised for: no checkout, no *)
(* empty batch, and as many roots as there are depths (64, as a length is  *)
(* a 64 bit number).  Any number of handles, stale or not, may append.     *)
PlainUse ==
  CheckoutLengths = {} /\ <<>> \notin Batches /\ MaxRoots = MaxDepth + 1

(* The first n blocks are stored, and the complete subtrees over them.     *)
Backed(n) ==
  /\ 0..n - 1 \subseteq DOMAIN dbBlocks
  /\ StandAll(IndexedNodes, dbTree, Subtrees(n))

DiskStands ==
  /\ dbHead = NoHead => \A h \in Handles : core[h] = EmptyCore
  /\ dbHead # NoHead => /\ dbHead.length > 0
                        /\ LengthInRange(dbHead.length)
                        /\ Backed(dbHead.length)

HandlesStand ==
  \A h \in Handles :
    status[h] = "open" =>
      CoreFits(IndexedNodes, core[h]) /\ Backed(core[h].length)

LoadStands ==
  LET c == core[caller] IN
  /\ pc \in {"load_head", "load_roots", "sum"} => status[caller] = "unloaded"
  /\ pc \notin Appending => ~upgrade.forked /\ write.tree = EmptyMap
  /\ pc \in {"idle", "load_head", "load_roots"} => frame.i = 0
  /\ pc \in {"load_roots", "sum"} =>
       dbHead # NoHead /\ c.length = dbHead.length
  /\ pc = "sum" =>
       /\ RootsFit(IndexedNodes, c.roots, c.length)
       /\ frame.i <= Len(c.roots)
       /\ c.byte_length = Total(SizesOf(SubSeq(c.roots, 1, frame.i)))

AppendStands ==
  /\ Growing(IndexedNodes, core[caller])
  /\ pc = "commit" =>
       CoreFits(IndexedNodes, upgrade) /\ Backed(upgrade.length)

(* With TypeOK and AppendCounts this is inductive under PlainUse: every    *)
(* open handle's length, however old, is one whose subtrees are stored, as *)
(* nodes are overwritten but never removed.                                *)
TreesInv ==
  DiskStands /\ HandlesStand /\ LoadStands /\ AppendStands

(* A core without blocks fits, and nothing need be stored for it.          *)
LEMMA EmptyStands ==
  CoreFits(IndexedNodes, EmptyCore) /\ Backed(EmptyCore.length)
<1>1. EmptyCore.roots = <<>> /\ EmptyCore.length = 0 /\ EmptyCore.byte_length = 0
  BY DEF EmptyCore
<1>2. LengthInRange(0)
  <2>1. MaxDepth + 1 \in Nat
    BY MaxDepthAssumption
  <2>2. 2^(MaxDepth + 1) \in Nat /\ 2^(MaxDepth + 1) > 0
    BY <2>1, PowerGrows
  <2>3. QED
    BY <2>2 DEF LengthInRange
<1>3. Total(SizesOf(<<>>)) = 0
  <2>1. SizesOf(<<>>) = <<>>
    BY DEF SizesOf
  <2>2. QED
    BY <2>1, TotalEmpty
<1>4. RootsFit(IndexedNodes, <<>>, 0)
  BY RootsOfNone DEF RootsFit
<1>5. Subtrees(0) = {}
  <2>1. ASSUME NEW place \in Subtrees(0)
        PROVE  FALSE
    <3>1. place[1] \in Nat /\ place[2] \in Nat /\ place[1] + 2^place[2] <= 0
      BY PlaceIs
    <3>2. 2^place[2] \in Nat /\ 2^place[2] > 0
      BY <3>1, PowerGrows
    <3>3. QED
      BY <3>1, <3>2
  <2>2. QED
    BY <2>1
<1>6. Backed(0)
  BY <1>5 DEF Backed, StandAll
<1>7. QED
  BY <1>1, <1>2, <1>3, <1>4, <1>6 DEF CoreFits

(* Handles that change are closed, or fit what is stored.                  *)
LEMMA HandlesStay ==
  ASSUME HandlesStand, UNCHANGED <<dbTree, dbBlocks>>,
         \A h \in Handles : status'[h] = "open" =>
           \/ status[h] = "open" /\ core'[h] = core[h]
           \/ CoreFits(IndexedNodes, core'[h]) /\ Backed(core'[h].length)
  PROVE  HandlesStand'
BY DEF HandlesStand, Backed

(* A disk that stays as it is, and has a head or no core in memory.        *)
LEMMA DiskStays ==
  ASSUME DiskStands, UNCHANGED dbVars,
         \A h \in Handles : core'[h] \in {core[h], EmptyCore} \/ dbHead # NoHead
  PROVE  DiskStands'
BY DEF DiskStands, Backed, dbVars

(* Outside of an append there is nothing to say of the upgrade.            *)
LEMMA QuietGrowing ==
  ASSUME NEW nodes, NEW c, ~upgrade'.forked, write'.tree = EmptyMap,
         pc' \in {"idle", "load_head", "load_roots", "sum", "append"}
  PROVE  Growing(nodes, c)'
BY DEF Growing

(* When a call is over.                                                    *)
LEMMA ReturnTrees ==
  ASSUME Return
  PROVE  LoadStands' /\ AppendStands'
<1>1. /\ pc' = "idle" /\ ~upgrade'.forked /\ write'.tree = EmptyMap
      /\ frame'.i = 0
  BY DEF Return, NoUpgrade, NoWrite, NoFrame
<1>2. LoadStands'
  BY <1>1 DEF LoadStands, Appending
<1>3. AppendStands'
  BY <1>1, QuietGrowing DEF AppendStands
<1>4. QED
  BY <1>2, <1>3

(* The roots that hc_core_load reads are all stored.                       *)
LEMMA LoadRootsTrees ==
  ASSUME TypeOK, TreesInv, LoadRoots
  PROVE  TreesInv'
<1> DEFINE n == core[caller].length
           old == core[caller].roots
           indices == FullRoots(n)
           read(junk) == [k \in 1..RootCount(n) |->
                            ReadRoot(old, indices[k], k, junk)]
<1>1. /\ core[caller] \in Core /\ caller \in Handles /\ n \in Nat
      /\ DOMAIN core = Handles
  BY CallerType
<1>2. /\ pc = "load_roots" /\ pc' = "sum" /\ dbHead # NoHead
      /\ n = dbHead.length /\ status[caller] = "unloaded" /\ frame.i = 0
      /\ ~upgrade.forked /\ write.tree = EmptyMap
      /\ UNCHANGED <<dbVars, status, caller, upgrade, write, frame>>
  BY DEF LoadRoots, TreesInv, LoadStands, Appending
<1>3. PICK junk \in [1..RootCount(n) -> JunkNodes] :
        core' = [core EXCEPT ![caller].roots = read(junk),
                             ![caller].byte_length = 0]
  BY DEF LoadRoots
<1>4. RootsFit(IndexedNodes, read(junk), n)
  <2>1. StandAll(IndexedNodes, dbTree, Subtrees(n))
    BY <1>2 DEF TreesInv, DiskStands, Backed
  <2>2. RootCount(n) \in Nat
    BY <1>1, RootCountBound
  <2>3. Len(read(junk)) = RootCount(n)
    BY <2>2
  <2>4. ASSUME NEW k \in 1..RootCount(n)
        PROVE  read(junk)[k] \in IndexedNodes[<<RootStart(n, k), RootDepth(n, k)>>]
    <3> DEFINE place == <<RootStart(n, k), RootDepth(n, k)>>
    <3>1. Stands(IndexedNodes, dbTree, place)
      BY <1>1, <2>1, RootIsSubtree DEF StandAll
    <3>2. indices[k] = NodeIndex(place[1], place[2])
      BY DEF FullRoots
    <3>3. indices[k] \in DOMAIN dbTree /\ dbTree[indices[k]] \in IndexedNodes[place]
      BY <3>1, <3>2 DEF Stands
    <3> HIDE DEF indices, old, place
    <3>4. ReadRoot(old, indices[k], k, junk) = dbTree[indices[k]]
      BY <3>3 DEF ReadRoot
    <3>5. QED
      BY <3>3, <3>4 DEF place
  <2> HIDE DEF read
  <2>5. QED
    BY <2>3, <2>4 DEF RootsFit
<1> HIDE DEF read
<1>5. /\ core'[caller].roots = read(junk) /\ core'[caller].length = n
      /\ core'[caller].byte_length = 0
      /\ \A h \in Handles \ {caller} : core'[h] = core[h]
  BY <1>1, <1>3 DEF Core
<1>6. DiskStands'
  BY <1>2, DiskStays DEF TreesInv
<1>7. HandlesStand'
  BY <1>2, <1>5, HandlesStay DEF TreesInv, dbVars
<1>8. LoadStands'
  <2>1. Total(SizesOf(SubSeq(read(junk), 1, 0))) = 0
    <3>1. SubSeq(read(junk), 1, 0) = <<>>
      OBVIOUS
    <3>2. SizesOf(<<>>) = <<>>
      BY DEF SizesOf
    <3>3. QED
      BY <3>1, <3>2, TotalEmpty
  <2>2. Len(read(junk)) >= 0
    BY <1>1, <1>4, RootCountBound DEF RootsFit
  <2> HIDE DEF n
  <2>3. QED
    BY <1>2, <1>4, <1>5, <2>1, <2>2 DEF LoadStands, Appending, dbVars
<1>9. AppendStands'
  BY <1>2, QuietGrowing DEF AppendStands
<1>10. QED
  BY <1>6, <1>7, <1>8, <1>9 DEF TreesInv

(* Their sizes are added one after the other.                              *)
LEMMA SumRootsTrees ==
  ASSUME TypeOK, TreesInv, SumRoots
  PROVE  TreesInv'
<1> DEFINE roots == core[caller].roots
           i == frame.i
<1>1. /\ core[caller] \in Core /\ caller \in Handles
      /\ DOMAIN core = Handles
      /\ roots \in Seq(Node) /\ i \in Nat /\ MerkleTypeOK
  BY CallerType DEF Core
<1>2. /\ pc = "sum" /\ dbHead # NoHead /\ i < Len(roots)
      /\ status[caller] = "unloaded"
      /\ core[caller].length = dbHead.length
      /\ RootsFit(IndexedNodes, roots, core[caller].length)
      /\ core[caller].byte_length = Total(SizesOf(SubSeq(roots, 1, i)))
      /\ ~upgrade.forked /\ write.tree = EmptyMap
      /\ UNCHANGED <<dbVars, status, caller, upgrade, write, pc>>
  BY DEF SumRoots, TreesInv, LoadStands, Appending
<1>3. /\ core'[caller].roots = roots
      /\ core'[caller].length = core[caller].length
      /\ core'[caller].byte_length = core[caller].byte_length + roots[i + 1].size
      /\ \A h \in Handles \ {caller} : core'[h] = core[h]
      /\ frame'.i = i + 1
  BY <1>1 DEF SumRoots, Core, MerkleTypeOK
<1> HIDE DEF roots, i
<1>4. core'[caller].byte_length = Total(SizesOf(SubSeq(roots, 1, i + 1)))
  <2>1. i + 1 \in 1..Len(roots) /\ roots[i + 1] \in Node
    BY <1>1, <1>2
  <2>2. SubSeq(roots, 1, i) \in Seq(Node)
    BY <1>1, <1>2
  <2>3. SubSeq(roots, 1, i + 1) = Append(SubSeq(roots, 1, i), roots[i + 1])
    BY <1>1, <2>1
  <2>4. QED
    BY <1>2, <1>3, <2>1, <2>2, <2>3, SizesAppend
<1>5. DiskStands'
  BY <1>2, DiskStays DEF TreesInv
<1>6. HandlesStand'
  BY <1>2, <1>3, HandlesStay DEF TreesInv, dbVars
<1>7. LoadStands'
  <2>1. i + 1 <= Len(roots)
    BY <1>1, <1>2
  <2>2. QED
    BY <1>2, <1>3, <1>4, <2>1 DEF LoadStands, Appending, dbVars
<1>8. AppendStands'
  BY <1>2, QuietGrowing DEF AppendStands
<1>9. QED
  BY <1>5, <1>6, <1>7, <1>8 DEF TreesInv

(* A load that returns leaves a core with the trees of its length.         *)
LEMMA LoadTrees ==
  ASSUME TypeOK, TreesInv,
         \/ LoadHeadFails \/ LoadHeadMissing \/ LoadEmptyHead \/ LoadHead
         \/ LoadRootsFails \/ LoadRoots \/ SumRoots \/ LoadReturns
  PROVE  TreesInv'
<1>1. /\ core[caller] \in Core /\ caller \in Handles
      /\ DOMAIN core = Handles /\ DOMAIN status = Handles
      /\ core[caller].roots \in Seq(Node) /\ frame.i \in Nat
  BY CallerType DEF Core
<1>2. CASE LoadHeadFails
  <2>1. /\ Return /\ UNCHANGED <<dbVars, core, status>>
    BY <1>2 DEF LoadHeadFails
  <2>2. QED
    BY <2>1, ReturnTrees, DiskStays, HandlesStay DEF TreesInv, dbVars
<1>3. CASE LoadHeadMissing
  <2>1. /\ Return /\ UNCHANGED <<dbVars, core>>
        /\ \A h \in Handles : core[h] = EmptyCore
    BY <1>3 DEF LoadHeadMissing, TreesInv, DiskStands
  <2>2. HandlesStand'
    BY <2>1, HandlesStay, EmptyStands DEF TreesInv, dbVars
  <2>3. QED
    BY <2>1, <2>2, ReturnTrees, DiskStays DEF TreesInv
<1>4. CASE LoadEmptyHead
  <2>1. dbHead # NoHead /\ dbHead.length = 0
    BY <1>4 DEF LoadEmptyHead
  <2>2. QED
    BY <2>1 DEF TreesInv, DiskStands
<1>5. CASE LoadHead
  <2>1. /\ pc = "load_head" /\ pc' = "load_roots" /\ dbHead # NoHead
        /\ UNCHANGED <<dbVars, status, caller, upgrade, write, frame>>
        /\ status[caller] = "unloaded" /\ frame.i = 0
        /\ ~upgrade.forked /\ write.tree = EmptyMap
    BY <1>5 DEF LoadHead, TreesInv, LoadStands, Appending
  <2>2. /\ core'[caller].length = dbHead.length
        /\ \A h \in Handles \ {caller} : core'[h] = core[h]
    BY <1>1, <1>5 DEF LoadHead
  <2>3. HandlesStand'
    BY <2>1, <2>2, HandlesStay DEF TreesInv, dbVars
  <2>4. LoadStands'
    BY <2>1, <2>2 DEF LoadStands, Appending, dbVars
  <2>5. AppendStands'
    BY <2>1, QuietGrowing DEF AppendStands
  <2>6. QED
    BY <2>1, <2>3, <2>4, <2>5, DiskStays DEF TreesInv
<1>6. CASE LoadRootsFails
  <2>1. /\ Return /\ UNCHANGED <<dbVars, status>>
        /\ dbHead # NoHead /\ status[caller] = "unloaded"
    BY <1>6 DEF LoadRootsFails, TreesInv, LoadStands
  <2>2. \A h \in Handles \ {caller} : core'[h] = core[h]
    BY <1>1, <1>6 DEF LoadRootsFails
  <2>3. HandlesStand'
    BY <2>1, <2>2, HandlesStay DEF TreesInv, dbVars
  <2>4. QED
    BY <2>1, <2>3, ReturnTrees, DiskStays DEF TreesInv
<1>7. CASE LoadRoots
  BY <1>7, LoadRootsTrees
<1>8. CASE SumRoots
  BY <1>8, SumRootsTrees
<1>9. CASE LoadReturns
  <2> DEFINE roots == core[caller].roots
  <2>1. /\ Return /\ UNCHANGED <<dbVars, core>>
        /\ pc = "sum" /\ dbHead # NoHead /\ frame.i >= Len(roots)
        /\ \A h \in Handles \ {caller} : status'[h] = status[h]
    BY <1>1, <1>9 DEF LoadReturns, SetStatus, TreesInv, LoadStands
  <2>2. /\ core[caller].length = dbHead.length
        /\ RootsFit(IndexedNodes, roots, core[caller].length)
        /\ frame.i <= Len(roots)
        /\ core[caller].byte_length = Total(SizesOf(SubSeq(roots, 1, frame.i)))
        /\ LengthInRange(dbHead.length) /\ Backed(dbHead.length)
    BY <2>1 DEF TreesInv, LoadStands, DiskStands
  <2> HIDE DEF roots
  <2>3. SubSeq(roots, 1, frame.i) = roots
    <3>1. roots \in Seq(Node) /\ Len(roots) \in Nat
      BY <1>1 DEF roots
    <3>2. frame.i = Len(roots)
      BY <1>1, <2>1, <2>2, <3>1
    <3>3. QED
      BY <3>1, <3>2, SubSeqFull
  <2>4. CoreFits(IndexedNodes, core[caller]) /\ Backed(core[caller].length)
    BY <2>2, <2>3 DEF CoreFits, roots
  <2>5. HandlesStand'
    BY <2>1, <2>4, HandlesStay DEF TreesInv, dbVars
  <2>6. QED
    BY <2>1, <2>5, ReturnTrees, DiskStays DEF TreesInv
<1>10. QED
  BY <1>2, <1>3, <1>4, <1>5, <1>6, <1>7, <1>8, <1>9

(* A step of hc_merkle_tree_append; what is stored and open stays.         *)
LEMMA GrowTreeTrees ==
  ASSUME TypeOK, AppendCounts, PlainUse, TreesInv, GrowTree
  PROVE  TreesInv'
<1> DEFINE c == core[caller]
<1>1. /\ c \in Core /\ caller \in Handles /\ MerkleTypeOK
      /\ upgrade.length \in Nat /\ frame.i \in Nat
      /\ frame.buffers \in Seq(Blocks) /\ Len(frame.buffers) \in Nat
  BY CallerType
<1>2. /\ MerkleStep(c) /\ UNCHANGED <<dbVars, core, status, caller>>
  BY DEF GrowTree
<1>3. /\ pc \in Appending /\ pc' \in {"leaf", "merge", "appended", "failed"}
      /\ status[caller] = "open"
  BY <1>2 DEF AppendCounts, Appending, MerkleStep, AppendNothing, ForkUpgrade,
              ForkFails, PushLeaf, RootsFull, Merge, MergeDone, LeavesDone
<1>4. CoreFits(IndexedNodes, c) /\ Growing(IndexedNodes, c)
  BY <1>1, <1>3 DEF TreesInv, HandlesStand, AppendStands
<1>5. pc = "leaf" /\ frame.i < Len(frame.buffers) =>
        LeafNode(2 * upgrade.length, frame.buffers[frame.i + 1])
          \in IndexedNodes[<<upgrade.length, 0>>]
  <2>1. frame.i < Len(frame.buffers) => frame.buffers[frame.i + 1] \in Blocks
    BY <1>1
  <2>2. QED
    BY <1>1, <2>1, LeafFits
<1>6. Growing(IndexedNodes, c)'
  <2>1. IsNodeMap(IndexedNodes, upgrade.length)
    BY IndexedNodeMap
  <2>2. MaxRoots = MaxDepth + 1
    BY DEF PlainUse
  <2>3. pc = "merge" => upgrade.length <= upgrade.length
    BY <1>1
  <2> HIDE DEF c
  <2>4. ASSUME NEW d, d = c
        PROVE  Growing(IndexedNodes, d)'
    BY <1>1, <1>2, <1>4, <1>5, <2>1, <2>2, <2>3, <2>4, MerkleStepGrowing
  <2>5. c' = c
    BY <1>2 DEF c
  <2>6. QED
    BY <2>4, <2>5
<1>7. DiskStands' /\ HandlesStand'
  BY <1>2, DiskStays, HandlesStay DEF TreesInv, dbVars
<1>8. LoadStands'
  BY <1>3 DEF LoadStands, Appending
<1>9. QED
  BY <1>3, <1>6, <1>7, <1>8 DEF TreesInv, AppendStands

(* The write of an append stores every block and subtree of its length,    *)
(* and takes none from another length.                                     *)
LEMMA FlushTrees ==
  ASSUME TypeOK, AppendCounts, PlainUse, TreesInv, Flush
  PROVE  TreesInv'
<1> DEFINE c == core[caller]
           n == upgrade.length
           count == Len(frame.buffers)
<1>1. /\ c \in Core /\ caller \in Handles /\ MerkleTypeOK
      /\ c.length \in Nat /\ n \in Nat /\ count \in Nat
      /\ frame.buffers \in Seq(Blocks)
  BY CallerType
<1>2. /\ pc = "flush" /\ pc' = "commit"
      /\ dbTree' = PutAll(dbTree, write.tree)
      /\ dbBlocks' = PutAll(dbBlocks, write.blocks)
      /\ dbHead' = write.head
      /\ UNCHANGED <<core, status, caller, upgrade, write, frame>>
  BY DEF Flush
<1>3. /\ status[caller] = "open" /\ frame.buffers # <<>>
      /\ n = c.length + count
      /\ write.blocks = BlockBatch(c.length, frame.buffers)
      /\ write.head = HeadOf(upgrade)
  BY <1>2 DEF AppendCounts, Appending, PlainUse
<1>4. dbHead' # NoHead /\ dbHead'.length = n /\ n > 0
  <2>1. count > 0
    BY <1>1, <1>3
  <2> HIDE DEF n, count, c
  <2>2. n > 0
    BY <1>1, <1>3, <2>1
  <2>3. QED
    BY <1>1, <1>2, <1>3, <2>2, HeadOfUpgrade DEF n
<1>5. Grown(IndexedNodes, c.length) /\ upgrade.forked
  BY <1>2, <1>3 DEF TreesInv, AppendStands, Growing
<1>6. /\ LengthInRange(n) /\ CoreFits(IndexedNodes, upgrade)
      /\ WritesFit(IndexedNodes, write.tree, n)
      /\ StandAll(IndexedNodes, write.tree, Subtrees(n) \ Subtrees(c.length))
  BY <1>5 DEF Grown, CoreFits
<1>7. ASSUME NEW m \in Nat, Backed(m)
      PROVE  Backed(m)'
  <2>1. 0..m - 1 \subseteq DOMAIN dbBlocks'
    BY <1>2, <1>7 DEF Backed, PutAll
  <2>2. ASSUME NEW place \in Subtrees(m)
        PROVE  Stands(IndexedNodes, dbTree', place)
    BY <1>1, <1>2, <1>6, <1>7, PutAllStands DEF Backed, StandAll
  <2>3. QED
    BY <2>1, <2>2 DEF Backed, StandAll
<1>8. Backed(n)'
  <2>1. Backed(c.length)
    BY <1>1, <1>3 DEF TreesInv, HandlesStand
  <2>2. StandAll(IndexedNodes, dbTree', Subtrees(n))
    BY <1>1, <1>2, <1>6, <2>1, FlushStands DEF Backed
  <2>3. DOMAIN dbBlocks' = DOMAIN dbBlocks \cup (c.length..c.length + count - 1)
    BY <1>2, <1>3 DEF PutAll, BlockBatch
  <2>4. 0..c.length - 1 \subseteq DOMAIN dbBlocks
    BY <2>1 DEF Backed
  <2>5. n' = n
    BY <1>2
  <2>6. 0..n - 1 \subseteq DOMAIN dbBlocks'
    <3> HIDE DEF n, count, c
    <3>1. QED
      BY <1>1, <1>3, <2>3, <2>4
  <2> HIDE DEF n
  <2>7. QED
    BY <2>2, <2>5, <2>6 DEF Backed
<1>9. DiskStands'
  BY <1>2, <1>4, <1>6, <1>8 DEF DiskStands
<1>10. HandlesStand'
  <2>1. \A h \in Handles : core[h].length \in Nat
    BY DEF TypeOK, Core
  <2>2. ASSUME NEW h \in Handles, status[h] = "open"
        PROVE  CoreFits(IndexedNodes, core[h]) /\ Backed(core[h].length)'
    <3>1. CoreFits(IndexedNodes, core[h]) /\ Backed(core[h].length)
      BY <2>2 DEF TreesInv, HandlesStand
    <3>2. core[h]' = core[h]
      BY <1>2
    <3>3. QED
      BY <1>7, <2>1, <3>1, <3>2
  <2>3. QED
    BY <1>2, <2>2 DEF HandlesStand
<1>11. LoadStands'
  BY <1>2 DEF LoadStands, Appending
<1>12. AppendStands'
  BY <1>2, <1>5, <1>6, <1>8 DEF AppendStands, Growing
<1>13. QED
  BY <1>9, <1>10, <1>11, <1>12 DEF TreesInv

(* The steps of hc_core_append.                                            *)
LEMMA AppendTrees ==
  ASSUME TypeOK, AppendCounts, PlainUse, TreesInv,
         \/ GrowTree \/ QueueBatch \/ QueueBatchFails \/ Flush \/ FlushFails
         \/ Commit \/ AppendFails
  PROVE  TreesInv'
<1>1. /\ caller \in Handles /\ DOMAIN core = Handles /\ MerkleTypeOK
  BY CallerType
<1>2. CASE GrowTree
  BY <1>2, GrowTreeTrees
<1>3. CASE QueueBatch
  <2>1. /\ pc = "appended" /\ pc' = "flush"
        /\ UNCHANGED <<dbVars, core, status, caller, upgrade, frame>>
        /\ write'.tree = write.tree
    BY <1>1, <1>3 DEF QueueBatch, MerkleTypeOK
  <2>2. Growing(IndexedNodes, core[caller])
    BY DEF TreesInv, AppendStands
  <2>3. ASSUME NEW c, c = core[caller]
        PROVE  Growing(IndexedNodes, c)'
    BY <2>1, <2>2, <2>3, SameGrown DEF Growing
  <2>4. core[caller]' = core[caller]
    BY <2>1
  <2>5. AppendStands'
    BY <2>1, <2>3, <2>4 DEF AppendStands
  <2>6. LoadStands'
    BY <2>1 DEF LoadStands, Appending
  <2>7. QED
    BY <2>1, <2>5, <2>6, DiskStays, HandlesStay DEF TreesInv, dbVars
<1>4. CASE QueueBatchFails \/ FlushFails
  <2>1. /\ pc' = "failed" /\ UNCHANGED <<dbVars, core, status, caller>>
    BY <1>4 DEF QueueBatchFails, FlushFails
  <2>2. AppendStands' /\ LoadStands'
    BY <2>1 DEF AppendStands, Growing, LoadStands, Appending
  <2>3. QED
    BY <2>1, <2>2, DiskStays, HandlesStay DEF TreesInv, dbVars
<1>5. CASE Flush
  BY <1>5, FlushTrees
<1>6. CASE Commit
  <2>1. /\ Return /\ UNCHANGED <<dbVars, status>> /\ pc = "commit"
        /\ core'[caller] = [roots |-> upgrade.roots, length |-> upgrade.length,
                            byte_length |-> upgrade.byte_length]
        /\ \A h \in Handles \ {caller} : core'[h] = core[h]
    BY <1>1, <1>6 DEF Commit
  <2>2. dbHead # NoHead
    BY <2>1 DEF AppendCounts
  <2>3. CoreFits(IndexedNodes, upgrade) /\ Backed(upgrade.length)
    BY <2>1 DEF TreesInv, AppendStands
  <2>4. CoreFits(IndexedNodes, core'[caller]) /\ Backed(core'[caller].length)
    BY <2>1, <2>3 DEF CoreFits
  <2>5. HandlesStand'
    BY <2>1, <2>4, HandlesStay DEF TreesInv, dbVars
  <2>6. QED
    BY <2>1, <2>2, <2>5, DiskStays, ReturnTrees DEF TreesInv
<1>7. CASE AppendFails
  <2>1. Return /\ UNCHANGED <<dbVars, core, status, caller>>
    BY <1>7 DEF AppendFails
  <2>2. QED
    BY <2>1, ReturnTrees, DiskStays, HandlesStay DEF TreesInv, dbVars
<1>8. QED
  BY <1>2, <1>3, <1>4, <1>5, <1>6, <1>7

(* Between calls, and in a crash.                                          *)
LEMMA BetweenCallsTrees ==
  ASSUME TypeOK, AppendCounts, TreesInv,
         \/ \E h \in Handles : Open(h) \/ CallLoad(h) \/ Destroy(h)
         \/ \E h \in Handles, batch \in Batches : CallAppend(h, batch)
         \/ Crash
  PROVE  TreesInv'
<1>1. DOMAIN core = Handles /\ DOMAIN status = Handles
  BY CallerType
<1>2. ASSUME NEW h \in Handles, Open(h) \/ CallLoad(h) \/ Destroy(h)
      PROVE  TreesInv'
  <2>1. /\ pc = "idle" /\ pc' \in {"idle", "load_head"}
        /\ UNCHANGED <<dbVars, upgrade, write, frame>>
        /\ \A g \in Handles : core'[g] \in {core[g], EmptyCore}
        /\ status'[h] \in {"closed", "unloaded"}
        /\ \A g \in Handles \ {h} : status'[g] = status[g] /\ core'[g] = core[g]
        /\ pc' = "load_head" => caller' = h /\ status'[h] = "unloaded"
    BY <1>1, <1>2 DEF Open, CallLoad, Destroy, SetStatus, merkleVars
  <2>2. ~upgrade.forked /\ write.tree = EmptyMap /\ frame.i = 0
    BY <2>1 DEF TreesInv, LoadStands, Appending
  <2>3. LoadStands'
    BY <2>1, <2>2 DEF LoadStands
  <2>4. AppendStands'
    BY <2>1, <2>2, QuietGrowing DEF AppendStands
  <2>5. QED
    BY <2>1, <2>3, <2>4, DiskStays, HandlesStay DEF TreesInv, dbVars
<1>3. ASSUME NEW h \in Handles, NEW batch \in Batches, CallAppend(h, batch)
      PROVE  TreesInv'
  <2>1. /\ pc' = "append" /\ UNCHANGED <<dbVars, core, status>>
        /\ ~upgrade'.forked /\ write'.tree = EmptyMap
    BY <1>3 DEF CallAppend, NoUpgrade, NoWrite
  <2>2. LoadStands'
    BY <2>1 DEF LoadStands, Appending
  <2>3. AppendStands'
    BY <2>1, QuietGrowing DEF AppendStands
  <2>4. QED
    BY <2>1, <2>2, <2>3, DiskStays, HandlesStay DEF TreesInv, dbVars
<1>4. CASE Crash
  <2>1. /\ Return /\ UNCHANGED dbVars
        /\ \A h \in Handles : core'[h] = EmptyCore /\ status'[h] = "closed"
    BY <1>4 DEF Crash
  <2>2. QED
    BY <2>1, ReturnTrees, DiskStays, HandlesStay DEF TreesInv, dbVars
<1>5. QED
  BY <1>2, <1>3, <1>4

(* No handle is open and nothing is stored.                                *)
LEMMA InitTrees ==
  ASSUME Init
  PROVE  TreesInv /\ AppendCounts
<1>1. /\ pc = "idle" /\ ~upgrade.forked /\ write.tree = EmptyMap
      /\ frame.i = 0 /\ dbHead = NoHead
      /\ \A h \in Handles : core[h] = EmptyCore /\ status[h] = "closed"
  BY DEF Init, NoUpgrade, NoWrite, NoFrame
<1>2. DiskStands /\ HandlesStand /\ LoadStands
  BY <1>1 DEF DiskStands, HandlesStand, LoadStands, Appending
<1>3. AppendStands
  BY <1>1 DEF AppendStands, Growing
<1>4. QED
  BY <1>1, <1>2, <1>3 DEF TreesInv, AppendCounts, Appending

(* Every step keeps the trees.                                             *)
LEMMA NextTrees ==
  ASSUME TypeOK, AppendCounts, PlainUse, TreesInv, [Next]_vars
  PROVE  TreesInv'
<1>1. CASE UNCHANGED vars
  <2>1. UNCHANGED <<dbVars, core, status, caller, upgrade, write, frame, pc>>
    BY <1>1 DEF vars, merkleVars
  <2>2. DiskStands' /\ HandlesStand'
    BY <2>1, DiskStays, HandlesStay DEF TreesInv, dbVars
  <2>3. LoadStands'
    BY <2>1 DEF TreesInv, LoadStands, dbVars
  <2>4. AppendStands'
    BY <2>1 DEF TreesInv, AppendStands, Growing, Grown, Merging, MergingAt,
                Backed, dbVars
  <2>5. QED
    BY <2>2, <2>3, <2>4 DEF TreesInv
<1>2. CASE Next
  <2>1. CheckoutLengths = {}
    BY DEF PlainUse
  <2>2. QED
    BY <1>2, <2>1, LoadTrees, AppendTrees, BetweenCallsTrees DEF Next, CallStep
<1>3. QED
  BY <1>1, <1>2

(* The invariant of the trees holds in every state.                        *)
LEMMA TreesHold ==
  ASSUME PlainUse
  PROVE  Spec => [](TypeOK /\ AppendCounts /\ TreesInv)
<1>1. Init => TypeOK /\ AppendCounts /\ TreesInv
  BY InitType, InitTrees
<1>2. <<>> \notin Batches
  BY DEF PlainUse
<1>3. (TypeOK /\ AppendCounts /\ TreesInv) /\ [Next]_vars
        => (TypeOK /\ AppendCounts /\ TreesInv)'
  BY <1>2, NextType, NextCounts, NextTrees
<1>4. QED
  BY <1>1, <1>3, PTL DEF Spec

(* However many handles append in turn, stale or not, and whatever fails:  *)
(* the roots of every open handle are the roots of its length, and their   *)
(* sizes add up to its byte length (hc_core_append, hc_core_load).         *)
THEOREM RootsAlwaysMatch ==
  ASSUME PlainUse
  PROVE  Spec => []RootsMatchLength
<1>1. ASSUME TypeOK, TreesInv
      PROVE  RootsMatchLength
  <2>1. ASSUME NEW h \in Handles, Settled(h)
        PROVE  /\ [k \in DOMAIN core[h].roots |-> core[h].roots[k].index]
                    = FullRoots(core[h].length)
               /\ core[h].byte_length = Total(SizesOf(core[h].roots))
    <3> DEFINE roots == core[h].roots
               n == core[h].length
    <3>1. CoreFits(IndexedNodes, core[h])
      BY <1>1, <2>1 DEF Settled, TreesInv, HandlesStand
    <3>2. /\ core[h].byte_length = Total(SizesOf(roots))
          /\ RootsFit(IndexedNodes, roots, n)
      BY <3>1 DEF CoreFits
    <3>3. roots \in Seq(Node) /\ n \in Nat
      BY <1>1, <2>1 DEF TypeOK, Core
    <3> HIDE DEF roots, n
    <3>4. DOMAIN roots = 1..RootCount(n)
      BY <3>2, <3>3 DEF RootsFit
    <3>5. ASSUME NEW k \in 1..RootCount(n)
          PROVE  roots[k].index = NodeIndex(RootStart(n, k), RootDepth(n, k))
      <4>1. /\ RootStart(n, k) \in Nat /\ RootDepth(n, k) \in Depths
        BY <3>3, RootIsSubtree, SubtreeIs
      <4>2. roots[k] \in IndexedNodes[<<RootStart(n, k), RootDepth(n, k)>>]
        BY <3>2 DEF RootsFit
      <4>3. IsNodeMap(IndexedNodes, 0)
        BY IndexedNodeMap
      <4>4. QED
        BY <4>1, <4>2, <4>3 DEF IsNodeMap
    <3>6. [k \in DOMAIN roots |-> roots[k].index] = FullRoots(n)
      BY <3>4, <3>5 DEF FullRoots
    <3>7. QED
      BY <3>2, <3>6 DEF roots, n
  <2>2. QED
    BY <2>1 DEF RootsMatchLength
<1>2. QED
  BY <1>1, TreesHold, PTL

(* And every block and subtree that the durable head counts is stored:     *)
(* hc_core_load reads no root that is missing (src/core.c, src/db.h).      *)
THEOREM LoadAlwaysDefined ==
  ASSUME PlainUse
  PROVE  Spec => []LoadIsDefined
<1>1. ASSUME TreesInv
      PROVE  LoadIsDefined
  BY <1>1 DEF TreesInv, DiskStands, Backed, StandAll, Stands, LoadIsDefined
<1>2. QED
  BY <1>1, TreesHold, PTL

-----------------------------------------------------------------------------
(* The types that the proofs below need of the state of a call.            *)
LEMMA HolderType ==
  ASSUME TypeOK, OneHandleUse
  PROVE  /\ caller = Holder /\ Holder \in Handles
         /\ DOMAIN core = Handles /\ DOMAIN status = Handles
         /\ core[Holder] \in Core /\ HolderLength \in Nat
         /\ DurableLength \in Nat
         /\ upgrade.length \in Nat /\ frame.i \in Nat
         /\ frame.buffers \in Seq(Blocks) /\ Len(frame.buffers) \in Nat
<1>1. caller = Holder /\ Holder \in Handles
  BY DEF TypeOK, OneHandleUse
<1>2. core[Holder] \in Core /\ HolderLength \in Nat
  BY <1>1 DEF TypeOK, Core, HolderLength
<1>3. DurableLength \in Nat
  BY DEF TypeOK, DurableLength, HeadRecord
<1>4. QED
  BY <1>1, <1>2, <1>3 DEF TypeOK, MerkleTypeOK

(* No handle and no head.                                                  *)
LEMMA InitHolder ==
  ASSUME Init, OneHandleUse
  PROVE  HolderFollowsLog
<1>1. Holder \in Handles
  BY DEF OneHandleUse
<1>2. HolderLength = 0 /\ status[Holder] = "closed" /\ DurableLength = 0
  BY <1>1 DEF Init, HolderLength, EmptyCore, DurableLength
<1>3. pc = "idle"
  BY DEF Init
<1>4. QED
  BY <1>2, <1>3
     DEF HolderFollowsLog, LoadFollowsDisk, AppendCounts, Appending

(* When a call is over there is nothing to say of it.                      *)
LEMMA ReturnHolder ==
  ASSUME HolderFollowsLog, OneHandleUse, TypeOK, pc' = "idle",
         UNCHANGED <<dbHead, dbBlocks>>,
         dbHead = NoHead => HolderLength' = 0,
         status'[Holder] = "open" => HolderLength' = DurableLength
  PROVE  HolderFollowsLog'
BY DEF HolderFollowsLog, LoadFollowsDisk, AppendCounts, Appending,
       DurableLength

(* A load takes the length from the disk, and is open once it did.         *)
LEMMA LoadHolder ==
  ASSUME HolderFollowsLog, OneHandleUse, TypeOK,
         \/ LoadHeadFails \/ LoadHeadMissing \/ LoadEmptyHead \/ LoadHead
         \/ LoadRootsFails \/ LoadRoots \/ SumRoots \/ LoadReturns
  PROVE  HolderFollowsLog'
<1>1. /\ caller = Holder /\ Holder \in Handles
      /\ DOMAIN core = Handles /\ DOMAIN status = Handles
      /\ core[Holder] = [roots |-> core[Holder].roots,
                         length |-> core[Holder].length,
                         byte_length |-> core[Holder].byte_length]
  BY HolderType DEF Core
<1>2. CASE LoadHeadFails
  <2>1. status'[Holder] = "unloaded" /\ HolderLength' = HolderLength
    BY <1>2 DEF LoadHeadFails, HolderFollowsLog, LoadFollowsDisk, HolderLength
  <2>2. pc' = "idle" /\ UNCHANGED <<dbHead, dbBlocks>>
    BY <1>2 DEF LoadHeadFails, Return, dbVars
  <2>3. QED
    BY <2>1, <2>2, ReturnHolder DEF HolderFollowsLog
<1>3. CASE LoadHeadMissing
  <2>1. dbHead = NoHead /\ HolderLength' = HolderLength
    BY <1>3 DEF LoadHeadMissing, HolderLength
  <2>2. pc' = "idle" /\ UNCHANGED <<dbHead, dbBlocks>>
    BY <1>3 DEF LoadHeadMissing, Return, dbVars
  <2>3. QED
    BY <2>1, <2>2, ReturnHolder DEF HolderFollowsLog, DurableLength
<1>4. CASE LoadEmptyHead
  <2>1. HolderLength' = 0 /\ DurableLength = 0
    BY <1>1, <1>4 DEF LoadEmptyHead, HolderLength, DurableLength
  <2>2. pc' = "idle" /\ UNCHANGED <<dbHead, dbBlocks>>
    BY <1>4 DEF LoadEmptyHead, Return, dbVars
  <2>3. QED
    BY <2>1, <2>2, ReturnHolder
<1>5. CASE LoadHead
  <2>1. HolderLength' = dbHead.length /\ dbHead # NoHead
    BY <1>1, <1>5 DEF LoadHead, HolderLength
  <2>2. /\ pc' = "load_roots" /\ status'[Holder] = "unloaded"
        /\ UNCHANGED <<dbHead, dbBlocks>>
    BY <1>5 DEF LoadHead, HolderFollowsLog, LoadFollowsDisk, dbVars
  <2>3. QED
    BY <2>1, <2>2
       DEF HolderFollowsLog, LoadFollowsDisk, AppendCounts, Appending,
           DurableLength
<1>6. CASE LoadRootsFails
  <2>1. HolderLength' = HolderLength
    BY <1>1, <1>6 DEF LoadRootsFails, HolderLength
  <2>2. /\ pc' = "idle" /\ status'[Holder] = "unloaded"
        /\ UNCHANGED <<dbHead, dbBlocks>>
    BY <1>6 DEF LoadRootsFails, Return, HolderFollowsLog, LoadFollowsDisk, dbVars
  <2>3. QED
    BY <2>1, <2>2, ReturnHolder DEF HolderFollowsLog
<1>7. CASE LoadRoots \/ SumRoots
  <2>1. HolderLength' = HolderLength
    BY <1>1, <1>7 DEF LoadRoots, SumRoots, HolderLength
  <2>2. /\ pc' = "sum" /\ status'[Holder] = "unloaded"
        /\ UNCHANGED <<dbHead, dbBlocks>>
        /\ dbHead # NoHead /\ HolderLength = dbHead.length
    BY <1>7
       DEF LoadRoots, SumRoots, HolderFollowsLog, LoadFollowsDisk, dbVars
  <2>3. QED
    BY <2>1, <2>2
       DEF HolderFollowsLog, LoadFollowsDisk, AppendCounts, Appending,
           DurableLength
<1>8. CASE LoadReturns
  <2>1. /\ HolderLength' = HolderLength /\ dbHead # NoHead
        /\ HolderLength = DurableLength
    BY <1>8
       DEF LoadReturns, HolderLength, HolderFollowsLog, LoadFollowsDisk,
           DurableLength
  <2>2. pc' = "idle" /\ UNCHANGED <<dbHead, dbBlocks>>
    BY <1>8 DEF LoadReturns, Return, dbVars
  <2>3. QED
    BY <2>1, <2>2, ReturnHolder
<1>9. QED
  BY <1>2, <1>3, <1>4, <1>5, <1>6, <1>7, <1>8

(* An append counts its leaves, and the length it writes is the length     *)
(* that it returns with.                                                   *)
LEMMA AppendHolder ==
  ASSUME HolderFollowsLog, OneHandleUse, TypeOK,
         \/ GrowTree \/ QueueBatch \/ QueueBatchFails \/ Flush \/ FlushFails
         \/ Commit \/ AppendFails
  PROVE  HolderFollowsLog'
<1>1. /\ caller = Holder /\ Holder \in Handles
      /\ DOMAIN core = Handles /\ DOMAIN status = Handles
      /\ core[Holder] \in Core
      /\ HolderLength \in Nat /\ DurableLength \in Nat
      /\ upgrade.length \in Nat /\ frame.i \in Nat
      /\ frame.buffers \in Seq(Blocks) /\ Len(frame.buffers) \in Nat
  BY HolderType
<1>2. /\ pc \in Appending /\ status[Holder] = "open"
      /\ frame.buffers \in Batches /\ frame.buffers # <<>>
  BY <1>1 DEF HolderFollowsLog, AppendCounts, Appending, OneHandleUse, GrowTree,
         QueueBatch, QueueBatchFails, Flush, FlushFails, Commit, AppendFails,
         MerkleStep, AppendNothing, ForkUpgrade, ForkFails, PushLeaf,
         RootsFull, Merge, MergeDone, LeavesDone
<1>3. pc # "commit" => HolderLength = DurableLength
  BY <1>2 DEF HolderFollowsLog
<1>4. AppendCounts'
  BY NextCounts DEF HolderFollowsLog, OneHandleUse, Next, CallStep
<1>5. CASE GrowTree \/ QueueBatch \/ QueueBatchFails \/ FlushFails
  <2>1. /\ UNCHANGED <<HolderLength, dbHead, dbBlocks, DurableLength>>
        /\ pc # "commit"
        /\ pc' \in {"leaf", "merge", "appended", "flush", "failed"}
    BY <1>2, <1>5
       DEF GrowTree, HolderLength, DurableLength, dbVars, MerkleStep,
           AppendNothing, ForkUpgrade, ForkFails, PushLeaf, RootsFull, Merge,
           MergeDone, LeavesDone, QueueBatch, QueueBatchFails, FlushFails
  <2>2. QED
    BY <1>3, <1>4, <2>1 DEF HolderFollowsLog, LoadFollowsDisk
<1>7. CASE Flush
  <2>1. /\ UNCHANGED <<HolderLength, upgrade>>
        /\ pc = "flush" /\ pc' = "commit"
        /\ dbBlocks' = PutAll(dbBlocks, write.blocks)
    BY <1>7 DEF Flush, HolderLength
  <2>2. /\ write.blocks = BlockBatch(HolderLength, frame.buffers)
        /\ upgrade.length = HolderLength + Len(frame.buffers)
    BY <1>1, <2>1 DEF HolderFollowsLog, AppendCounts, HolderLength
  <2>3. DurableLength' = upgrade.length /\ dbHead' # NoHead
    BY <1>4, <2>1 DEF AppendCounts
  <2>4. 0..DurableLength' - 1 \subseteq DOMAIN dbBlocks'
    <3>1. /\ 0..HolderLength - 1 \subseteq DOMAIN dbBlocks
          /\ DOMAIN dbBlocks' = DOMAIN dbBlocks \cup
               (HolderLength..(HolderLength + Len(frame.buffers) - 1))
      BY <1>3, <2>1, <2>2 DEF HolderFollowsLog, PutAll, BlockBatch
    <3>2. QED
      BY <1>1, <2>2, <2>3, <3>1
  <2>5. QED
    BY <1>4, <2>1, <2>3, <2>4 DEF HolderFollowsLog, LoadFollowsDisk
<1>8. CASE Commit
  <2>1. /\ HolderLength' = upgrade.length /\ pc = "commit" /\ pc' = "idle"
        /\ UNCHANGED <<dbHead, dbBlocks>>
    BY <1>1, <1>8 DEF Commit, HolderLength, Return, dbVars
  <2>2. upgrade.length = DurableLength /\ dbHead # NoHead
    BY <2>1 DEF HolderFollowsLog, AppendCounts
  <2>3. QED
    BY <2>1, <2>2, ReturnHolder DEF DurableLength
<1>9. CASE AppendFails
  <2>1. /\ HolderLength' = HolderLength /\ pc = "failed" /\ pc' = "idle"
        /\ UNCHANGED <<dbHead, dbBlocks>>
    BY <1>9 DEF AppendFails, HolderLength, Return, dbVars
  <2>2. QED
    BY <1>3, <2>1, ReturnHolder DEF HolderFollowsLog
<1>10. QED
  BY <1>5, <1>7, <1>8, <1>9

(* Between calls, and in a crash.                                          *)
LEMMA BetweenCallsHolder ==
  ASSUME HolderFollowsLog, OneHandleUse, TypeOK,
         \/ \E h \in Handles : Open(h) \/ CallLoad(h) \/ Destroy(h)
         \/ \E h \in Handles, batch \in Batches : CallAppend(h, batch)
         \/ Crash
  PROVE  HolderFollowsLog'
<1>1. /\ \A h \in Handles : h = Holder
      /\ Holder \in Handles
      /\ DOMAIN core = Handles /\ DOMAIN status = Handles
      /\ HolderLength \in Nat /\ DurableLength \in Nat
  BY HolderType DEF OneHandleUse
<1>2. CASE \E h \in Handles : Open(h) \/ CallLoad(h)
  <2>1. /\ status'[Holder] = "unloaded" /\ pc' = "load_head"
        /\ HolderLength' \in {0, HolderLength}
        /\ UNCHANGED <<dbHead, dbBlocks>>
    BY <1>1, <1>2
       DEF Open, CallLoad, SetStatus, HolderLength, EmptyCore, dbVars
  <2>2. QED
    BY <2>1 DEF HolderFollowsLog, LoadFollowsDisk, AppendCounts, Appending,
                DurableLength
<1>3. CASE \E h \in Handles : Destroy(h)
  <2>1. /\ status'[Holder] = "closed" /\ pc' = "idle"
        /\ HolderLength' = 0 /\ UNCHANGED <<dbHead, dbBlocks>>
    BY <1>1, <1>3
       DEF Destroy, SetStatus, HolderLength, EmptyCore, dbVars, merkleVars
  <2>2. QED
    BY <2>1, ReturnHolder
<1>4. ASSUME NEW h \in Handles, NEW batch \in Batches, CallAppend(h, batch)
      PROVE  HolderFollowsLog'
  <2>1. /\ status[Holder] = "open" /\ pc = "idle" /\ pc' = "append"
        /\ caller' = Holder
        /\ UNCHANGED <<HolderLength, status, dbHead, dbBlocks, DurableLength>>
        /\ frame'.buffers = batch /\ frame'.i = 0 /\ ~upgrade'.forked
    BY <1>1, <1>4
       DEF CallAppend, HolderLength, DurableLength, dbVars, NoFrame, NoUpgrade
  <2>2. QED
    BY <2>1 DEF HolderFollowsLog, LoadFollowsDisk, AppendCounts, Appending
<1>5. CASE Crash
  <2>1. /\ status'[Holder] = "closed" /\ pc' = "idle"
        /\ HolderLength' = 0 /\ UNCHANGED <<dbHead, dbBlocks>>
    BY <1>1, <1>5 DEF Crash, Return, HolderLength, EmptyCore, dbVars
  <2>2. QED
    BY <2>1, ReturnHolder
<1>6. QED
  BY <1>2, <1>3, <1>4, <1>5

(* With one handle, no checkout and no empty batch.                        *)
LEMMA NextHolder ==
  ASSUME HolderFollowsLog, OneHandleUse, TypeOK, [Next]_vars
  PROVE  HolderFollowsLog'
<1>1. CASE UNCHANGED vars
  BY <1>1 DEF vars, merkleVars, dbVars, HolderFollowsLog, LoadFollowsDisk,
              AppendCounts, DurableLength, HolderLength
<1>2. CASE Next
  <2>1. CheckoutLengths = {}
    BY DEF OneHandleUse
  <2>2. QED
    BY <1>2, <2>1, LoadHolder, AppendHolder, BetweenCallsHolder
       DEF Next, CallStep
<1>3. QED
  BY <1>1, <1>2

(* In every state of a core with one handle, the handle's length is that   *)
(* of the durable log, but for the time between the write of an append and *)
(* its return (hc_core_append, hc_core_commit, hc_core_load).              *)
THEOREM HolderAlwaysFollowsLog ==
  ASSUME OneHandleUse
  PROVE  Spec => []HolderFollowsLog
<1>1. Init => HolderFollowsLog
  BY InitHolder
<1>2. TypeOK /\ HolderFollowsLog /\ [Next]_vars => HolderFollowsLog'
  BY NextHolder
<1>3. QED
  BY <1>1, <1>2, TypeCorrect, PTL DEF Spec

-----------------------------------------------------------------------------
(* The durable log is as long as the head says.                            *)
LEMMA LogLength ==
  ASSUME TypeOK
  PROVE  Len(Log) = DurableLength /\ DurableLength \in Nat
BY DEF Log, DurableLength, TypeOK, HeadRecord

(* What the steps of a load show of the log.                               *)
LEMMA LoadSteps ==
  ASSUME HolderFollowsLog, OneHandleUse, TypeOK,
         \/ LoadHeadFails \/ LoadHeadMissing \/ LoadEmptyHead \/ LoadHead
         \/ LoadRootsFails \/ LoadRoots \/ SumRoots \/ LoadReturns
  PROVE  AbstractLog!OpenView \/ UNCHANGED <<Log, HandleView>>
<1>1. /\ caller = Holder /\ Holder \in Handles
      /\ DOMAIN core = Handles /\ DOMAIN status = Handles
      /\ core[Holder] \in Core /\ HolderLength \in Nat
  BY HolderType
<1>2. status[Holder] = "unloaded" /\ HandleView = Closed /\ UNCHANGED Log
  BY DEF HolderFollowsLog, LoadFollowsDisk, HandleView, Log, dbVars,
         LoadHeadFails, LoadHeadMissing, LoadEmptyHead, LoadHead,
         LoadRootsFails, LoadRoots, SumRoots, LoadReturns
<1>3. CASE LoadHeadMissing
  <2>1. HandleView' = HolderLength /\ Len(Log) = HolderLength
    BY <1>1, <1>3, LogLength
       DEF LoadHeadMissing, SetStatus, HandleView, HolderLength,
           HolderFollowsLog, DurableLength
  <2>2. QED
    BY <1>2, <2>1 DEF AbstractLog!OpenView
<1>4. CASE LoadEmptyHead
  <2>1. HandleView' = 0 /\ Len(Log) = 0
    BY <1>1, <1>4, LogLength
       DEF LoadEmptyHead, SetStatus, HandleView, DurableLength, Core
  <2>2. QED
    BY <1>2, <2>1 DEF AbstractLog!OpenView
<1>5. CASE LoadReturns
  <2>1. HandleView' = HolderLength /\ Len(Log) = HolderLength
    BY <1>1, <1>5, LogLength
       DEF LoadReturns, SetStatus, HandleView, HolderLength,
           HolderFollowsLog, LoadFollowsDisk, DurableLength
  <2>2. QED
    BY <1>2, <2>1 DEF AbstractLog!OpenView
<1>6. CASE LoadHeadFails \/ LoadHead \/ LoadRootsFails \/ LoadRoots \/ SumRoots
  <2>1. status' = status
    BY <1>6
       DEF LoadHeadFails, LoadHead, LoadRootsFails, LoadRoots, SumRoots
  <2>2. QED
    BY <1>2, <2>1 DEF HandleView
<1>7. QED
  BY <1>3, <1>4, <1>5, <1>6

(* The write of an append makes all of its blocks durable.                 *)
LEMMA FlushAppends ==
  ASSUME HolderFollowsLog, OneHandleUse, TypeOK, Flush
  PROVE  AbstractLog!AppendBatch(frame.buffers)
<1> DEFINE n == HolderLength
           blocks == frame.buffers
<1>1. /\ n \in Nat /\ blocks \in Seq(Blocks) /\ Len(blocks) \in Nat
      /\ caller = Holder /\ pc = "flush" /\ status[Holder] = "open"
  BY HolderType DEF Flush, HolderFollowsLog, AppendCounts, Appending
<1>2. n = DurableLength /\ Len(Log) = n /\ HandleView = n
  BY <1>1, LogLength DEF HolderFollowsLog, HandleView, HolderLength
<1>3. /\ write.blocks = BlockBatch(n, blocks)
      /\ write.head.length = n + Len(blocks) /\ write.head # NoHead
  <2>1. /\ write.blocks = BlockBatch(n, blocks) /\ write.head = HeadOf(upgrade)
        /\ upgrade.length = n + Len(blocks)
    BY <1>1 DEF HolderFollowsLog, AppendCounts, HolderLength
  <2>2. QED
    BY <2>1, HeadOfUpgrade, CallerType
<1>4. Log' = [k \in 1..n + Len(blocks) |-> dbBlocks'[k - 1]]
  BY <1>3 DEF Flush, Log
<1>5. Log = [k \in 1..n |-> dbBlocks[k - 1]]
  BY <1>1, <1>2 DEF Log, DurableLength
<1>6. dbBlocks' = PutAll(dbBlocks, BlockBatch(n, blocks))
  BY <1>3 DEF Flush
<1>7. 0..n - 1 \subseteq DOMAIN dbBlocks
  BY <1>2 DEF HolderFollowsLog
<1> HIDE DEF n, blocks
<1>8. ASSUME NEW k \in 1..n
      PROVE  dbBlocks'[k - 1] = Log[k]
  BY <1>1, <1>5, <1>6, <1>7, <1>8 DEF PutAll, BlockBatch
<1>9. ASSUME NEW k \in n + 1..n + Len(blocks)
      PROVE  dbBlocks'[k - 1] = blocks[k - n]
  <2>1. k - 1 \in n..n + Len(blocks) - 1 /\ (k - 1) - n + 1 = k - n
    BY <1>1
  <2>2. QED
    BY <1>6, <2>1 DEF PutAll, BlockBatch
<1>10. Log' = Log \o blocks
  <2>1. Log \in Seq(Blocks)
    <3>1. ASSUME NEW k \in 1..n
          PROVE  dbBlocks[k - 1] \in Blocks
      BY <1>1, <1>7 DEF TypeOK, IsMap
    <3>2. QED
      BY <1>1, <1>5, <3>1
  <2>2. Log' \in Seq(Blocks) /\ Len(Log') = n + Len(blocks)
    <3>1. ASSUME NEW k \in 1..n + Len(blocks)
          PROVE  dbBlocks'[k - 1] \in Blocks
      <4>1. CASE k \in 1..n
        BY <1>2, <1>8, <2>1, <4>1
      <4>2. CASE k \in n + 1..n + Len(blocks)
        BY <1>1, <1>9, <4>2
      <4>3. QED
        BY <1>1, <4>1, <4>2
    <3>2. QED
      BY <1>1, <1>4, <3>1
  <2>3. Log \o blocks \in Seq(Blocks) /\ Len(Log \o blocks) = n + Len(blocks)
    BY <1>1, <1>2, <2>1
  <2>4. ASSUME NEW k \in 1..Len(Log')
        PROVE  Log'[k] = (Log \o blocks)[k]
    <3>1. CASE k \in 1..n
      BY <1>1, <1>2, <1>4, <1>8, <2>1, <2>2, <3>1
    <3>2. CASE k \in n + 1..n + Len(blocks)
      <4>1. Log'[k] = blocks[k - n]
        BY <1>4, <1>9, <2>2, <3>2
      <4>2. (Log \o blocks)[k] = blocks[k - n]
        BY <1>1, <1>2, <2>1, <3>2
      <4>3. QED
        BY <4>1, <4>2
    <3>3. k \in 1..n \/ k \in n + 1..n + Len(blocks)
      <4>1. k \in 1..n + Len(blocks)
        BY <2>2
      <4>2. QED
        BY <1>1, <4>1
    <3>4. QED
      BY <3>1, <3>2, <3>3
  <2>5. QED
    BY <2>2, <2>3, <2>4, SeqEqual
<1>11. HandleView' = HandleView
  BY DEF Flush, HandleView
<1>12. QED
  BY <1>2, <1>10, <1>11 DEF AbstractLog!AppendBatch, blocks

(* The other steps of an append show nothing, but for its return.          *)
LEMMA AppendSteps ==
  ASSUME HolderFollowsLog, OneHandleUse, TypeOK,
         \/ GrowTree \/ QueueBatch \/ QueueBatchFails \/ Flush \/ FlushFails
         \/ Commit \/ AppendFails
  PROVE  AbstractLog!LogNext \/ UNCHANGED <<Log, HandleView>>
<1>1. /\ caller = Holder /\ Holder \in Handles
      /\ DOMAIN core = Handles
      /\ HolderLength \in Nat /\ upgrade.length \in Nat
      /\ frame.buffers \in Seq(Blocks) /\ Len(frame.buffers) \in Nat
  BY HolderType
<1>2. CASE Flush
  <2>1. frame.buffers \in Batches
    BY <1>2 DEF Flush, HolderFollowsLog, AppendCounts, Appending
  <2>2. QED
    BY <1>2, <2>1, FlushAppends DEF AbstractLog!LogNext
<1>3. CASE Commit
  <2>1. /\ pc = "commit" /\ status[Holder] = "open" /\ status' = status
        /\ frame.buffers # <<>>
        /\ HolderLength' = upgrade.length
        /\ UNCHANGED Log
    BY <1>1, <1>3
       DEF Commit, HolderFollowsLog, AppendCounts, Appending, HolderLength,
           OneHandleUse, Log, dbVars
  <2>2. /\ DurableLength = upgrade.length
        /\ upgrade.length = HolderLength + Len(frame.buffers)
    BY <1>1, <2>1 DEF HolderFollowsLog, AppendCounts, HolderLength
  <2>3. Len(frame.buffers) # 0
    BY <1>1, <2>1
  <2>4. /\ HandleView = HolderLength /\ HandleView' = upgrade.length
        /\ Len(Log) = upgrade.length
    BY <2>1, <2>2, LogLength DEF HandleView, HolderLength
  <2>5. HandleView # Len(Log) /\ HandleView # Closed
    BY <1>1, <2>2, <2>3, <2>4, ClosedAssumption
  <2>6. QED
    BY <2>1, <2>4, <2>5 DEF AbstractLog!LogNext, AbstractLog!Acknowledge
<1>4. CASE GrowTree \/ QueueBatch \/ QueueBatchFails \/ FlushFails
           \/ AppendFails
  BY <1>4 DEF GrowTree, QueueBatch, QueueBatchFails, FlushFails, AppendFails,
              Log, HandleView, dbVars
<1>5. QED
  BY <1>2, <1>3, <1>4

(* Between calls, and in a crash, a handle comes and goes; the log stays.  *)
LEMMA BetweenCallsSteps ==
  ASSUME HolderFollowsLog, OneHandleUse, TypeOK,
         \/ \E h \in Handles : Open(h) \/ CallLoad(h) \/ Destroy(h)
         \/ \E h \in Handles, batch \in Batches : CallAppend(h, batch)
         \/ Crash
  PROVE  AbstractLog!CloseView \/ UNCHANGED <<Log, HandleView>>
<1>1. /\ \A h \in Handles : h = Holder
      /\ Holder \in Handles /\ DOMAIN status = Handles
      /\ HolderLength \in Nat
  BY HolderType DEF OneHandleUse
<1>2. UNCHANGED Log
  BY DEF Log, Open, CallLoad, Destroy, CallAppend, Crash, dbVars
<1>3. CASE \E h \in Handles, batch \in Batches : CallAppend(h, batch)
  BY <1>2, <1>3 DEF CallAppend, HandleView
<1>4. CASE ~ \E h \in Handles, batch \in Batches : CallAppend(h, batch)
  <2>1. status'[Holder] # "open"
    BY <1>1, <1>4 DEF Open, CallLoad, Destroy, Crash, SetStatus
  <2>2. HandleView' = Closed
    BY <2>1 DEF HandleView
  <2>3. QED
    BY <1>2, <2>2 DEF AbstractLog!CloseView
<1>5. QED
  BY <1>3, <1>4

(* With one handle, no checkout and no empty batch, the records and the    *)
(* handle of a core take only the steps of an append-only log: a batch     *)
(* becomes durable all at once behind a handle that is up to date, a handle*)
(* opens on the whole log, and failures, reloads and crashes change no     *)
(* block (hc_core_append, hc_core_load).                                   *)
THEOREM CoreIsLog ==
  ASSUME OneHandleUse
  PROVE  Spec => ImplementsAppendLog
<1>1. Init => AbstractLog!LogInit
  <2>1. Holder \in Handles
    BY DEF OneHandleUse
  <2>2. QED
    BY <2>1 DEF Init, AbstractLog!LogInit, Log, HandleView
<1>2. ASSUME TypeOK, HolderFollowsLog, [Next]_vars
      PROVE  [AbstractLog!LogNext]_<<Log, HandleView>>
  <2>1. CASE UNCHANGED vars
    BY <2>1 DEF vars, dbVars, Log, HandleView
  <2>2. CASE Next
    <3>1. CheckoutLengths = {}
      BY DEF OneHandleUse
    <3>2. QED
      BY <1>2, <2>2, <3>1, LoadSteps, AppendSteps, BetweenCallsSteps
         DEF Next, CallStep, AbstractLog!LogNext
  <2>3. QED
    BY <1>2, <2>1, <2>2
<1>3. QED
  BY <1>1, <1>2, TypeCorrect, HolderAlwaysFollowsLog, PTL
     DEF Spec, ImplementsAppendLog, AbstractLog!LogSafety,
         AbstractLog!logVars

-----------------------------------------------------------------------------
(* One handle, and as many roots as there are depths.                      *)
OneTreeUse == OneHandleUse /\ MaxRoots = MaxDepth + 1

(* The nodes of the tree that the append in progress makes.                *)
Growth == NodesOver(Log \o frame.buffers)

(* What the handle and the upgrade are while the tree on disk is whole.    *)
LogStands ==
  /\ DurableTree
  /\ status[Holder] = "open" /\ pc # "commit" => core[Holder] = CoreOver(Log)
  /\ pc = "sum" => core[Holder].roots = TreeRoots(Log)
  /\ pc \in Appending \ {"commit"} => Growing(Growth, core[Holder])
  /\ pc = "commit" =>
       [roots |-> upgrade.roots, length |-> upgrade.length,
        byte_length |-> upgrade.byte_length] = CoreOver(Log)

LEMMA OneTreeIsPlain ==
  ASSUME OneTreeUse
  PROVE  PlainUse /\ OneHandleUse /\ <<>> \notin Batches
BY DEF OneTreeUse, OneHandleUse, PlainUse

(* The durable log is a sequence of blocks, of a length that has a tree.   *)
LEMMA LogType ==
  ASSUME TypeOK, HolderFollowsLog, TreesInv
  PROVE  /\ Log \in Seq(Blocks) /\ Len(Log) = DurableLength
         /\ LengthInRange(Len(Log))
<1>1. Len(Log) = DurableLength /\ DurableLength \in Nat
  BY LogLength
<1>2. Log \in Seq(Blocks)
  <2>1. CASE dbHead = NoHead
    BY <2>1 DEF Log
  <2>2. CASE dbHead # NoHead
    <3> DEFINE n == DurableLength
    <3>1. Log = [k \in 1..n |-> dbBlocks[k - 1]]
      BY <2>2 DEF Log, DurableLength
    <3>2. 0..n - 1 \subseteq DOMAIN dbBlocks
      BY DEF HolderFollowsLog
    <3> HIDE DEF n
    <3>3. ASSUME NEW k \in 1..n
          PROVE  dbBlocks[k - 1] \in Blocks
      BY <1>1, <3>2 DEF n, TypeOK, IsMap
    <3>4. QED
      BY <1>1, <3>1, <3>3 DEF n
  <2>3. QED
    BY <2>1, <2>2
<1>3. LengthInRange(Len(Log))
  <2>1. CASE dbHead = NoHead
    BY <1>1, <2>1, EmptyStands DEF DurableLength, CoreFits, EmptyCore
  <2>2. CASE dbHead # NoHead
    BY <1>1, <2>2 DEF DurableLength, TreesInv, DiskStands
  <2>3. QED
    BY <2>1, <2>2
<1>4. QED
  BY <1>1, <1>2, <1>3

(* A fresh handle is a core over nothing.                                  *)
LEMMA EmptyIsCoreOver == EmptyCore = CoreOver(<<>>)
<1>1. TreeRoots(<<>>) = <<>>
  <2>1. RootCount(Len(<<>>)) = 0
    BY RootsOfNone
  <2>2. QED
    BY <2>1 DEF TreeRoots
<1>2. ByteLength(<<>>) = 0
  <2>1. [k \in DOMAIN <<>> |-> BlockLen[<<>>[k]]] = <<>>
    OBVIOUS
  <2>2. QED
    BY <2>1, TotalEmpty DEF ByteLength
<1>3. QED
  BY <1>1, <1>2 DEF EmptyCore, CoreOver

(* A core of which the parts are those of a sequence of blocks.            *)
LEMMA IsCoreOver ==
  ASSUME NEW blocks \in Seq(Blocks), LengthInRange(Len(blocks)),
         NEW roots, roots = TreeRoots(blocks),
         NEW length, length = Len(blocks),
         NEW size, size = Total(SizesOf(roots))
  PROVE  [roots |-> roots, length |-> length, byte_length |-> size]
           = CoreOver(blocks)
BY RootSizes DEF CoreOver

(* A step outside the append that keeps the disk and opens no other core.  *)
LEMMA QuietLog ==
  ASSUME LogStands, UNCHANGED dbVars, pc' \notin Appending \cup {"sum"},
         status'[Holder] = "open" => core'[Holder] = CoreOver(Log)
  PROVE  LogStands'
<1>1. Log' = Log
  BY DEF Log, dbVars
<1>2. DurableTree'
  BY <1>1 DEF LogStands, DurableTree, dbVars
<1>3. QED
  BY <1>1, <1>2 DEF LogStands, Appending

(* The steps of a load.                                                    *)
LEMMA LoadLog ==
  ASSUME TypeOK, OneHandleUse, HolderFollowsLog, TreesInv, TreesInv', LogStands,
         \/ LoadHeadFails \/ LoadHeadMissing \/ LoadEmptyHead \/ LoadHead
         \/ LoadRootsFails \/ LoadRoots \/ SumRoots \/ LoadReturns
  PROVE  LogStands'
<1>1. /\ caller = Holder /\ Holder \in Handles
      /\ DOMAIN core = Handles /\ DOMAIN status = Handles
      /\ core[Holder] \in Core
  BY HolderType
<1>2. /\ status[Holder] = "unloaded" /\ UNCHANGED dbVars
      /\ Log \in Seq(Blocks) /\ LengthInRange(Len(Log)) /\ Log' = Log
      /\ Len(Log) \in Nat
  <2>1. status[Holder] = "unloaded" /\ UNCHANGED dbVars
    BY DEF HolderFollowsLog, LoadFollowsDisk, dbVars, LoadHeadFails,
           LoadHeadMissing, LoadEmptyHead, LoadHead, LoadRootsFails,
           LoadRoots, SumRoots, LoadReturns
  <2>2. Log' = Log
    BY <2>1 DEF Log, dbVars
  <2>3. QED
    BY <2>1, <2>2, LogType
<1>3. CASE LoadHeadFails \/ LoadHead \/ LoadRootsFails
  <2>1. status'[Holder] = "unloaded" /\ pc' \notin Appending \cup {"sum"}
    BY <1>2, <1>3 DEF LoadHeadFails, LoadHead, LoadRootsFails, Return, Appending
  <2>2. QED
    BY <1>2, <2>1, QuietLog
<1>4. CASE LoadHeadMissing
  <2>1. core'[Holder] = EmptyCore /\ Log = <<>> /\ pc' = "idle"
    BY <1>1, <1>4 DEF LoadHeadMissing, Return, TreesInv, DiskStands, Log
  <2>2. QED
    BY <1>2, <2>1, EmptyIsCoreOver, QuietLog DEF Appending
<1>5. CASE LoadEmptyHead
  BY <1>5 DEF LoadEmptyHead, TreesInv, DiskStands
<1>6. CASE LoadRoots
  <2> DEFINE n == core[caller].length
             old == core[caller].roots
             indices == FullRoots(n)
             read(junk) == [k \in 1..RootCount(n) |->
                              ReadRoot(old, indices[k], k, junk)]
  <2>1. /\ pc' = "sum" /\ UNCHANGED status
        /\ n = Len(Log) /\ n \in Nat
    <3>1. pc = "load_roots" /\ pc' = "sum" /\ status' = status
      BY <1>6 DEF LoadRoots
    <3>2. n = dbHead.length /\ dbHead # NoHead
      BY <1>1, <3>1 DEF HolderFollowsLog, LoadFollowsDisk, HolderLength
    <3> HIDE DEF n
    <3>3. QED
      BY <1>2, <3>1, <3>2, LogType DEF DurableLength
  <2>2. PICK junk \in [1..RootCount(n) -> JunkNodes] :
          core' = [core EXCEPT ![caller].roots = read(junk),
                               ![caller].byte_length = 0]
    BY <1>6 DEF LoadRoots
  <2>3. ASSUME NEW k \in 1..RootCount(n)
        PROVE  read(junk)[k] = TreeNode(Log, RootStart(n, k), RootDepth(n, k))
    <3> DEFINE place == <<RootStart(n, k), RootDepth(n, k)>>
               node == TreeNode(Log, place[1], place[2])
    <3>1. place \in Subtrees(n)
      BY <2>1, RootIsSubtree
    <3>2. node.index \in DOMAIN dbTree /\ dbTree[node.index] = node
      BY <2>1, <3>1 DEF LogStands, DurableTree, HoldsTree
    <3>3. indices[k] = node.index
      BY DEF FullRoots, TreeNode
    <3> HIDE DEF indices, old, place, node
    <3>4. ReadRoot(old, indices[k], k, junk) = node
      BY <3>2, <3>3 DEF ReadRoot
    <3>5. QED
      BY <3>4 DEF place, node
  <2>4. read(junk) = TreeRoots(Log)
    BY <2>1, <2>3 DEF TreeRoots
  <2> HIDE DEF read
  <2>5. core'[Holder].roots = TreeRoots(Log)
    BY <1>1, <2>2, <2>4 DEF Core
  <2>6. DurableTree'
    BY <1>2 DEF LogStands, DurableTree, dbVars
  <2>7. QED
    BY <1>2, <2>1, <2>5, <2>6 DEF LogStands, Appending
<1>7. CASE SumRoots
  <2>1. /\ pc = "sum" /\ pc' = "sum" /\ UNCHANGED status
        /\ core'[Holder].roots = core[Holder].roots
    BY <1>1, <1>7 DEF SumRoots, Core
  <2>2. DurableTree'
    BY <1>2 DEF LogStands, DurableTree, dbVars
  <2>3. QED
    BY <1>2, <2>1, <2>2 DEF LogStands, Appending
<1>8. CASE LoadReturns
  <2>1. /\ pc = "sum" /\ pc' = "idle" /\ status'[Holder] = "open"
        /\ core' = core
    BY <1>1, <1>8 DEF LoadReturns, SetStatus, Return
  <2>2. /\ core[Holder].roots = TreeRoots(Log)
        /\ core[Holder].length = Len(Log)
    BY <2>1, LogType
       DEF LogStands, HolderFollowsLog, LoadFollowsDisk, HolderLength,
           DurableLength
  <2>3. core[Holder].byte_length = Total(SizesOf(core[Holder].roots))
    BY <1>1, <2>1 DEF TreesInv, HandlesStand, CoreFits
  <2>4. core[Holder] = [roots |-> core[Holder].roots,
                        length |-> core[Holder].length,
                        byte_length |-> core[Holder].byte_length]
    BY <1>1 DEF Core
  <2>5. core[Holder] = CoreOver(Log)
    BY <1>2, <2>2, <2>3, <2>4, IsCoreOver
  <2>6. QED
    BY <1>2, <2>1, <2>5, QuietLog DEF Appending
<1>9. QED
  BY <1>3, <1>4, <1>5, <1>6, <1>7, <1>8

(* A step of hc_merkle_tree_append grows the tree over the log.            *)
LEMMA GrowTreeLog ==
  ASSUME TypeOK, OneTreeUse, HolderFollowsLog, TreesInv, LogStands, GrowTree
  PROVE  LogStands'
<1> DEFINE c == core[Holder]
           i == frame.i
           buffers == frame.buffers
           blocks == Log \o buffers
<1>1. /\ caller = Holder /\ c \in Core /\ MerkleTypeOK
      /\ upgrade.length \in Nat /\ i \in Nat
      /\ buffers \in Seq(Blocks) /\ Len(buffers) \in Nat
  BY HolderType, CallerType, OneTreeIsPlain
<1>2. /\ Log \in Seq(Blocks) /\ Len(Log) \in Nat /\ LengthInRange(Len(Log))
  BY LogType
<1>3. /\ MerkleStep(c) /\ UNCHANGED <<dbVars, core, status>>
      /\ pc \in {"append", "leaf", "merge"}
      /\ pc' \in {"leaf", "merge", "appended", "failed"}
      /\ frame'.buffers = buffers
  BY <1>1
     DEF GrowTree, MerkleTypeOK, MerkleStep, AppendNothing, ForkUpgrade, ForkFails,
         PushLeaf, RootsFull, Merge, MergeDone, LeavesDone
<1>4. c = CoreOver(Log) /\ Growing(NodesOver(blocks), c)
      /\ status[Holder] = "open"
  <2>1. status[Holder] = "open"
    BY <1>1, <1>3 DEF HolderFollowsLog, AppendCounts, Appending
  <2>2. QED
    BY <1>3, <2>1 DEF LogStands, Appending, Growth
<1>5. /\ blocks \in Seq(Blocks) /\ Len(blocks) = Len(Log) + Len(buffers)
      /\ \A k \in 1..Len(buffers) : blocks[Len(Log) + k] = buffers[k]
  BY <1>1, <1>2
<1>6. CoreFits(NodesOver(blocks), c)
  <2>1. /\ c.roots = TreeRoots(Log) /\ c.length = Len(Log)
        /\ c.byte_length = ByteLength(Log)
    BY <1>4 DEF CoreOver
  <2>2. RootsFit(NodesOver(blocks), TreeRoots(Log), Len(Log))
    BY <1>1, <1>2, TreeRootsFit
  <2> HIDE DEF c, blocks
  <2>3. QED
    BY <1>2, <2>1, <2>2, RootSizes DEF CoreFits
<1>7. /\ pc = "merge" => upgrade.length <= Len(blocks)
      /\ pc = "leaf" => upgrade.length = Len(Log) + i
  <2>1. /\ pc = "leaf" => upgrade.length = c.length + i
        /\ pc = "merge" => upgrade.length = c.length + i + 1 /\ i < Len(buffers)
    BY <1>1 DEF HolderFollowsLog, AppendCounts
  <2>2. c.length = Len(Log)
    BY <1>4 DEF CoreOver
  <2> HIDE DEF c, i, buffers, blocks
  <2>3. QED
    BY <1>1, <1>2, <1>5, <2>1, <2>2
<1>8. pc = "leaf" /\ i < Len(buffers) =>
        LeafNode(2 * upgrade.length, buffers[i + 1])
          \in NodesOver(blocks)[<<upgrade.length, 0>>]
  <2>1. SUFFICES ASSUME pc = "leaf", i < Len(buffers)
                 PROVE  LeafNode(2 * upgrade.length, buffers[i + 1])
                          \in NodesOver(blocks)[<<upgrade.length, 0>>]
    OBVIOUS
  <2>2. i + 1 \in 1..Len(buffers) /\ buffers[i + 1] \in Blocks
    BY <1>1, <2>1
  <2>3. /\ blocks[upgrade.length + 1] = buffers[i + 1]
        /\ upgrade.length < Len(blocks)
    <3>1. upgrade.length + 1 = Len(Log) + (i + 1)
      BY <1>1, <1>2, <1>7, <2>1
    <3> HIDE DEF buffers, blocks, i
    <3>2. QED
      BY <1>1, <1>2, <1>5, <1>7, <2>1, <2>2, <3>1
  <2> HIDE DEF buffers, blocks, i
  <2>4. QED
    BY <1>1, <1>5, <2>2, <2>3, LeafFits
<1>9. Growing(NodesOver(blocks), c)'
  <2>1. IsNodeMap(NodesOver(blocks), Len(blocks))
    BY <1>5, TreeNodeMap
  <2>2. MaxRoots = MaxDepth + 1
    BY DEF OneTreeUse
  <2>3. ASSUME NEW d, d = c, NEW nodes, nodes = NodesOver(blocks)
        PROVE  Growing(nodes, d)'
    <3> HIDE DEF c, blocks
    <3>1. QED
      BY <1>1, <1>3, <1>4, <1>6, <1>7, <1>8, <2>1, <2>2, <2>3,
         MerkleStepGrowing DEF i, buffers
  <2>4. c' = c /\ NodesOver(blocks)' = NodesOver(blocks)
    <3>1. Log' = Log
      BY <1>3 DEF Log, dbVars
    <3>2. QED
      BY <1>3, <3>1
  <2>5. QED
    BY <2>3, <2>4
<1>10. Log' = Log /\ DurableTree'
  <2>1. Log' = Log
    BY <1>3 DEF Log, dbVars
  <2>2. QED
    BY <1>3, <2>1 DEF LogStands, DurableTree, dbVars
<1>11. Growing(Growth, core[Holder])'
  BY <1>9 DEF Growth
<1>12. QED
  BY <1>3, <1>4, <1>10, <1>11 DEF LogStands, Appending

(* The write of an append makes the tree on disk the tree over the longer  *)
(* log: the nodes it had, and those of the batch.                          *)
LEMMA FlushLog ==
  ASSUME TypeOK, OneTreeUse, HolderFollowsLog, TreesInv, LogStands, Flush
  PROVE  LogStands'
<1> DEFINE c == core[Holder]
           buffers == frame.buffers
           blocks == Log \o buffers
<1>1. /\ caller = Holder /\ MerkleTypeOK
      /\ upgrade.length \in Nat /\ upgrade.roots \in Seq(Node)
      /\ buffers \in Seq(Blocks) /\ Len(buffers) \in Nat /\ buffers # <<>>
      /\ pc = "flush" /\ pc' = "commit" /\ status[Holder] = "open"
      /\ dbTree' = PutAll(dbTree, write.tree) /\ dbHead' = write.head
      /\ write.head = HeadOf(upgrade)
      /\ UNCHANGED <<upgrade, core, status>>
  <2>1. /\ pc = "flush" /\ pc' = "commit"
        /\ dbTree' = PutAll(dbTree, write.tree) /\ dbHead' = write.head
        /\ UNCHANGED <<upgrade, core, status>>
    BY DEF Flush
  <2>2. caller = Holder /\ MerkleTypeOK
    BY HolderType, OneTreeIsPlain DEF TypeOK
  <2>3. /\ status[Holder] = "open" /\ write.head = HeadOf(upgrade)
        /\ buffers \in Batches
    BY <2>1, <2>2 DEF HolderFollowsLog, AppendCounts, Appending
  <2>4. buffers # <<>>
    BY <2>3, OneTreeIsPlain
  <2>5. QED
    BY <2>1, <2>2, <2>3, <2>4 DEF MerkleTypeOK
<1>2. Log \in Seq(Blocks) /\ Len(Log) \in Nat
  BY LogType
<1>3. Log' = blocks
  BY FlushAppends, OneTreeIsPlain DEF AbstractLog!AppendBatch
<1>4. /\ blocks \in Seq(Blocks) /\ Len(blocks) = upgrade.length
  <2>1. upgrade.length = HolderLength + Len(buffers) /\ HolderLength = DurableLength
    BY <1>1 DEF HolderFollowsLog, AppendCounts, HolderLength
  <2>2. Len(Log) = HolderLength
    BY <2>1, LogType
  <2>3. Len(blocks) = Len(Log) + Len(buffers) /\ blocks \in Seq(Blocks)
    BY <1>1, <1>2, ConcatBlocks
  <2>4. QED
    BY <2>1, <2>2, <2>3
<1>5. c = CoreOver(Log) /\ Growing(NodesOver(blocks), c)
  BY <1>1 DEF LogStands, Appending, Growth
<1>6. Grown(NodesOver(blocks), Len(Log))
  <2>1. c.length = Len(Log)
    BY <1>5 DEF CoreOver
  <2>2. Grown(NodesOver(blocks), c.length)
    BY <1>1, <1>5 DEF Growing
  <2>3. QED
    BY <2>1, <2>2
<1> HIDE DEF c, blocks
<1>7. /\ upgrade.roots = TreeRoots(blocks)
      /\ upgrade.byte_length = Total(SizesOf(upgrade.roots))
      /\ LengthInRange(Len(blocks))
  <2>1. RootsFit(NodesOver(blocks), upgrade.roots, Len(blocks))
    BY <1>4, <1>6 DEF Grown
  <2>2. QED
    BY <1>1, <1>4, <1>6, <2>1, RootsAreTree DEF Grown
<1>8. [roots |-> upgrade.roots, length |-> upgrade.length,
       byte_length |-> upgrade.byte_length] = CoreOver(blocks)
  BY <1>4, <1>7, IsCoreOver
<1>9. StandAll(NodesOver(blocks), dbTree', Subtrees(Len(blocks)))
  <2>1. WritesFit(NodesOver(blocks), write.tree, upgrade.length)
    BY <1>6 DEF Grown
  <2>2. StandAll(NodesOver(blocks), write.tree,
                 Subtrees(upgrade.length) \ Subtrees(Len(Log)))
    BY <1>6 DEF Grown
  <2>3. StandAll(NodesOver(blocks), dbTree, Subtrees(Len(Log)))
    <3>1. ASSUME NEW place \in Subtrees(Len(Log))
          PROVE  Stands(NodesOver(blocks), dbTree, place)
      <4> DEFINE node == TreeNode(Log, place[1], place[2])
      <4>1. NodesOver(blocks)[place] = {node}
        BY <1>1, <1>2, NodesOfPrefix DEF blocks
      <4>2. node.index \in DOMAIN dbTree /\ dbTree[node.index] = node
        BY DEF LogStands, DurableTree, HoldsTree
      <4>3. node.index = NodeIndex(place[1], place[2])
        BY DEF TreeNode
      <4> HIDE DEF node
      <4>4. QED
        BY <4>1, <4>2, <4>3 DEF Stands
    <3>2. QED
      BY <3>1 DEF StandAll
  <2>4. QED
    BY <1>1, <1>2, <1>4, <2>1, <2>2, <2>3, FlushStands
<1>10. HoldsTree(dbTree', blocks)
  <2>1. ASSUME NEW sd \in Subtrees(Len(blocks))
        PROVE  /\ TreeNode(blocks, sd[1], sd[2]).index \in DOMAIN dbTree'
               /\ dbTree'[TreeNode(blocks, sd[1], sd[2]).index]
                    = TreeNode(blocks, sd[1], sd[2])
    <3>1. NodesOver(blocks)[sd] = {TreeNode(blocks, sd[1], sd[2])}
      BY <1>4, NodesOfPrefix
    <3>2. Stands(NodesOver(blocks), dbTree', sd)
      BY <1>9 DEF StandAll
    <3>3. TreeNode(blocks, sd[1], sd[2]).index = NodeIndex(sd[1], sd[2])
      BY DEF TreeNode
    <3>4. QED
      BY <3>1, <3>2, <3>3 DEF Stands
  <2>2. QED
    BY <2>1 DEF HoldsTree
<1>11. DurableTree'
  <2>1. dbHead'.root_hash = RootHash(TreeRoots(blocks))
    BY <1>1, <1>7, HeadOfUpgrade DEF RootHash
  <2>2. QED
    BY <1>3, <1>10, <2>1 DEF DurableTree, RootHash
<1>12. QED
  BY <1>1, <1>3, <1>8, <1>11 DEF LogStands, Appending

(* The other steps of an append keep the disk.                             *)
LEMMA AppendLogStands ==
  ASSUME TypeOK, OneTreeUse, HolderFollowsLog, TreesInv, LogStands,
         QueueBatch \/ QueueBatchFails \/ FlushFails \/ Commit \/ AppendFails
  PROVE  LogStands'
<1>1. /\ caller = Holder /\ Holder \in Handles
      /\ DOMAIN core = Handles /\ MerkleTypeOK
  BY HolderType, OneTreeIsPlain DEF TypeOK
<1>2. UNCHANGED dbVars /\ Log' = Log /\ DurableTree'
  <2>1. UNCHANGED dbVars
    BY DEF QueueBatch, QueueBatchFails, FlushFails, Commit, AppendFails
  <2>2. QED
    BY <2>1 DEF LogStands, DurableTree, Log, dbVars
<1>3. CASE QueueBatch
  <2>1. /\ pc = "appended" /\ pc' = "flush"
        /\ UNCHANGED <<core, status, upgrade, frame>>
        /\ write'.tree = write.tree
    BY <1>1, <1>3 DEF QueueBatch, MerkleTypeOK
  <2>2. Growing(Growth, core[Holder])
    BY <2>1 DEF LogStands, Appending
  <2>3. ASSUME NEW c, c = core[Holder], NEW nodes, nodes = Growth
        PROVE  Growing(nodes, c)'
    BY <2>1, <2>2, <2>3, SameGrown DEF Growing
  <2>4. core[Holder]' = core[Holder] /\ Growth' = Growth
    BY <1>2, <2>1 DEF Growth
  <2>5. Growing(Growth, core[Holder])'
    BY <2>3, <2>4
  <2>6. QED
    BY <1>2, <2>1, <2>5 DEF LogStands
<1>4. CASE QueueBatchFails \/ FlushFails
  <2>1. /\ pc' = "failed" /\ pc # "commit" /\ UNCHANGED <<core, status>>
    BY <1>4 DEF QueueBatchFails, FlushFails
  <2>2. Growing(Growth, core[Holder])'
    BY <2>1 DEF Growing
  <2>3. QED
    BY <1>2, <2>1, <2>2 DEF LogStands
<1>5. CASE Commit
  <2>1. /\ pc = "commit" /\ pc' = "idle"
        /\ core'[Holder] = [roots |-> upgrade.roots, length |-> upgrade.length,
                            byte_length |-> upgrade.byte_length]
    BY <1>1, <1>5 DEF Commit, Return
  <2>2. core'[Holder] = CoreOver(Log)
    BY <2>1 DEF LogStands
  <2>3. QED
    BY <1>2, <2>1, <2>2, QuietLog DEF Appending
<1>6. CASE AppendFails
  <2>1. pc = "failed" /\ pc' = "idle" /\ UNCHANGED <<core, status>>
    BY <1>6 DEF AppendFails, Return
  <2>2. QED
    BY <1>2, <2>1, QuietLog DEF LogStands, Appending
<1>7. QED
  BY <1>3, <1>4, <1>5, <1>6

(* Between calls, and in a crash.                                          *)
LEMMA BetweenCallsLog ==
  ASSUME TypeOK, OneTreeUse, LogStands,
         \/ \E h \in Handles : Open(h) \/ CallLoad(h) \/ Destroy(h)
         \/ \E h \in Handles, batch \in Batches : CallAppend(h, batch)
         \/ Crash
  PROVE  LogStands'
<1>1. /\ \A h \in Handles : h = Holder
      /\ Holder \in Handles /\ DOMAIN status = Handles
  BY HolderType, OneTreeIsPlain DEF OneHandleUse
<1>2. UNCHANGED dbVars
  BY DEF Open, CallLoad, Destroy, CallAppend, Crash
<1>3. CASE \E h \in Handles, batch \in Batches : CallAppend(h, batch)
  <2>1. /\ pc = "idle" /\ pc' = "append" /\ UNCHANGED <<core, status>>
        /\ ~upgrade'.forked /\ write'.tree = EmptyMap
    BY <1>3 DEF CallAppend, NoUpgrade, NoWrite
  <2>2. Log' = Log /\ DurableTree'
    BY <1>2 DEF LogStands, DurableTree, Log, dbVars
  <2>3. Growing(Growth, core[Holder])'
    BY <2>1, QuietGrowing
  <2>4. QED
    BY <2>1, <2>2, <2>3 DEF LogStands
<1>4. CASE \/ \E h \in Handles : Open(h) \/ CallLoad(h) \/ Destroy(h)
           \/ Crash
  <2>1. status'[Holder] # "open" /\ pc' \in {"idle", "load_head"}
    BY <1>1, <1>4
       DEF Open, CallLoad, Destroy, Crash, SetStatus, Return, merkleVars
  <2>2. QED
    BY <1>2, <2>1, QuietLog DEF Appending
<1>5. QED
  BY <1>3, <1>4

(* No handle, and a tree over nothing.                                     *)
LEMMA InitLog ==
  ASSUME Init, OneTreeUse
  PROVE  LogStands
<1>1. /\ dbHead = NoHead /\ Log = <<>> /\ pc = "idle"
      /\ status[Holder] # "open"
  BY OneTreeIsPlain DEF Init, Log, OneHandleUse
<1>2. DurableTree
  <2>1. Len(<<>>) = 0 /\ 0 \in Nat
    OBVIOUS
  <2>2. ASSUME NEW sd \in Subtrees(0)
        PROVE  FALSE
    <3>1. sd[1] \in Nat /\ sd[2] \in Nat /\ sd[1] + 2^sd[2] <= 0
      BY PlaceIs
    <3>2. 2^sd[2] \in Nat /\ 2^sd[2] > 0
      BY <3>1, PowerGrows
    <3>3. QED
      BY <3>1, <3>2
  <2>3. QED
    BY <1>1, <2>1, <2>2 DEF DurableTree, HoldsTree
<1>3. QED
  BY <1>1, <1>2 DEF LogStands, Appending

(* Every step keeps the tree on disk and in the handle that over the log.  *)
LEMMA NextLog ==
  ASSUME TypeOK, OneTreeUse, HolderFollowsLog, TreesInv, TreesInv', LogStands,
         [Next]_vars
  PROVE  LogStands'
<1>1. OneHandleUse /\ CheckoutLengths = {}
  BY OneTreeIsPlain DEF PlainUse
<1>2. CASE UNCHANGED vars
  <2>1. UNCHANGED <<dbVars, core, status, upgrade, write, frame, pc>>
    BY <1>2 DEF vars, merkleVars
  <2>2. Log' = Log /\ DurableTree' /\ Growth' = Growth
    BY <2>1 DEF LogStands, DurableTree, Log, Growth, dbVars
  <2>3. Growing(Growth, core[Holder]) => Growing(Growth, core[Holder])'
    BY <2>1, <2>2 DEF Growing, Grown, Merging, MergingAt
  <2>4. QED
    BY <2>1, <2>2, <2>3 DEF LogStands
<1>3. CASE Next
  BY <1>1, <1>3, LoadLog, GrowTreeLog, FlushLog, AppendLogStands,
     BetweenCallsLog DEF Next, CallStep
<1>4. QED
  BY <1>2, <1>3

(* The invariant of the log and its tree holds in every state.             *)
LEMMA LogAlwaysStands ==
  ASSUME OneTreeUse
  PROVE  Spec => [](TypeOK /\ HolderFollowsLog /\ TreesInv /\ LogStands)
<1>1. OneHandleUse /\ PlainUse
  BY OneTreeIsPlain
<1>2. Spec => []HolderFollowsLog
  BY <1>1, HolderAlwaysFollowsLog
<1>3. Spec => [](TypeOK /\ AppendCounts /\ TreesInv)
  BY <1>1, TreesHold
<1>4. Init => LogStands
  BY InitLog
<1>5. /\ TypeOK /\ HolderFollowsLog /\ TreesInv /\ LogStands /\ TreesInv'
      /\ [Next]_vars
      => LogStands'
  BY NextLog
<1>6. QED
  BY <1>2, <1>3, <1>4, <1>5, PTL DEF Spec

(* With one handle: whatever fails, every subtree over the durable blocks  *)
(* is stored, its hash commits to them, and the head's root hash to the    *)
(* roots (hc_merkle_tree_append, hc_core_append).                          *)
THEOREM TreeAlwaysDurable ==
  ASSUME OneTreeUse
  PROVE  Spec => []DurableTree
<1>1. LogStands => DurableTree
  BY DEF LogStands
<1>2. QED
  BY <1>1, LogAlwaysStands, PTL

(* And between calls the handle is what the records on disk say, roots and *)
(* byte length included (hc_core_append, hc_core_commit, hc_core_load).    *)
THEOREM HandleAlwaysMatches ==
  ASSUME OneTreeUse
  PROVE  Spec => []HandleMatchesDisk
<1>1. ASSUME TypeOK, LogStands
      PROVE  HandleMatchesDisk
  <2>1. ASSUME NEW h \in Handles, Settled(h)
        PROVE  core[h] = CoreOver(Log)
    <3>1. h = Holder /\ caller = Holder
      BY HolderType, OneTreeIsPlain, <1>1 DEF OneHandleUse
    <3>2. QED
      BY <1>1, <2>1, <3>1 DEF Settled, LogStands
  <2>2. QED
    BY <2>1 DEF HandleMatchesDisk
<1>2. QED
  BY <1>1, LogAlwaysStands, PTL

=============================================================================
