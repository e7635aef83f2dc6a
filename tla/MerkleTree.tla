----------------------------- MODULE MerkleTree -----------------------------
(***************************************************************************)
(* hc_merkle_tree_append (src/merkle_tree.c): leaves are appended to an    *)
(* upgrade, a copy of a core's roots, and equal-height neighbours are      *)
(* merged into their parent; every node made on the way is queued in a     *)
(* write batch.  The function runs on one thread; its loop is modelled one *)
(* iteration at a time, so that every place where it can fail is visible.  *)
(*                                                                         *)
(* A digest is abstracted to what it commits to: the sequence of the       *)
(* blocks under the node.  Sizes stay numbers (BlockLen).                  *)
(*                                                                         *)
(* HcCore and MerkleUpgrade extend this module; the core that the upgrade  *)
(* was made from (upgrade->core) is the parameter c of the actions.        *)
(***************************************************************************)
EXTENDS FlatTree, Sums

CONSTANTS
  Blocks,           \* The blocks (payloads) that may be appended.
  BlockLen,         \* The length in bytes of each block.
  MaxRoots,         \* HC_MERKLE_TREE_MAX_ROOTS, 64 in the code.
  InitialCapacity,  \* The first capacity of an array, 8 in the code.
  NoHead            \* "No head record".

ASSUME BlockAssumption == BlockLen \in [Blocks -> Nat]
ASSUME MaxRootsAssumption == MaxRoots \in Nat /\ MaxRoots > MaxDepth
ASSUME InitialCapacityAssumption == InitialCapacity \in Nat \ {0}
(* An array can grow to hold MaxRoots entries within Depths doublings.     *)
ASSUME CapacityAssumption == InitialCapacity * 2^MaxDepth >= MaxRoots

VARIABLES
  upgrade,  \* hc_core_upgrade_t of the call in progress.
  write,    \* Its hc__db_core_write_t: the batch collected so far.
  frame,    \* Locals of the call: the blocks, the loop index, the iterator.
  pc        \* Where the call is; "idle" between calls.

merkleVars == <<upgrade, write, frame, pc>>

Node == [index : Nat, size : Nat, hash : Seq(Blocks)]
HeadRecord == [length : Nat, root_hash : Seq(Node)]

(* The fields of hc_core_t that appending concerns.                        *)
Core == [roots : Seq(Node), length : Nat, byte_length : Nat]

ASSUME NoHeadAssumption == NoHead \notin HeadRecord

(* A map from some numbers to values, as a column of the store is.         *)
IsMap(map, Values) ==
  /\ DOMAIN map \subseteq Nat
  /\ \A k \in DOMAIN map : map[k] \in Values

(* A store key -> value map with the entry k set to v.                     *)
Put(map, k, v) ==
  [x \in DOMAIN map \cup {k} |-> IF x = k THEN v ELSE map[x]]

(* A map after a batch of puts.                                            *)
PutAll(map, batch) ==
  [x \in DOMAIN map \cup DOMAIN batch |->
     IF x \in DOMAIN batch THEN batch[x] ELSE map[x]]

SizesOf(nodes) == [k \in DOMAIN nodes |-> nodes[k].size]

EmptyMap == [x \in {} |-> x]

NoUpgrade ==
  [forked |-> FALSE, roots |-> <<>>, capacity |-> 0,
   length |-> 0, byte_length |-> 0]

NoWrite == [tree |-> EmptyMap, blocks |-> EmptyMap, head |-> NoHead]

NoFrame == [buffers |-> <<>>, i |-> 0, ite |-> LeafIterator(0)]

(* Fault: the size is one short.                                           *)
LeafNodeShort(index, block) ==
  [index |-> index, size |-> BlockLen[block] - 1, hash |-> <<block>>]

(* hc_crypto_data: the leaf over one block.                                *)
LeafNode(index, block) ==
  [index |-> index, size |-> BlockLen[block], hash |-> <<block>>]

(* Fault: the digest takes its arguments in the order they come in.        *)
ParentNodeUnordered(index, a, b) ==
  [index |-> index, size |-> a.size + b.size, hash |-> a.hash \o b.hash]

(* hc_crypto_parent: the digest covers the child with the smaller index    *)
(* first, whatever the order of the arguments.                             *)
ParentNode(index, a, b) ==
  [index |-> index,
   size  |-> a.size + b.size,
   hash  |-> IF a.index < b.index THEN a.hash \o b.hash ELSE b.hash \o a.hash]

(* hc__array_grow on an empty array: the first of InitialCapacity, twice   *)
(* that, ... that holds min entries (at most one element).                 *)
GrownTo(min) ==
  {c \in {InitialCapacity * 2^k : k \in Depths} :
     c >= min /\ (c = InitialCapacity \/ c < 2 * min)}

(* Fault: no room for the roots that are copied.                           *)
ForkCapacityOfBlocks(c, count) ==
  IF 2 * count > MaxRoots THEN MaxRoots ELSE 2 * count

ForkCapacity(c, count) ==
  LET wanted == Len(c.roots) + 2 * count
  IN  IF wanted > MaxRoots THEN MaxRoots ELSE wanted

(* Fault: every append call forks again.                                   *)
ForkedEveryTime(c) ==
  {[forked |-> TRUE, roots |-> c.roots, capacity |-> capacity,
    length |-> c.length, byte_length |-> c.byte_length] :
     capacity \in GrownTo(ForkCapacity(c, Len(frame.buffers)))}

(* The lazy fork: the first append call copies the core's state.           *)
ForkedFrom(c) ==
  IF upgrade.forked
  THEN {upgrade}
  ELSE {[forked |-> TRUE, roots |-> c.roots, capacity |-> capacity,
         length |-> c.length, byte_length |-> c.byte_length] :
          capacity \in GrownTo(ForkCapacity(c, Len(frame.buffers)))}

-----------------------------------------------------------------------------
(* count == 0: returns before the fork, the upgrade stays as it is.        *)
AppendNothing ==
  /\ pc = "append"
  /\ frame.buffers = <<>>
  /\ pc' = "appended"
  /\ UNCHANGED <<upgrade, write, frame>>

ForkUpgrade(c) ==
  /\ pc = "append"
  /\ frame.buffers # <<>>
  /\ upgrade' \in ForkedFrom(c)
  /\ pc' = "leaf"
  /\ UNCHANGED <<write, frame>>

(* Either of the two hc__array_grow calls of the prologue fails.           *)
ForkFails(c) ==
  /\ pc = "append"
  /\ frame.buffers # <<>>
  /\ upgrade' \in ForkedFrom(c) \cup {upgrade}
  /\ pc' = "failed"
  /\ UNCHANGED <<write, frame>>

(* Fault: the number of roots is not limited.                              *)
PushLeafUnlimited ==
  /\ pc = "leaf"
  /\ frame.i < Len(frame.buffers)
  /\ LET block == frame.buffers[frame.i + 1]
         leaf  == LeafNode(2 * upgrade.length, block)
     IN  /\ upgrade' = [upgrade EXCEPT !.roots = Append(@, leaf),
                                       !.length = @ + 1,
                                       !.byte_length = @ + BlockLen[block]]
         /\ frame' = [frame EXCEPT !.ite = LeafIterator(upgrade.length)]
         /\ write' = [write EXCEPT !.tree = Put(@, leaf.index, leaf)]
         /\ pc' = "merge"

(* One more leaf: pushed on the roots, then queued; queueing it may fail.  *)
PushLeaf ==
  /\ pc = "leaf"
  /\ frame.i < Len(frame.buffers)
  /\ Len(upgrade.roots) < MaxRoots
  /\ LET block == frame.buffers[frame.i + 1]
         leaf  == LeafNode(2 * upgrade.length, block)
     IN  /\ upgrade' = [upgrade EXCEPT !.roots = Append(@, leaf),
                                       !.length = @ + 1,
                                       !.byte_length = @ + BlockLen[block]]
         /\ frame' = [frame EXCEPT !.ite = LeafIterator(upgrade.length)]
         /\ \/ /\ write' = [write EXCEPT !.tree = Put(@, leaf.index, leaf)]
               /\ pc' = "merge"
            \/ /\ pc' = "failed"
               /\ UNCHANGED write

RootsFull ==
  /\ pc = "leaf"
  /\ frame.i < Len(frame.buffers)
  /\ Len(upgrade.roots) >= MaxRoots
  /\ pc' = "failed"
  /\ UNCHANGED <<upgrade, write, frame>>

(* The last two roots are siblings.                                        *)
CanMerge ==
  /\ Len(upgrade.roots) > 1
  /\ Sibling(frame.ite).index = upgrade.roots[Len(upgrade.roots) - 1].index

(* Fault: the parent is not queued.                                        *)
MergeUnqueued ==
  /\ pc = "merge"
  /\ CanMerge
  /\ LET n   == Len(upgrade.roots)
         ite == Parent(Sibling(frame.ite))
     IN  /\ upgrade' = [upgrade EXCEPT !.roots =
              Append(SubSeq(@, 1, n - 2),
                     ParentNode(ite.index, upgrade.roots[n],
                                upgrade.roots[n - 1]))]
         /\ frame' = [frame EXCEPT !.ite = ite]
  /\ UNCHANGED <<write, pc>>

(* They are replaced by their parent, which is queued.                     *)
Merge ==
  /\ pc = "merge"
  /\ CanMerge
  /\ LET n      == Len(upgrade.roots)
         ite    == Parent(Sibling(frame.ite))
         parent == ParentNode(ite.index, upgrade.roots[n], upgrade.roots[n - 1])
     IN  /\ upgrade' = [upgrade EXCEPT !.roots =
                          Append(SubSeq(@, 1, n - 2), parent)]
         /\ frame' = [frame EXCEPT !.ite = ite]
         /\ \/ /\ write' = [write EXCEPT !.tree = Put(@, parent.index, parent)]
               /\ UNCHANGED pc
            \/ /\ pc' = "failed"
               /\ UNCHANGED write

(* One root left, or no sibling (the iterator is toggled back).            *)
MergeDone ==
  /\ pc = "merge"
  /\ ~CanMerge
  /\ frame' = [frame EXCEPT !.i = @ + 1]
  /\ pc' = "leaf"
  /\ UNCHANGED <<upgrade, write>>

LeavesDone ==
  /\ pc = "leaf"
  /\ frame.i >= Len(frame.buffers)
  /\ pc' = "appended"
  /\ UNCHANGED <<upgrade, write, frame>>

MerkleStep(c) ==
  \/ AppendNothing
  \/ ForkUpgrade(c)
  \/ ForkFails(c)
  \/ PushLeaf
  \/ RootsFull
  \/ Merge
  \/ MergeDone
  \/ LeavesDone

-----------------------------------------------------------------------------
(* The tree a sequence of blocks should have, defined without appending:   *)
(* the node over the leaves s .. s + 2^d - 1, and the roots of the whole.  *)
ByteLength(blocks) == Total([k \in DOMAIN blocks |-> BlockLen[blocks[k]]])

TreeNode(blocks, s, d) ==
  LET covered == SubSeq(blocks, s + 1, s + 2^d)
  IN  [index |-> NodeIndex(s, d),
       size  |-> ByteLength(covered),
       hash  |-> covered]

TreeRoots(blocks) ==
  LET n == Len(blocks)
  IN  [k \in 1..RootCount(n) |->
         TreeNode(blocks, RootStart(n, k), RootDepth(n, k))]

(* What a core over these blocks looks like in memory.                     *)
CoreOver(blocks) ==
  [roots |-> TreeRoots(blocks),
   length |-> Len(blocks),
   byte_length |-> ByteLength(blocks)]

(* A store of nodes holds every complete subtree over the blocks.          *)
HoldsTree(tree, blocks) ==
  \A sd \in Subtrees(Len(blocks)) :
    LET node == TreeNode(blocks, sd[1], sd[2])
    IN  node.index \in DOMAIN tree /\ tree[node.index] = node

-----------------------------------------------------------------------------
(* The state of a call has its types.                                      *)
MerkleTypeOK ==
  /\ upgrade \in [forked : BOOLEAN, roots : Seq(Node), capacity : Nat,
                  length : Nat, byte_length : Nat]
  /\ frame \in [buffers : Seq(Blocks), i : Nat, ite : Iterator]
  /\ write = [tree |-> write.tree, blocks |-> write.blocks, head |-> write.head]
  /\ IsMap(write.tree, Node)
  /\ IsMap(write.blocks, Blocks)
  /\ write.head # NoHead => write.head \in HeadRecord

(* The array of roots is only grown by the fork, for twice as many entries *)
(* as blocks: no leaf is ever pushed past its capacity                     *)
(* (upgrade->roots.buffers[upgrade->roots.length++], merkle_tree.c:45).    *)
RootsFitCapacity == Len(upgrade.roots) <= upgrade.capacity

(* Why the array of roots never overflows when the upgrade is forked by    *)
(* the call: each iteration adds at most one root to those of the core c,  *)
(* the array has room for twice as many entries as iterations, and where   *)
(* that was cut to MaxRoots, so is the number of roots.                    *)
Room(c) ==
  /\ RootsFitCapacity
  /\ Len(upgrade.roots) <= MaxRoots
  /\ pc = "append" => ~upgrade.forked
  /\ pc \in {"leaf", "merge"} =>
       upgrade.capacity >= ForkCapacity(c, Len(frame.buffers))
  /\ pc = "leaf" => Len(upgrade.roots) <= Len(c.roots) + frame.i
  /\ pc = "merge" =>
       /\ frame.i < Len(frame.buffers)
       /\ Len(upgrade.roots) <= Len(c.roots) + frame.i + 1

=============================================================================
