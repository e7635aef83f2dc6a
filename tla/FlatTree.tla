------------------------------ MODULE FlatTree ------------------------------
(***************************************************************************)
(* The part of libflattree that libhc uses (an external dependency, see    *)
(* CMakeLists.txt), modelled from its uses in src/merkle_tree.c and        *)
(* src/core.c.                                                             *)
(*                                                                         *)
(* A flat tree numbers the nodes of a binary tree in order: leaf n has     *)
(* index 2n, and the node of depth d whose span starts at leaf s has       *)
(* index 2s + 2^d - 1.  An iterator is a cursor on one node: its index,    *)
(* its offset among the nodes of its depth, and its factor 2^(depth+1).    *)
(***************************************************************************)
EXTENDS Naturals, FiniteSets

CONSTANT
  MaxDepth  \* The deepest tree: leaf counts are below 2^(MaxDepth + 1).

ASSUME MaxDepthAssumption == MaxDepth \in Nat

Depths == 0..MaxDepth

Iterator == [index : Nat, offset : Nat, factor : Nat]

(* flat_tree_iterator_init on a leaf, the only use libhc makes of it.      *)
LeafIterator(n) == [index |-> 2 * n, offset |-> n, factor |-> 2]

(* flat_tree_iterator_sibling: right from an even offset, left from an odd *)
(* one, so that two calls in a row come back to the same node.             *)
Sibling(ite) ==
  IF ite.offset % 2 = 0
  THEN [index  |-> ite.index + ite.factor,
        offset |-> ite.offset + 1,
        factor |-> ite.factor]
  ELSE [index  |-> ite.index - ite.factor,
        offset |-> ite.offset - 1,
        factor |-> ite.factor]

(* flat_tree_iterator_parent: one level up, to the middle of both children.*)
Parent(ite) ==
  [index  |-> IF ite.offset % 2 = 0 THEN ite.index + ite.factor \div 2
                                    ELSE ite.index - ite.factor \div 2,
   offset |-> ite.offset \div 2,
   factor |-> 2 * ite.factor]

-----------------------------------------------------------------------------
(* The node of depth d over the leaves s .. s + 2^d - 1.                   *)
NodeIndex(s, d) == 2 * s + 2^d - 1

(* The complete subtrees that tile n leaves have one depth per bit of n.   *)
RootDepths(n) == {d \in Depths : (n \div 2^d) % 2 = 1}

RootCount(n) == Cardinality(RootDepths(n))

(* Depth and first leaf of the k-th of those subtrees, from the left.      *)
RootDepth(n, k) ==
  CHOOSE d \in RootDepths(n) :
    Cardinality({e \in RootDepths(n) : e >= d}) = k

RootStart(n, k) ==
  LET width == 2^(RootDepth(n, k) + 1) IN (n \div width) * width

(* flat_tree_full_roots of an index 2n: the roots over n leaves.           *)
FullRoots(n) ==
  [k \in 1..RootCount(n) |-> NodeIndex(RootStart(n, k), RootDepth(n, k))]

(* First leaf and depth of every complete subtree over n leaves.           *)
Subtrees(n) ==
  {sd \in (0..n) \X Depths : sd[1] % 2^sd[2] = 0 /\ sd[1] + 2^sd[2] <= n}

=============================================================================
