------------------------------ MODULE MCHcCore ------------------------------
(***************************************************************************)
(* Values for TLC: two blocks, one of them empty, and the batches of up to *)
(* two or three of them.                                                   *)
(***************************************************************************)
EXTENDS HcCoreLog, TLC

CONSTANTS b1, b2, h1, h2

TwoBlocks == {b1, b2}
TwoBlockLen == b1 :> 0 @@ b2 :> 3

OneBlock == {b2}
OneBlockLen == b2 :> 3

PairBatches == UNION {[1..n -> Blocks] : n \in 1..2}
AllBatches == PairBatches \cup {<<>>}
TripleBatches == UNION {[1..n -> Blocks] : n \in 1..3}

OneHandle == {h1}
TwoHandles == {h1, h2}

NoLengths == {}
SomeLengths == {0, 3}

ZeroNode == [index |-> 0, size |-> 0, hash |-> <<>>]
OneJunkNode == {ZeroNode}
TwoJunkNodes == {ZeroNode, [index |-> 1, size |-> 7, hash |-> <<b2>>]}

=============================================================================
