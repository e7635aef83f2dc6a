-------------------------- MODULE MCMerkleUpgrade ---------------------------
(***************************************************************************)
(* Values for TLC.                                                         *)
(***************************************************************************)
EXTENDS MerkleUpgrade, TLC

CONSTANTS b1, b2

TwoBlocks == {b1, b2}
TwoBlockLen == b1 :> 0 @@ b2 :> 3

OneBlock == {b2}
OneBlockLen == b2 :> 3

SmallBatches == UNION {[1..n -> Blocks] : n \in 0..2}

(* One block, and as many as bring 9 roots into an array of 8.             *)
LopsidedBatches == {[k \in 1..n |-> b2] : n \in {1, 255}}

=============================================================================
