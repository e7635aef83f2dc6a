---------------------------- MODULE MCStoreCores ----------------------------
(***************************************************************************)
(* Values for TLC: single blocks.  Handles and discovery keys are          *)
(* interchangeable.                                                        *)
(***************************************************************************)
EXTENDS StoreCores, TLC

SomeBlocks == {"a", "b"}
SomeBatches == {<<block>> : block \in SomeBlocks}

Symmetric == Permutations(DiscoveryKeys) \cup Permutations(Handles)

=============================================================================
