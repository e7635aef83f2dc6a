----------------------------- MODULE MCBatches ------------------------------
(***************************************************************************)
(* Values for TLC.  The keys of the cores of a store are interchangeable.  *)
(***************************************************************************)
EXTENDS Batches, TLC

Symmetric == Permutations(CoreKeys)

=============================================================================
