------------------------------ MODULE Batches -------------------------------
(***************************************************************************)
(* The batches of a core, or those of the store, one after the other: a    *)
(* batch is destroyed before its caller makes another one (src/core.c,     *)
(* src/store.c).  A core and the store have no records in common.          *)
(***************************************************************************)
EXTENDS ReadBatch

vars == <<writeVars, readVars>>

Init == WriteInit /\ ReadInit

NothingToWrite == calls = <<>> /\ \A array \in
  {tree_nodes, blocks, deletes, cores} : array = EmptyArray

NothingToRead == pc = "queue" /\ reads = EmptyArray

Next ==
  \/ NothingToRead /\ WriteNext /\ UNCHANGED readVars
  \/ NothingToWrite /\ ReadNext /\ UNCHANGED writeVars

Spec == Init /\ [][Next]_vars

=============================================================================
