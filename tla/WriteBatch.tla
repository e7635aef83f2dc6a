----------------------------- MODULE WriteBatch -----------------------------
(***************************************************************************)
(* The write batches of include/hc/db.h.  A core's (hc__db_core_write_t)   *)
(* queues tree nodes, blocks and deletes in three arrays and has the head  *)
(* beside them; the store's (hc__db_store_write_t) has an array of cores   *)
(* and the store head.  A flush hands all of it to rocksdb as one write.   *)
(***************************************************************************)
EXTENDS KvBatch

CONSTANTS
  NodeKeys,   \* The keys of the tree nodes of the core.
  BlockKeys,  \* The keys of its blocks.
  CoreKeys,   \* The keys of the cores of the store, by discovery key.
  HeadKey,    \* The key of the head, of the core or of the store.
  Values,     \* The records.
  MaxCalls    \* Bound: no more queueing calls on a batch.

VARIABLES
  side,        \* Whose batches they are: a core's or the store's.
  column,      \* The column family, a map from keys to records.
  tree_nodes,  \* The arrays of the batch.
  blocks,
  deletes,
  cores,
  head,        \* The head of the batch, or None (has_head is 0).
  calls,       \* The puts and deletes that were asked for, in order.
  promised     \* How many writes of each array were made room for.

arrays == <<tree_nodes, blocks, deletes, cores>>
batch == <<arrays, head>>
writeVars == <<side, column, batch, calls, promised>>

RecordKeys == NodeKeys \cup BlockKeys \cup CoreKeys

(* Keys of different kinds differ (Keys).                                  *)
ASSUME KeysAssumption ==
  NodeKeys \cap BlockKeys = {} /\ HeadKey \notin RecordKeys
ASSUME NoneAssumption == None \notin Values

Write == [type : {"put", "delete"},
          key : RecordKeys \cup {HeadKey, Stray}, value : Values \cup {None}]

Promised == [{"tree_nodes", "blocks", "deletes", "cores"} -> Nat]

NoPromises == [tree_nodes |-> 0, blocks |-> 0, deletes |-> 0, cores |-> 0]

WriteInit ==
  /\ side \in {"core", "store"}
  /\ column = [k \in {} |-> None]
  /\ tree_nodes = EmptyArray
  /\ blocks = EmptyArray
  /\ deletes = EmptyArray
  /\ cores = EmptyArray
  /\ head = None
  /\ calls = <<>>
  /\ promised = NoPromises

-----------------------------------------------------------------------------
Calls(whose, write, name) ==
  /\ side = whose
  /\ Len(calls) < MaxCalls
  /\ calls' = Append(calls, write)
  /\ promised' =
       [promised EXCEPT ![name] = IF @ = 0 THEN 0 ELSE @ - 1]
  /\ UNCHANGED <<side, column>>

WriteTreeNode(k, v) ==
  /\ tree_nodes' \in Queued(tree_nodes, PutOf(k, v))
  /\ Calls("core", PutOf(k, v), "tree_nodes")
  /\ UNCHANGED <<blocks, deletes, cores, head>>

WriteBlock(k, v) ==
  /\ blocks' \in Queued(blocks, PutOf(k, v))
  /\ Calls("core", PutOf(k, v), "blocks")
  /\ UNCHANGED <<tree_nodes, deletes, cores, head>>

(* hc__db_core_write_del_tree_node and hc__db_core_write_del_block, which  *)
(* differ in the key alone.                                                *)
Delete(k) ==
  /\ deletes' \in Queued(deletes, DeleteOf(k))
  /\ Calls("core", DeleteOf(k), "deletes")
  /\ UNCHANGED <<tree_nodes, blocks, cores, head>>

PutCore(k, v) ==
  /\ cores' \in Queued(cores, PutOf(k, v))
  /\ Calls("store", PutOf(k, v), "cores")
  /\ UNCHANGED <<tree_nodes, blocks, deletes, head>>

(* hc__db_core_write_head, hc__db_store_write_set_head: the head is set,   *)
(* over one that was set before.                                           *)
WriteHead(v) ==
  /\ Len(calls) < MaxCalls
  /\ head' = v
  /\ calls' = Append(calls, PutOf(HeadKey, v))
  /\ UNCHANGED <<side, column, arrays, promised>>

(* A queueing or an ensure call returns -1 when its array has to grow and  *)
(* cannot: the array is as it was, and the caller may go on.               *)
GrowFails ==
  /\ \/ /\ side = "core"
        /\ \E array \in {tree_nodes, blocks, deletes}, n \in 1..MaxCalls :
             GrowCanFail(array, Len(array.items) + n)
     \/ side = "store" /\ QueueCanFail(cores)
  /\ UNCHANGED <<side, column, batch, calls, promised>>

-----------------------------------------------------------------------------
(* Fault: room for n in all, not for n more.                               *)
EnsuredInAll(array, n) == Grown(array, n)

(* The ensure functions of a core make room for n entries more.            *)
Ensured(array, n) == Grown(array, Len(array.items) + n)

(* Bound: a caller reserves no more than it may still write.               *)
Promises(name, n) ==
  /\ side = "core"
  /\ n + promised.tree_nodes + promised.blocks + promised.deletes
       <= MaxCalls - Len(calls)
  /\ promised' = [promised EXCEPT ![name] = IF @ > n THEN @ ELSE n]
  /\ UNCHANGED <<side, column, calls, cores, head>>

EnsureTreeNodes(n) ==
  /\ tree_nodes' \in Ensured(tree_nodes, n)
  /\ Promises("tree_nodes", n)
  /\ UNCHANGED <<blocks, deletes>>

EnsureBlocks(n) ==
  /\ blocks' \in Ensured(blocks, n)
  /\ Promises("blocks", n)
  /\ UNCHANGED <<tree_nodes, deletes>>

EnsureDeletes(n) ==
  /\ deletes' \in Ensured(deletes, n)
  /\ Promises("deletes", n)
  /\ UNCHANGED <<tree_nodes, blocks>>

-----------------------------------------------------------------------------
HeadWrites == IF head = None THEN <<>> ELSE <<PutOf(HeadKey, head)>>

(* Fault: the deletes go first.                                            *)
WritesDeletesFirst ==
  Sliced(deletes) \o Sliced(tree_nodes) \o Sliced(blocks) \o Sliced(cores)
    \o HeadWrites

(* What a flush hands over, in this order.                                 *)
Writes ==
  IF side = "core"
  THEN Sliced(tree_nodes) \o Sliced(blocks) \o Sliced(deletes) \o HeadWrites
  ELSE HeadWrites \o Sliced(cores)

(* The batch stays as it is: it is up to the caller to destroy it.         *)
Flush ==
  /\ column' = AppliedAll(column, Writes)
  /\ UNCHANGED <<side, batch, calls, promised>>

(* malloc or rocksdb_write fails; with nothing to write neither is called. *)
FlushFails ==
  /\ Writes # <<>>
  /\ UNCHANGED <<side, column, batch, calls, promised>>

(* The destroy functions, and a new batch on the same stack; also what a   *)
(* crash leaves.                                                           *)
WriteDestroy ==
  /\ tree_nodes' = EmptyArray
  /\ blocks' = EmptyArray
  /\ deletes' = EmptyArray
  /\ cores' = EmptyArray
  /\ head' = None
  /\ calls' = <<>>
  /\ promised' = NoPromises
  /\ UNCHANGED <<side, column>>

WriteNext ==
  \/ \E v \in Values :
       \/ \E k \in NodeKeys : WriteTreeNode(k, v)
       \/ \E k \in BlockKeys : WriteBlock(k, v)
       \/ \E k \in CoreKeys : PutCore(k, v)
       \/ WriteHead(v)
  \/ \E k \in NodeKeys \cup BlockKeys : Delete(k)
  \/ GrowFails
  \/ \E n \in 1..MaxCalls :
       EnsureTreeNodes(n) \/ EnsureBlocks(n) \/ EnsureDeletes(n)
  \/ Flush
  \/ FlushFails
  \/ WriteDestroy

-----------------------------------------------------------------------------
(* The types of the variables of the writes; no array holds more than its  *)
(* capacity.                                                               *)
WriteTypeOK ==
  /\ side \in {"core", "store"}
  /\ DOMAIN column \subseteq RecordKeys \cup {HeadKey}
  /\ \A k \in DOMAIN column : column[k] \in Values
  /\ \A array \in {tree_nodes, blocks, deletes, cores} :
       /\ Len(array.items) <= array.capacity
       /\ \A i \in DOMAIN array.items :
            /\ array.items[i].op \in Write
            /\ array.items[i].here \in BOOLEAN
  /\ head \in Values \cup {None}
  /\ calls \in Seq(Write)
  /\ promised \in Promised

(* The keys that are put after a delete of theirs in the same batch.       *)
PutTooLate ==
  {k \in RecordKeys : \E i, j \in DOMAIN calls :
     /\ i < j
     /\ calls[i].type = "delete" /\ calls[i].key = k
     /\ calls[j].type = "put" /\ calls[j].key = k}

(* A flush has the effect of the calls one after the other, although it    *)
(* does all the puts first, but for those of a record that the batch had   *)
(* deleted before: that record ends deleted, and no other one suffers      *)
(* (hc__db_core_write_flush, hc__db_store_write_flush).                    *)
OrderKept ==
  LET asked == AppliedAll(column, calls)
  IN  AppliedAll(column, Writes) = Restrict(asked, DOMAIN asked \ PutTooLate)

(* Writes that room was made for cannot fail: between an ensure and as     *)
(* many writes, whatever else is queued, no array grows again (the         *)
(* hc__db_core_write_ensure functions, as hc_core_append calls them).      *)
ReservationsHold ==
  /\ tree_nodes.capacity >= Len(tree_nodes.items) + promised.tree_nodes
  /\ blocks.capacity >= Len(blocks.items) + promised.blocks
  /\ deletes.capacity >= Len(deletes.items) + promised.deletes

-----------------------------------------------------------------------------
(* The batch as AtomicBatch sees it.                                       *)
QueuedPuts == Overridden(Overridden(LastPuts(tree_nodes.items),
                                    LastPuts(blocks.items)),
                         LastPuts(cores.items))

DeletedKeys == {entry.op.key : entry \in Range(deletes.items)}

Atomic == INSTANCE AtomicBatch WITH
  Keys <- RecordKeys, stored <- column,
  puts <- QueuedPuts, dels <- DeletedKeys, top <- head

(* The arrays, moving and growing as they fill, are one batch that takes   *)
(* effect all at once or not at all, under the keys it was given: the tree *)
(* with its head, the counters of the store with the pointers they gave    *)
(* out (hc__db_core_write_flush, hc__db_store_write_flush, hc__key_slice). *)
ImplementsAtomicBatch == Atomic!BatchSpec

-----------------------------------------------------------------------------
PutsTo(Keys) == [type : {"put"}, key : Keys, value : Values]
DeletesOf(Keys) == [type : {"delete"}, key : Keys, value : {None}]
CallOps ==
  PutsTo(RecordKeys \cup {HeadKey}) \cup DeletesOf(NodeKeys \cup BlockKeys)

(* Each array has its own kind of entries, and its side's batches alone.   *)
ArraysHold ==
  /\ side \in {"core", "store"}
  /\ Holds(tree_nodes, PutsTo(NodeKeys))
  /\ Holds(blocks, PutsTo(BlockKeys))
  /\ Holds(deletes, DeletesOf(NodeKeys \cup BlockKeys))
  /\ Holds(cores, PutsTo(CoreKeys))
  /\ side = "core" => cores = EmptyArray
  /\ side = "store" => \A array \in {tree_nodes, blocks, deletes} :
                         array = EmptyArray

(* For each key the arrays know the last put that was asked for, and       *)
(* whether a delete was.                                                   *)
CallsQueued ==
  LET last == LastWrites(calls) IN
  /\ \A k \in DOMAIN last \ {HeadKey} :
       \/ /\ last[k].type = "put"
          /\ k \in DOMAIN QueuedPuts
          /\ QueuedPuts[k] = last[k].value
       \/ last[k].type = "delete" /\ k \in DeletedKeys
  /\ DOMAIN QueuedPuts \subseteq DOMAIN last
  /\ \A k \in DeletedKeys :
       \E i \in DOMAIN calls : calls[i].type = "delete" /\ calls[i].key = k
  /\ \A i \in DOMAIN calls :
       calls[i].type = "delete" => calls[i].key \in DeletedKeys
  /\ head = None <=> HeadKey \notin DOMAIN last
  /\ head # None => last[HeadKey] = PutOf(HeadKey, head)

(* Why the writes of a batch have the effect of its calls and its promises *)
(* hold.  This is inductive.                                               *)
WriteInv ==
  /\ DOMAIN column \subseteq RecordKeys \cup {HeadKey}
  /\ \A k \in DOMAIN column : column[k] \in Values
  /\ head \in Values \cup {None}
  /\ calls \in Seq(CallOps)
  /\ promised \in Promised
  /\ ArraysHold
  /\ CallsQueued
  /\ ReservationsHold

=============================================================================
