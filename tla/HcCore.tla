------------------------------- MODULE HcCore -------------------------------
(***************************************************************************)
(* The cores over one data pointer (src/core.c): the records rocksdb keeps *)
(* for it, and the hc_core_t handles a process has on it.                  *)
(*                                                                         *)
(* The library is synchronous and takes no lock: one call runs at a time,  *)
(* calls on different handles interleave between calls.  Inside a call,    *)
(* any allocation, read or write may fail, and the process may crash.  The *)
(* one write of an append is an atomic rocksdb batch, and a batch reported *)
(* as failed leaves no record (assumption on rocksdb, external).           *)
(*                                                                         *)
(* core->fork is never assigned anything but what was read, and is always  *)
(* 0: it is left out, with the keys, the manifest and the signature.       *)
(***************************************************************************)
EXTENDS MerkleTree

CONSTANTS
  Handles,          \* The hc_core_t objects.
  Batches,          \* The block sequences that callers append.
  CheckoutLengths,  \* The lengths that callers check out.
  JunkNodes,        \* What a tree node that was never read may contain.
  MaxLength         \* Bound: no append starts that would end above it.

ASSUME BatchesAssumption == Batches \subseteq Seq(Blocks)
ASSUME CheckoutAssumption == CheckoutLengths \subseteq Nat
ASSUME JunkAssumption == JunkNodes # {} /\ JunkNodes \subseteq Node

VARIABLES
  dbHead,    \* The head record of this data pointer, or NoHead.
  dbTree,    \* Its tree node records, by flat tree index.
  dbBlocks,  \* Its block records, by block number.
  core,      \* The state of each handle: roots, length, byte_length.
  status,    \* "closed", "unloaded" (initialised, no load succeeded), "open".
  caller     \* The handle of the call in progress, or of the last one.

dbVars == <<dbHead, dbTree, dbBlocks>>
vars == <<merkleVars, dbVars, core, status, caller>>

(* hc_core_init                                                            *)
EmptyCore == [roots |-> <<>>, length |-> 0, byte_length |-> 0]

Init ==
  /\ upgrade = NoUpgrade
  /\ write = NoWrite
  /\ frame = NoFrame
  /\ pc = "idle"
  /\ dbHead = NoHead
  /\ dbTree = EmptyMap
  /\ dbBlocks = EmptyMap
  /\ core = [h \in Handles |-> EmptyCore]
  /\ status = [h \in Handles |-> "closed"]
  /\ caller \in Handles

(* The call in progress is over; its stack is gone.                        *)
Return ==
  /\ pc' = "idle"
  /\ upgrade' = NoUpgrade
  /\ write' = NoWrite
  /\ frame' = NoFrame

SetStatus(h, s) == status' = [status EXCEPT ![h] = s]

-----------------------------------------------------------------------------
(* hc_core_init and then hc_core_load, as hc_store_get calls them.  After  *)
(* hc_store_create, which only initialises, there is no head to load.      *)
Open(h) ==
  /\ pc = "idle"
  /\ status[h] = "closed"
  /\ core' = [core EXCEPT ![h] = EmptyCore]
  /\ SetStatus(h, "unloaded")
  /\ pc' = "load_head"
  /\ caller' = h
  /\ UNCHANGED <<dbVars, upgrade, write, frame>>

(* hc_core_load again on an initialised handle.                            *)
CallLoad(h) ==
  /\ pc = "idle"
  /\ status[h] \in {"unloaded", "open"}
  /\ SetStatus(h, "unloaded")
  /\ pc' = "load_head"
  /\ caller' = h
  /\ UNCHANGED <<dbVars, core, upgrade, write, frame>>

LoadHeadFails ==
  /\ pc = "load_head"
  /\ Return
  /\ UNCHANGED <<dbVars, core, status, caller>>

LoadHeadMissing ==
  /\ pc = "load_head"
  /\ dbHead = NoHead
  /\ SetStatus(caller, "open")
  /\ Return
  /\ UNCHANGED <<dbVars, core, caller>>

(* length == 0 returns before the roots and byte_length are assigned.      *)
LoadEmptyHead ==
  /\ pc = "load_head"
  /\ dbHead # NoHead
  /\ dbHead.length = 0
  /\ core' = [core EXCEPT ![caller].length = 0]
  /\ SetStatus(caller, "open")
  /\ Return
  /\ UNCHANGED <<dbVars, caller>>

LoadHead ==
  /\ pc = "load_head"
  /\ dbHead # NoHead
  /\ dbHead.length > 0
  /\ core' = [core EXCEPT ![caller].length = dbHead.length]
  /\ pc' = "load_roots"
  /\ UNCHANGED <<dbVars, status, caller, upgrade, write, frame>>

(* The k-th root as the read batch leaves it: a node that is not stored    *)
(* leaves the entry of the array as it was, and is no error.               *)
ReadRoot(old, index, k, junk) ==
  IF index \in DOMAIN dbTree THEN dbTree[index]
  ELSE IF k \in DOMAIN old THEN old[k]
  ELSE junk[k]

(* Reading the item-th root (or growing an array) fails: the roots before  *)
(* it are already decoded over the old ones, the array keeps its length.   *)
LoadRootsFails ==
  /\ pc = "load_roots"
  /\ LET indices == FullRoots(core[caller].length)
         old     == core[caller].roots
     IN  \E item \in 1..RootCount(core[caller].length) :
           core' = [core EXCEPT ![caller].roots =
             [k \in 1..Len(old) |->
                IF k < item /\ indices[k] \in DOMAIN dbTree
                THEN dbTree[indices[k]]
                ELSE old[k]]]
  /\ Return
  /\ UNCHANGED <<dbVars, status, caller>>

(* Fault: byte_length is not reset before the roots are summed.            *)
LoadRootsNoReset ==
  /\ pc = "load_roots"
  /\ LET indices == FullRoots(core[caller].length)
         n       == RootCount(core[caller].length)
         old     == core[caller].roots
     IN  \E junk \in [1..n -> JunkNodes] :
           core' = [core EXCEPT ![caller].roots =
             [k \in 1..n |-> ReadRoot(old, indices[k], k, junk)]]
  /\ pc' = "sum"
  /\ UNCHANGED <<dbVars, status, caller, upgrade, write, frame>>

LoadRoots ==
  /\ pc = "load_roots"
  /\ LET indices == FullRoots(core[caller].length)
         n       == RootCount(core[caller].length)
         old     == core[caller].roots
     IN  \E junk \in [1..n -> JunkNodes] :
           core' = [core EXCEPT
             ![caller].roots =
               [k \in 1..n |-> ReadRoot(old, indices[k], k, junk)],
             ![caller].byte_length = 0]
  /\ pc' = "sum"
  /\ UNCHANGED <<dbVars, status, caller, upgrade, write, frame>>

SumRoots ==
  /\ pc = "sum"
  /\ frame.i < Len(core[caller].roots)
  /\ core' = [core EXCEPT
       ![caller].byte_length = @ + core[caller].roots[frame.i + 1].size]
  /\ frame' = [frame EXCEPT !.i = @ + 1]
  /\ UNCHANGED <<dbVars, status, caller, upgrade, write, pc>>

(* Fault: the loop runs once too often.                                    *)
LoadReturnsLate ==
  /\ pc = "sum"
  /\ frame.i > Len(core[caller].roots)
  /\ SetStatus(caller, "open")
  /\ Return
  /\ UNCHANGED <<dbVars, core, caller>>

LoadReturns ==
  /\ pc = "sum"
  /\ frame.i >= Len(core[caller].roots)
  /\ SetStatus(caller, "open")
  /\ Return
  /\ UNCHANGED <<dbVars, core, caller>>

-----------------------------------------------------------------------------
(* hc_core_append up to the call of hc_merkle_tree_append.                 *)
CallAppend(h, batch) ==
  /\ pc = "idle"
  /\ status[h] = "open"
  /\ core[h].length + Len(batch) <= MaxLength
  /\ upgrade' = NoUpgrade
  /\ write' = NoWrite
  /\ frame' = [NoFrame EXCEPT !.buffers = batch]
  /\ pc' = "append"
  /\ caller' = h
  /\ UNCHANGED <<dbVars, core, status>>

GrowTree ==
  /\ MerkleStep(core[caller])
  /\ UNCHANGED <<dbVars, core, status, caller>>

(* hc__db_core_write_block, for each block.                                *)
BlockBatch(first, blocks) ==
  [k \in first..(first + Len(blocks) - 1) |-> blocks[k - first + 1]]

(* hc_crypto_tree: the root hash commits to every root, in order.          *)
RootHash(roots) == roots

HeadOf(u) == [length |-> u.length, root_hash |-> RootHash(u.roots)]

(* The blocks, numbered from the core's length, and the new head.          *)
QueueBatch ==
  /\ pc = "appended"
  /\ write' = [write EXCEPT
       !.blocks = BlockBatch(core[caller].length, frame.buffers),
       !.head = HeadOf(upgrade)]
  /\ pc' = "flush"
  /\ UNCHANGED <<dbVars, core, status, caller, upgrade, frame>>

QueueBatchFails ==
  /\ pc = "appended"
  /\ pc' = "failed"
  /\ UNCHANGED <<dbVars, core, status, caller, upgrade, write, frame>>

Flush ==
  /\ pc = "flush"
  /\ dbTree' = PutAll(dbTree, write.tree)
  /\ dbBlocks' = PutAll(dbBlocks, write.blocks)
  /\ dbHead' = write.head
  /\ pc' = "commit"
  /\ UNCHANGED <<core, status, caller, upgrade, write, frame>>

(* Fault: a write is reported as failed after it was applied.              *)
FlushFailsApplied ==
  /\ pc = "flush"
  /\ dbTree' = PutAll(dbTree, write.tree)
  /\ dbBlocks' = PutAll(dbBlocks, write.blocks)
  /\ dbHead' = write.head
  /\ pc' = "failed"
  /\ UNCHANGED <<core, status, caller, upgrade, write, frame>>

FlushFails ==
  /\ pc = "flush"
  /\ pc' = "failed"
  /\ UNCHANGED <<dbVars, core, status, caller, upgrade, write, frame>>

(* hc_core_commit, and the return of 0.                                    *)
Commit ==
  /\ pc = "commit"
  /\ core' = [core EXCEPT ![caller] =
       [roots |-> upgrade.roots,
        length |-> upgrade.length,
        byte_length |-> upgrade.byte_length]]
  /\ Return
  /\ UNCHANGED <<dbVars, status, caller>>

(* The return of -1: the upgrade and the batch are destroyed.              *)
AppendFails ==
  /\ pc = "failed"
  /\ Return
  /\ UNCHANGED <<dbVars, core, status, caller>>

-----------------------------------------------------------------------------
(* hc_core_checkout only assigns the length.                               *)
Checkout(h, length) ==
  /\ pc = "idle"
  /\ status[h] = "open"
  /\ core' = [core EXCEPT ![h].length = length]
  /\ UNCHANGED <<dbVars, merkleVars, status, caller>>

(* hc_core_destroy                                                         *)
Destroy(h) ==
  /\ pc = "idle"
  /\ status[h] # "closed"
  /\ core' = [core EXCEPT ![h] = EmptyCore]
  /\ SetStatus(h, "closed")
  /\ UNCHANGED <<dbVars, merkleVars, caller>>

(* The process dies, in or between calls; what rocksdb holds survives.     *)
Crash ==
  /\ \E h \in Handles : status[h] # "closed"
  /\ core' = [h \in Handles |-> EmptyCore]
  /\ status' = [h \in Handles |-> "closed"]
  /\ Return
  /\ UNCHANGED <<dbVars, caller>>

(* The steps of a call that has begun.                                     *)
CallStep ==
  \/ LoadHeadFails
  \/ LoadHeadMissing
  \/ LoadEmptyHead
  \/ LoadHead
  \/ LoadRootsFails
  \/ LoadRoots
  \/ SumRoots
  \/ LoadReturns
  \/ GrowTree
  \/ QueueBatch
  \/ QueueBatchFails
  \/ Flush
  \/ FlushFails
  \/ Commit
  \/ AppendFails

Next ==
  \/ \E h \in Handles :
       \/ Open(h)
       \/ CallLoad(h)
       \/ \E batch \in Batches : CallAppend(h, batch)
       \/ \E length \in CheckoutLengths : Checkout(h, length)
       \/ Destroy(h)
  \/ CallStep
  \/ Crash

Spec == Init /\ [][Next]_vars

(* A call that has begun runs to its end: the library never waits.         *)
FairSpec == Spec /\ WF_vars(CallStep)

-----------------------------------------------------------------------------
(* Every variable has its type in every state of the calls of core.c.      *)
TypeOK ==
  /\ MerkleTypeOK
  /\ pc \in {"idle", "load_head", "load_roots", "sum", "append", "leaf",
             "merge", "appended", "flush", "commit", "failed"}
  /\ dbHead # NoHead => dbHead \in HeadRecord
  /\ IsMap(dbTree, Node)
  /\ IsMap(dbBlocks, Blocks)
  /\ core \in [Handles -> Core]
  /\ status \in [Handles -> {"closed", "unloaded", "open"}]
  /\ caller \in Handles

(* The handle's state is what a call may rely on.                          *)
Settled(h) == status[h] = "open" /\ ~(pc = "commit" /\ caller = h)

(* The blocks the durable head counts.                                     *)
Log ==
  IF dbHead = NoHead THEN <<>>
  ELSE [k \in 1..dbHead.length |-> dbBlocks[k - 1]]

(* With one handle: the open handle is, through failed calls, failed       *)
(* loads, reloads and crashes, exactly what the records on disk say, roots *)
(* and byte length included (hc_core_append, hc_core_commit, hc_core_load).*)
HandleMatchesDisk ==
  \A h \in Handles : Settled(h) => core[h] = CoreOver(Log)

(* With one handle: every complete subtree over the durable log is stored  *)
(* and commits to the stored blocks, and the head's root hash to the roots *)
(* over them: what an append writes is one consistent state on disk.       *)
DurableTree ==
  /\ HoldsTree(dbTree, Log)
  /\ dbHead # NoHead => dbHead.root_hash = RootHash(TreeRoots(Log))

(* However many handles, stale or not, append in turn: a handle's roots    *)
(* are those of its length and their sizes add up to its byte length (the  *)
(* assertions at the end of test/core.c).                                  *)
RootsMatchLength ==
  \A h \in Handles : Settled(h) =>
    /\ [k \in DOMAIN core[h].roots |-> core[h].roots[k].index]
         = FullRoots(core[h].length)
    /\ core[h].byte_length = Total(SizesOf(core[h].roots))

(* However many handles append in turn: every block and every complete     *)
(* subtree that the durable head counts is stored, so hc_core_load never   *)
(* takes a root it did not read (a missing record is no error, db.h:361).  *)
LoadIsDefined ==
  dbHead # NoHead =>
    /\ 0..(dbHead.length - 1) \subseteq DOMAIN dbBlocks
    /\ \A sd \in Subtrees(dbHead.length) :
         NodeIndex(sd[1], sd[2]) \in DOMAIN dbTree

(* The room an append has, and the bound on every handle's roots that it   *)
(* is taken from.  This is inductive, and implies RootsFitCapacity.        *)
AppendHasRoom ==
  /\ Room(core[caller])
  /\ \A h \in Handles : Len(core[h].roots) <= MaxRoots

Appending == {"append", "leaf", "merge", "appended", "flush", "commit", "failed"}

DurableLength == IF dbHead = NoHead THEN 0 ELSE dbHead.length

(* Unless batches are empty, an append has counted the leaves up to its    *)
(* loop index, and queues its blocks behind those of its handle.           *)
AppendCounts ==
  LET base  == core[caller].length
      count == Len(frame.buffers) IN
  /\ pc \in Appending =>
       status[caller] = "open" /\ frame.buffers \in Batches
  /\ pc = "append" => frame.i = 0 /\ ~upgrade.forked
  /\ pc = "leaf" => frame.i <= count
  /\ pc = "merge" => frame.i < count
  /\ pc = "leaf" => upgrade.length = base + frame.i
  /\ pc = "merge" => upgrade.length = base + frame.i + 1
  /\ pc \in {"appended", "flush", "commit"} => upgrade.length = base + count
  /\ pc = "flush" => /\ write.blocks = BlockBatch(base, frame.buffers)
                     /\ write.head = HeadOf(upgrade)
  /\ pc = "commit" => dbHead # NoHead /\ DurableLength = upgrade.length

(* No step shortens the durable log or changes a block of it.              *)
LogOnlyGrows ==
  [][Len(Log') >= Len(Log) /\ SubSeq(Log', 1, Len(Log)) = Log]_vars

(* Every call returns.                                                     *)
CallsReturn == pc # "idle" ~> pc = "idle"

=============================================================================
