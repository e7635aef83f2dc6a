---------------------------- MODULE MerkleUpgrade ---------------------------
(***************************************************************************)
(* The public upgrade functions (include/hc/core.h, hc/merkle_tree.h) used *)
(* on their own: hc_core_upgrade_init, any number of calls of              *)
(* hc_merkle_tree_append on the one upgrade, then hc_core_commit or        *)
(* hc_core_upgrade_destroy.  hc_core_append is the special case of one     *)
(* call.  A caller gives up an upgrade on which a call failed, and commits *)
(* only one that it appended blocks to.                                    *)
(***************************************************************************)
EXTENDS MerkleTree

CONSTANTS
  Batches,    \* The block sequences appended by one call.
  MaxLength   \* Bound: no call starts that would end above it.

ASSUME BatchesAssumption == Batches \subseteq Seq(Blocks)

VARIABLES
  core,     \* upgrade->core
  life,     \* The upgrade: "none", "live", or "broken" by a failed call.
  log,      \* History: the blocks committed to the core.
  pending   \* History: the blocks appended to the upgrade so far.

vars == <<merkleVars, core, life, log, pending>>

Init ==
  /\ upgrade = NoUpgrade
  /\ write = NoWrite
  /\ frame = NoFrame
  /\ pc = "idle"
  /\ core = CoreOver(<<>>)
  /\ life = "none"
  /\ log = <<>>
  /\ pending = <<>>

(* hc_core_upgrade_init, and a fresh write batch.                          *)
UpgradeInit ==
  /\ pc = "idle"
  /\ life = "none"
  /\ life' = "live"
  /\ upgrade' = NoUpgrade
  /\ write' = NoWrite
  /\ UNCHANGED <<frame, pc, core, log, pending>>

CallMerkleAppend(batch) ==
  /\ pc = "idle"
  /\ life = "live"
  /\ Len(log) + Len(pending) + Len(batch) <= MaxLength
  /\ frame' = [NoFrame EXCEPT !.buffers = batch]
  /\ pc' = "append"
  /\ UNCHANGED <<upgrade, write, core, life, log, pending>>

GrowTree ==
  /\ MerkleStep(core)
  /\ UNCHANGED <<core, life, log, pending>>

MerkleAppendReturns ==
  /\ pc = "appended"
  /\ pc' = "idle"
  /\ frame' = NoFrame
  /\ pending' = pending \o frame.buffers
  /\ UNCHANGED <<upgrade, write, core, life, log>>

MerkleAppendFails ==
  /\ pc = "failed"
  /\ pc' = "idle"
  /\ frame' = NoFrame
  /\ life' = "broken"
  /\ UNCHANGED <<upgrade, write, core, log, pending>>

(* hc_core_commit moves the upgrade onto the core and resets it: it can be *)
(* appended to again.  The caller flushed its batch.                       *)
Commit ==
  /\ pc = "idle"
  /\ life = "live"
  /\ upgrade.forked
  /\ core' = [roots |-> upgrade.roots,
              length |-> upgrade.length,
              byte_length |-> upgrade.byte_length]
  /\ upgrade' = NoUpgrade
  /\ write' = NoWrite
  /\ log' = log \o pending
  /\ pending' = <<>>
  /\ UNCHANGED <<frame, pc, life>>

(* hc_core_upgrade_destroy                                                 *)
UpgradeDestroy ==
  /\ pc = "idle"
  /\ life # "none"
  /\ life' = "none"
  /\ upgrade' = NoUpgrade
  /\ write' = NoWrite
  /\ pending' = <<>>
  /\ UNCHANGED <<frame, pc, core, log>>

Next ==
  \/ UpgradeInit
  \/ \E batch \in Batches : CallMerkleAppend(batch)
  \/ GrowTree
  \/ MerkleAppendReturns
  \/ MerkleAppendFails
  \/ Commit
  \/ UpgradeDestroy

Spec == Init /\ [][Next]_vars

-----------------------------------------------------------------------------
(* Between calls on a live upgrade, the upgrade is what the core becomes:  *)
(* the tree over the committed and the pending blocks, however they were   *)
(* split into calls; and the core is not touched before the commit         *)
(* (hc_merkle_tree_append, hc_core_commit).                                *)
UpgradeIsAppend ==
  /\ core = CoreOver(log)
  /\ pc = "idle" /\ life = "live" =>
       IF upgrade.forked
       THEN [roots |-> upgrade.roots,
             length |-> upgrade.length,
             byte_length |-> upgrade.byte_length] = CoreOver(log \o pending)
       ELSE pending = <<>>

(* The batch of a live upgrade holds every complete subtree that the       *)
(* committed blocks do not have: flushing it is enough to load the core at *)
(* its new length (the calls of hc__db_core_write_tree_node).              *)
BatchHoldsUpgrade ==
  pc = "idle" /\ life = "live" =>
    \A sd \in Subtrees(Len(log \o pending)) \ Subtrees(Len(log)) :
      LET node == TreeNode(log \o pending, sd[1], sd[2])
      IN  /\ node.index \in DOMAIN write.tree
          /\ write.tree[node.index] = node

=============================================================================
