------------------------------ MODULE HcCoreLog -----------------------------
(***************************************************************************)
(* One handle on one core, used with batches that are not empty, is an     *)
(* append-only log: HcCore implements AppendLog.                           *)
(***************************************************************************)
EXTENDS HcCore

CONSTANT Closed  \* AppendLog's view without a handle.

ASSUME ClosedAssumption == Closed \notin Nat

(* The one handle.                                                         *)
Holder == CHOOSE h \in Handles : TRUE

(* A handle shows its length once a load succeeded.                        *)
HandleView == IF status[Holder] = "open" THEN core[Holder].length ELSE Closed

AbstractLog == INSTANCE AppendLog WITH log <- Log, view <- HandleView

(* What the holder of the one handle observes is an append-only log: a     *)
(* batch becomes durable at once or not at all, is acknowledged only once  *)
(* it is durable, and is never lost or reordered by failures, reloads and  *)
(* crashes (hc_core_append, hc_core_load).                                 *)
ImplementsAppendLog == AbstractLog!LogSafety

(* A batch that became durable is acknowledged, unless the handle is lost: *)
(* no append fails after its write (hc_core_append, hc_core_commit).       *)
AppendsAcknowledged == AbstractLog!LogFairness

-----------------------------------------------------------------------------
(* Why: what the handle knows of the log.                                  *)
HolderLength == core[Holder].length

(* A load shows no length before it is done.                               *)
LoadFollowsDisk ==
  /\ pc \in {"load_head", "load_roots", "sum"} => status[Holder] = "unloaded"
  /\ pc \in {"load_roots", "sum"} =>
       dbHead # NoHead /\ HolderLength = dbHead.length

(* The use of a core that the log is promised for.                         *)
OneHandleUse ==
  Handles = {Holder} /\ CheckoutLengths = {} /\ <<>> \notin Batches

(* With one handle, no checkout and no empty batch, the handle is never    *)
(* behind the disk but between the write of an append and its return.  With*)
(* TypeOK this is inductive.                                               *)
HolderFollowsLog ==
  /\ 0..DurableLength - 1 \subseteq DOMAIN dbBlocks
  /\ dbHead = NoHead => HolderLength = 0
  /\ status[Holder] = "open" /\ pc # "commit" => HolderLength = DurableLength
  /\ LoadFollowsDisk
  /\ AppendCounts

=============================================================================
