----------------------------- MODULE AppendLog ------------------------------
(***************************************************************************)
(* What one handle on one core promises: an append-only log that survives  *)
(* the handle.  A batch is appended to the durable log all at once; the    *)
(* handle sees it when the append returns.  A handle that is lost between  *)
(* the two sees the batch when it is opened again.                         *)
(***************************************************************************)
EXTENDS Naturals, Sequences

CONSTANTS
  Batches,  \* The sequences of blocks that may be appended.
  Closed    \* The view without a handle.

VARIABLES
  log,   \* The durable blocks.
  view   \* The length the handle shows, or Closed.

logVars == <<log, view>>

LogInit == log = <<>> /\ view = Closed

(* A handle shows the whole log.                                           *)
OpenView ==
  /\ view = Closed
  /\ view' = Len(log)
  /\ UNCHANGED log

(* A batch becomes durable, behind a view that was up to date.             *)
AppendBatch(batch) ==
  /\ view = Len(log)
  /\ log' = log \o batch
  /\ UNCHANGED view

(* The append returns.                                                     *)
Acknowledge ==
  /\ view # Closed
  /\ view # Len(log)
  /\ view' = Len(log)
  /\ UNCHANGED log

(* The handle is closed, or lost in a crash or a failed load.              *)
CloseView ==
  /\ view # Closed
  /\ view' = Closed
  /\ UNCHANGED log

LogNext ==
  \/ OpenView
  \/ \E batch \in Batches : AppendBatch(batch)
  \/ Acknowledge
  \/ CloseView

(* What may happen.                                                        *)
LogSafety == LogInit /\ [][LogNext]_logVars

(* An append that became durable is acknowledged, or the handle is lost.   *)
LogFairness == WF_logVars(Acknowledge)

=============================================================================
