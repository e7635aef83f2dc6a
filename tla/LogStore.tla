------------------------------ MODULE LogStore ------------------------------
(***************************************************************************)
(* What a store of cores promises: for each discovery key a durable log.   *)
(* Creating a core gives its key an empty log, whatever was there before;  *)
(* an append extends the log of one key; nothing else changes a log.       *)
(***************************************************************************)
EXTENDS Sequences

CONSTANTS
  DiscoveryKeys,  \* The discovery keys of the cores.
  Batches,        \* The sequences of blocks that may be appended.
  NoLog           \* What a key without a core has.

VARIABLE log  \* For each discovery key its blocks, or NoLog.

LogStoreInit == log = [k \in DiscoveryKeys |-> NoLog]

CreateLog(k) == log' = [log EXCEPT ![k] = <<>>]

AppendToLog(k, batch) ==
  /\ log[k] # NoLog
  /\ log' = [log EXCEPT ![k] = @ \o batch]

LogStoreNext ==
  \E k \in DiscoveryKeys :
    CreateLog(k) \/ \E batch \in Batches : AppendToLog(k, batch)

LogStoreSpec == LogStoreInit /\ [][LogStoreNext]_log

=============================================================================
