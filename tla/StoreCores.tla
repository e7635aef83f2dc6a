----------------------------- MODULE StoreCores -----------------------------
(***************************************************************************)
(* The store together with the logs of its cores: HcStore gives out the    *)
(* data pointers, and an append on a handle extends the log of the data    *)
(* pointer that the handle holds.  That one append is atomic and durable   *)
(* is what HcCore shows (HcCoreLog); here it is one step.  It needs a      *)
(* handle whose length is that of the log, which is certain as long as no  *)
(* other open handle has the same data.                                    *)
(***************************************************************************)
EXTENDS HcStore, Sequences

CONSTANTS
  Blocks,   \* The blocks that may be appended.
  Batches,  \* The sequences of them that may be appended.
  NoLog,    \* The log of a key without a core.
  MaxLog    \* Bound: no log gets longer.

ASSUME MaxCoresAssumption == MaxCores \in Nat
ASSUME BatchesAssumption == Batches \subseteq Seq(Blocks)
ASSUME NoLogAssumption == NoLog \notin Seq(Blocks)

VARIABLE logs  \* The blocks of each data pointer.

storeCoresVars == <<vars, logs>>

StoreCoresInit == Init /\ logs = [ptr \in 0..MaxCores - 1 |-> <<>>]

(* Two handles that are open on the same data.                             *)
SharesData(h) ==
  \E g \in Handles \ {h} :
    handle[g] # NoHandle /\ handle[g].ptrs.data_ptr = handle[h].ptrs.data_ptr

(* Fault: the data of the core that was created next.                      *)
DataOfNext(h) == (handle[h].ptrs.data_ptr + 1) % MaxCores

(* hc__db_core_init keeps both pointers; blocks, tree and head are keyed   *)
(* by the data pointer.                                                    *)
DataOf(h) == handle[h].ptrs.data_ptr

(* hc_core_append on a handle that is up to date, when it succeeds.        *)
AppendBatch(h, batch) ==
  /\ pc = "idle"
  /\ handle[h] # NoHandle
  /\ ~SharesData(h)
  /\ Len(logs[DataOf(h)]) + Len(batch) <= MaxLog
  /\ logs' = [logs EXCEPT ![DataOf(h)] = @ \o batch]
  /\ UNCHANGED vars

StoreCoresNext ==
  \/ Next /\ UNCHANGED logs
  \/ \E h \in Handles, batch \in Batches : AppendBatch(h, batch)

StoreCoresSpec == StoreCoresInit /\ [][StoreCoresNext]_storeCoresVars

-----------------------------------------------------------------------------
(* The durable log of each discovery key, found as hc_store_get finds it.  *)
LogOfKey ==
  [k \in DiscoveryKeys |->
     IF k \in DOMAIN dbCores THEN logs[dbCores[k].data_ptr] ELSE NoLog]

Abstract == INSTANCE LogStore WITH log <- LogOfKey

(* The store is a map from discovery keys to logs: a created core starts   *)
(* empty, an append on one core leaves every other log alone, and failures *)
(* and restarts change none; this holds although pointers are taken from   *)
(* counters that are advanced before they are durable (hc_store_create,    *)
(* hc_store_get, hc_core_append).                                          *)
ImplementsLogStore == Abstract!LogStoreSpec

(* A data pointer that the next create gives out has never been written:   *)
(* a log is only ever behind a pointer below the durable counter.          *)
NewDataUnwritten ==
  \A ptr \in DOMAIN logs : logs[ptr] # <<>> => ptr < DurableCounters.datas

(* Why: the two counters advance together, so the bound on the cores is    *)
(* one on the data pointers, and each of those has a log; and a handle is  *)
(* either closed or of some core.  With PointersInv this is inductive.     *)
LogsInv ==
  /\ logs \in [0..MaxCores - 1 -> Seq(Blocks)]
  /\ \A counters \in {DurableCounters, store.head} :
       counters.cores = counters.datas /\ counters.cores <= MaxCores
  /\ \A h \in Handles : handle[h] # NoHandle => handle[h].key # NoKey
  /\ NewDataUnwritten

=============================================================================
