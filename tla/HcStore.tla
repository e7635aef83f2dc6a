------------------------------- MODULE HcStore ------------------------------
(***************************************************************************)
(* The store (src/store.c): it gives each new core the next two pointers   *)
(* of its counters and records them under the core's discovery key.        *)
(*                                                                         *)
(* One process has one hc_store_t on a path.  A call runs alone, but may   *)
(* fail at every allocation, read and write, and the process may crash     *)
(* inside it.  The write of a create is one atomic rocksdb batch.          *)
(*                                                                         *)
(* The other fields of the store head (groups, seed, default discovery     *)
(* key) are only carried along, and are left out.                          *)
(***************************************************************************)
EXTENDS Naturals

CONSTANTS
  DiscoveryKeys,  \* The discovery keys of the cores.
  Handles,        \* The hc_core_t objects.
  NoStoreHead,    \* "No store head record".
  NoKey,          \* A handle without a core.
  MaxCores        \* Bound: no create starts that would allocate more.

VARIABLES
  dbHead,      \* The durable store head: the two counters, or NoStoreHead.
  dbCores,     \* The durable pointers of each discovery key put so far.
  rocksOpen,   \* The process holds the database open.
  store,       \* hc_store_t: whether it is usable, and its counters.
  handle,      \* Each hc_core_t: its discovery key and its pointers.
  frame,       \* Locals of the call: handle, discovery key and pointers.
  pc           \* Where the call is; "idle" between calls.

dbVars == <<dbHead, dbCores>>
vars == <<dbVars, rocksOpen, store, handle, frame, pc>>

Counters == [cores : Nat, datas : Nat]
Pointers == [core_ptr : Nat, data_ptr : Nat]
HandleState == [key : DiscoveryKeys \cup {NoKey}, ptrs : Pointers]

ASSUME NoStoreHeadAssumption == NoStoreHead \notin Counters
ASSUME NoKeyAssumption == NoKey \notin DiscoveryKeys

ZeroCounters == [cores |-> 0, datas |-> 0]
ZeroPointers == [core_ptr |-> 0, data_ptr |-> 0]
NoHandle == [key |-> NoKey, ptrs |-> ZeroPointers]
ClosedStore == [up |-> FALSE, head |-> ZeroCounters]

(* The counters a store reads from disk: a missing head leaves zeros.      *)
DurableCounters == IF dbHead = NoStoreHead THEN ZeroCounters ELSE dbHead

Init ==
  /\ dbHead = NoStoreHead
  /\ dbCores = [k \in {} |-> ZeroPointers]
  /\ rocksOpen = FALSE
  /\ store = ClosedStore
  /\ handle = [h \in Handles |-> NoHandle]
  /\ frame \in [h : Handles, key : DiscoveryKeys, ptrs : {ZeroPointers}]
  /\ pc = "idle"

-----------------------------------------------------------------------------
(* hc_store_init, its first half: the database is locked by whoever has it *)
(* open, this process included.                                            *)
StoreOpen ==
  /\ pc = "idle"
  /\ ~store.up
  /\ ~rocksOpen
  /\ rocksOpen' = TRUE
  /\ store' = ClosedStore
  /\ pc' = "read_head"
  /\ UNCHANGED <<dbVars, handle, frame>>

(* Fault: the head is not read.                                            *)
StoreForgetsHead ==
  /\ pc = "read_head"
  /\ store' = [up |-> TRUE, head |-> ZeroCounters]
  /\ pc' = "idle"
  /\ UNCHANGED <<dbVars, rocksOpen, handle, frame>>

StoreReadHead ==
  /\ pc = "read_head"
  /\ store' = [up |-> TRUE, head |-> DurableCounters]
  /\ pc' = "idle"
  /\ UNCHANGED <<dbVars, rocksOpen, handle, frame>>

(* Returns the error with the database still open: nothing closes it until *)
(* the process ends.                                                       *)
StoreReadHeadFails ==
  /\ pc = "read_head"
  /\ pc' = "idle"
  /\ UNCHANGED <<dbVars, rocksOpen, store, handle, frame>>

(* hc_store_destroy, once the handles that borrow its database are gone.   *)
StoreDestroy ==
  /\ pc = "idle"
  /\ store.up
  /\ \A h \in Handles : handle[h] = NoHandle
  /\ store' = ClosedStore
  /\ rocksOpen' = FALSE
  /\ UNCHANGED <<dbVars, handle, frame, pc>>

-----------------------------------------------------------------------------
(* hc_store_create takes the counters and advances them in memory; nothing *)
(* looks whether the discovery key is already in use.                      *)
CallCreate(h, k) ==
  /\ pc = "idle"
  /\ store.up
  /\ handle[h] = NoHandle
  /\ store.head.cores < MaxCores
  /\ frame' = [h |-> h, key |-> k,
               ptrs |-> [core_ptr |-> store.head.cores,
                         data_ptr |-> store.head.datas]]
  /\ store' = [store EXCEPT !.head.cores = @ + 1, !.head.datas = @ + 1]
  /\ pc' = "create"
  /\ UNCHANGED <<dbVars, rocksOpen, handle>>

(* Fault: the head is stored as it was before the counters advanced.       *)
CreateFlushOldHead ==
  /\ pc = "create"
  /\ dbHead' = [cores |-> store.head.cores - 1, datas |-> store.head.datas - 1]
  /\ dbCores' = [k \in DOMAIN dbCores \cup {frame.key} |->
                   IF k = frame.key THEN frame.ptrs ELSE dbCores[k]]
  /\ pc' = "created"
  /\ UNCHANGED <<rocksOpen, store, handle, frame>>

(* One batch: the advanced counters, and the pointers of the key.          *)
CreateFlush ==
  /\ pc = "create"
  /\ dbHead' = store.head
  /\ dbCores' = [k \in DOMAIN dbCores \cup {frame.key} |->
                   IF k = frame.key THEN frame.ptrs ELSE dbCores[k]]
  /\ pc' = "created"
  /\ UNCHANGED <<rocksOpen, store, handle, frame>>

(* Fault: the counters are not taken back.                                 *)
CreateFailsAdvanced ==
  /\ pc = "create"
  /\ pc' = "idle"
  /\ UNCHANGED <<dbVars, rocksOpen, store, handle, frame>>

(* Fault: the failed create goes on, and fails again.                      *)
CreateFailsAgain ==
  /\ pc = "create"
  /\ store' = [store EXCEPT !.head.cores = @ - 1, !.head.datas = @ - 1]
  /\ UNCHANGED <<dbVars, rocksOpen, handle, frame, pc>>

(* The fail label: the counters are taken back.                            *)
CreateFails ==
  /\ pc = "create"
  /\ store' = [store EXCEPT !.head.cores = @ - 1, !.head.datas = @ - 1]
  /\ pc' = "idle"
  /\ UNCHANGED <<dbVars, rocksOpen, handle, frame>>

(* hc_core_init of the caller's handle.                                    *)
CreateReturns ==
  /\ pc = "created"
  /\ handle' = [handle EXCEPT ![frame.h] =
                  [key |-> frame.key, ptrs |-> frame.ptrs]]
  /\ pc' = "idle"
  /\ UNCHANGED <<dbVars, rocksOpen, store, frame>>

-----------------------------------------------------------------------------
CallGet(h, k) ==
  /\ pc = "idle"
  /\ store.up
  /\ handle[h] = NoHandle
  /\ frame' = [h |-> h, key |-> k, ptrs |-> ZeroPointers]
  /\ pc' = "lookup"
  /\ UNCHANGED <<dbVars, rocksOpen, store, handle>>

(* hc__db_store_read_get_core and its flush find the record.               *)
GetFound ==
  /\ pc = "lookup"
  /\ frame.key \in DOMAIN dbCores
  /\ frame' = [frame EXCEPT !.ptrs = dbCores[frame.key]]
  /\ pc' = "found"
  /\ UNCHANGED <<dbVars, rocksOpen, store, handle>>

(* A read error, or no record: -1, and the handle was not initialised.     *)
GetFails ==
  /\ pc = "lookup"
  /\ pc' = "idle"
  /\ UNCHANGED <<dbVars, rocksOpen, store, handle, frame>>

(* hc_core_init and a load (HcCore) that succeeds.                         *)
GetReturns ==
  /\ pc = "found"
  /\ handle' = [handle EXCEPT ![frame.h] =
                  [key |-> frame.key, ptrs |-> frame.ptrs]]
  /\ pc' = "idle"
  /\ UNCHANGED <<dbVars, rocksOpen, store, frame>>

(* The load fails: -1, for a handle that is initialised; the caller cannot *)
(* tell, and does not use it.                                              *)
GetLoadFails ==
  /\ pc = "found"
  /\ pc' = "idle"
  /\ UNCHANGED <<dbVars, rocksOpen, store, handle, frame>>

(* hc_core_destroy                                                         *)
CoreDestroy(h) ==
  /\ pc = "idle"
  /\ handle[h] # NoHandle
  /\ handle' = [handle EXCEPT ![h] = NoHandle]
  /\ UNCHANGED <<dbVars, rocksOpen, store, frame, pc>>

(* The process ends, anywhere; its locks and its memory go with it.        *)
Crash ==
  /\ rocksOpen
  /\ rocksOpen' = FALSE
  /\ store' = ClosedStore
  /\ handle' = [h \in Handles |-> NoHandle]
  /\ pc' = "idle"
  /\ UNCHANGED <<dbVars, frame>>

CallStep ==
  \/ StoreReadHead
  \/ StoreReadHeadFails
  \/ CreateFlush
  \/ CreateFails
  \/ CreateReturns
  \/ GetFound
  \/ GetFails
  \/ GetReturns
  \/ GetLoadFails

Next ==
  \/ StoreOpen
  \/ StoreDestroy
  \/ \E h \in Handles :
       \/ \E k \in DiscoveryKeys : CallCreate(h, k) \/ CallGet(h, k)
       \/ CoreDestroy(h)
  \/ CallStep
  \/ Crash

Spec == Init /\ [][Next]_vars

-----------------------------------------------------------------------------
(* Every variable has its type in every state of the calls of store.c.     *)
TypeOK ==
  /\ dbHead # NoStoreHead => dbHead \in Counters
  /\ DOMAIN dbCores \subseteq DiscoveryKeys
  /\ \A k \in DOMAIN dbCores : dbCores[k] \in Pointers
  /\ rocksOpen \in BOOLEAN
  /\ store \in [up : BOOLEAN, head : Counters]
  /\ handle \in [Handles -> HandleState]
  /\ frame \in [h : Handles, key : DiscoveryKeys, ptrs : Pointers]
  /\ pc \in {"idle", "read_head", "create", "created", "lookup", "found"}

(* Between calls the counters in memory are the durable ones: a failed     *)
(* create takes back what it advanced, a successful one stored it          *)
(* (hc_store_create).                                                      *)
CountersAgree == store.up /\ pc = "idle" => store.head = DurableCounters

(* Two discovery keys never share a pointer on disk, and the next create   *)
(* takes none that is in use: no core is ever written over by another one  *)
(* (hc_store_create, through failures, restarts and re-creations).         *)
PointersUnique ==
  /\ \A k \in DOMAIN dbCores :
       /\ dbCores[k].core_ptr < DurableCounters.cores
       /\ dbCores[k].data_ptr < DurableCounters.datas
  /\ \A k, l \in DOMAIN dbCores : k # l =>
       /\ dbCores[k].core_ptr # dbCores[l].core_ptr
       /\ dbCores[k].data_ptr # dbCores[l].data_ptr

(* Two open handles with different discovery keys write to different data, *)
(* also when a key was created again while an older handle on it was open. *)
HandlesApart ==
  \A g, h \in Handles :
    /\ handle[g].key # NoKey
    /\ handle[h].key # NoKey
    /\ handle[g].key # handle[h].key
    => handle[g].ptrs.data_ptr # handle[h].ptrs.data_ptr

(* Why: inside a create the counters are one ahead of the disk and the     *)
(* call holds the durable ones; inside a get it holds the key's record;    *)
(* and no record of another key has the data of an open handle.  With the  *)
(* invariants above, this is inductive.                                    *)
CallHoldsPointers ==
  /\ pc \in {"create", "created", "lookup", "found"} => store.up
  /\ pc = "read_head" => ~store.up
  /\ pc = "create" =>
       /\ frame.ptrs = [core_ptr |-> DurableCounters.cores,
                        data_ptr |-> DurableCounters.datas]
       /\ store.head = [cores |-> DurableCounters.cores + 1,
                        datas |-> DurableCounters.datas + 1]
  /\ pc \in {"created", "lookup", "found"} => store.head = DurableCounters
  /\ pc \in {"created", "found"} =>
       frame.key \in DOMAIN dbCores /\ dbCores[frame.key] = frame.ptrs

HandlesOwnData ==
  \A h \in Handles : handle[h].key # NoKey =>
    /\ handle[h].ptrs.data_ptr < DurableCounters.datas
    /\ \A k \in DOMAIN dbCores :
         dbCores[k].data_ptr = handle[h].ptrs.data_ptr => k = handle[h].key

PointersInv ==
  /\ CountersAgree
  /\ PointersUnique
  /\ HandlesApart
  /\ CallHoldsPointers
  /\ HandlesOwnData

(* Whatever pointers a record gets, no record had them before, not even    *)
(* one that a second create under the same key replaced: the data of a     *)
(* core is never taken over by a newer one (hc_store_create).              *)
CreateTakesNewPointers ==
  [][\A k \in DOMAIN dbCores' :
       \/ k \in DOMAIN dbCores /\ dbCores'[k] = dbCores[k]
       \/ /\ dbCores'[k].core_ptr >= DurableCounters.cores
          /\ dbCores'[k].data_ptr >= DurableCounters.datas]_vars

=============================================================================
