-------------------------- MODULE StoreCoresProofs --------------------------
(***************************************************************************)
(* What TLAPS proves of HcStore, for every set of handles and discovery    *)
(* keys and every number of cores, and of StoreCores: that it implements   *)
(* LogStore, for every set of blocks and batches and every bound.          *)
(***************************************************************************)
EXTENDS StoreCores, TLAPS

(* A closed store on an empty disk has every type.                         *)
LEMMA InitType ==
  ASSUME Init
  PROVE  TypeOK
<1>1. ZeroPointers \in Pointers /\ ZeroCounters \in Counters
  BY DEF ZeroPointers, Pointers, ZeroCounters, Counters
<1>2. NoHandle \in HandleState
  BY <1>1 DEF NoHandle, HandleState
<1>3. QED
  BY <1>1, <1>2 DEF Init, TypeOK, ClosedStore

(* The counters a store reads are counters.                                *)
LEMMA DurableType ==
  ASSUME TypeOK
  PROVE  DurableCounters \in Counters
BY DEF TypeOK, DurableCounters, ZeroCounters, Counters

(* A create takes its counters back from where it took them.               *)
LEMMA NextType ==
  ASSUME TypeOK, CallHoldsPointers, [Next]_vars
  PROVE  TypeOK'
<1>0. /\ ZeroPointers \in Pointers /\ ZeroCounters \in Counters
      /\ NoHandle \in HandleState /\ DurableCounters \in Counters
  BY DurableType
     DEF ZeroPointers, Pointers, ZeroCounters, Counters, NoHandle, HandleState
<1>1. CASE StoreOpen
  BY <1>0, <1>1 DEF StoreOpen, TypeOK, ClosedStore, dbVars
<1>2. CASE StoreDestroy
  BY <1>0, <1>2 DEF StoreDestroy, TypeOK, ClosedStore, dbVars
<1>3. ASSUME NEW h \in Handles, NEW k \in DiscoveryKeys, CallCreate(h, k)
      PROVE  TypeOK'
  <2>1. store.head.cores \in Nat /\ store.head.datas \in Nat
    BY DEF TypeOK, Counters
  <2>2. frame' \in [h : Handles, key : DiscoveryKeys, ptrs : Pointers]
    BY <1>3, <2>1 DEF CallCreate, Pointers
  <2>3. store' = [up |-> store.up,
                  head |-> [cores |-> store.head.cores + 1,
                            datas |-> store.head.datas + 1]]
    BY <1>3 DEF CallCreate, TypeOK, Counters
  <2>4. store' \in [up : BOOLEAN, head : Counters]
    <3>1. store.head.cores + 1 \in Nat /\ store.head.datas + 1 \in Nat
      BY <2>1
    <3>2. store.up \in BOOLEAN
      BY DEF TypeOK
    <3>3. QED
      BY <2>3, <3>1, <3>2 DEF Counters
  <2>5. QED
    BY <1>3, <2>2, <2>4 DEF CallCreate, TypeOK, dbVars
<1>4. ASSUME NEW h \in Handles, NEW k \in DiscoveryKeys, CallGet(h, k)
      PROVE  TypeOK'
  BY <1>0, <1>4 DEF CallGet, TypeOK, dbVars
<1>5. ASSUME NEW h \in Handles, CoreDestroy(h)
      PROVE  TypeOK'
  BY <1>0, <1>5 DEF CoreDestroy, TypeOK, dbVars
<1>6. CASE StoreReadHead
  BY <1>0, <1>6 DEF StoreReadHead, TypeOK, dbVars
<1>7. CASE StoreReadHeadFails
  BY <1>7 DEF StoreReadHeadFails, TypeOK, dbVars
<1>8. CASE CreateFlush
  <2>1. store.head \in Counters /\ frame.ptrs \in Pointers
        /\ frame.key \in DiscoveryKeys
    BY DEF TypeOK
  <2>2. QED
    BY <1>8, <2>1 DEF CreateFlush, TypeOK
<1>9. CASE CreateFails
  <2>1. /\ store.head.cores = DurableCounters.cores + 1
        /\ store.head.datas = DurableCounters.datas + 1
    BY <1>9 DEF CreateFails, CallHoldsPointers
  <2>2. DurableCounters.cores \in Nat /\ DurableCounters.datas \in Nat
    BY <1>0 DEF Counters
  <2>3. store.head.cores - 1 \in Nat /\ store.head.datas - 1 \in Nat
    BY <2>1, <2>2
  <2>4. store' \in [up : BOOLEAN, head : Counters]
    BY <1>9, <2>3 DEF CreateFails, TypeOK, Counters
  <2>5. QED
    BY <1>9, <2>4 DEF CreateFails, TypeOK, dbVars
<1>10. CASE CreateReturns \/ GetReturns
  BY <1>10 DEF CreateReturns, GetReturns, TypeOK, HandleState, dbVars
<1>11. CASE GetFound
  BY <1>11 DEF GetFound, TypeOK, dbVars
<1>12. CASE GetFails \/ GetLoadFails
  BY <1>12 DEF GetFails, GetLoadFails, TypeOK, dbVars
<1>13. CASE Crash
  BY <1>0, <1>13 DEF Crash, TypeOK, ClosedStore, dbVars
<1>14. CASE UNCHANGED vars
  BY <1>14 DEF vars, TypeOK, dbVars
<1>15. QED
  BY <1>1, <1>2, <1>3, <1>4, <1>5, <1>6, <1>7, <1>8, <1>9, <1>10, <1>11,
     <1>12, <1>13, <1>14 DEF Next, CallStep
-----------------------------------------------------------------------------
(* An empty disk and no open handle: nothing to keep apart yet.            *)
LEMMA InitPointers ==
  ASSUME Init
  PROVE  PointersInv
BY DEF Init, PointersInv, CountersAgree, PointersUnique, HandlesApart,
       CallHoldsPointers, HandlesOwnData, ClosedStore, NoHandle

(* The one step that changes the disk: the pointers it stores are the old  *)
(* counters, above every pointer stored or held so far.                    *)
LEMMA CreateFlushPointers ==
  ASSUME TypeOK, PointersInv, CreateFlush
  PROVE  PointersInv'
<1> DEFINE old == DurableCounters
<1>1. old \in Counters /\ old.cores \in Nat /\ old.datas \in Nat
  BY DurableType DEF Counters
<1>2. /\ frame.ptrs.core_ptr = old.cores /\ frame.ptrs.data_ptr = old.datas
      /\ store.head.cores = old.cores + 1 /\ store.head.datas = old.datas + 1
      /\ store.up /\ store.head \in Counters
  BY DEF CreateFlush, PointersInv, CallHoldsPointers, TypeOK
<1>3. /\ DurableCounters' = store.head
      /\ DurableCounters'.cores = old.cores + 1
      /\ DurableCounters'.datas = old.datas + 1
  BY <1>2, NoStoreHeadAssumption DEF CreateFlush, DurableCounters
<1>4. /\ \A k \in DOMAIN dbCores' : k # frame.key =>
           k \in DOMAIN dbCores /\ dbCores'[k] = dbCores[k]
      /\ frame.key \in DOMAIN dbCores' /\ dbCores'[frame.key] = frame.ptrs
  BY DEF CreateFlush
<1>5. /\ \A k \in DOMAIN dbCores : dbCores[k] \in Pointers
      /\ \A k \in DOMAIN dbCores :
           dbCores[k].core_ptr \in Nat /\ dbCores[k].data_ptr \in Nat
      /\ \A h \in Handles : handle[h].ptrs.data_ptr \in Nat
  BY DEF TypeOK, Pointers, HandleState
<1>6. \A k \in DOMAIN dbCores :
        dbCores[k].core_ptr < old.cores /\ dbCores[k].data_ptr < old.datas
  BY DEF PointersInv, PointersUnique
<1> HIDE DEF old
<1>7. PointersUnique'
  <2>1. ASSUME NEW k \in DOMAIN dbCores'
        PROVE  /\ dbCores'[k].core_ptr < old.cores + 1
               /\ dbCores'[k].data_ptr < old.datas + 1
    <3>1. CASE k = frame.key
      BY <1>1, <1>2, <1>4, <3>1
    <3>2. CASE k # frame.key
      BY <1>1, <1>4, <1>5, <1>6, <3>2
    <3>3. QED
      BY <3>1, <3>2
  <2>2. ASSUME NEW k \in DOMAIN dbCores', NEW l \in DOMAIN dbCores', k # l
        PROVE  /\ dbCores'[k].core_ptr # dbCores'[l].core_ptr
               /\ dbCores'[k].data_ptr # dbCores'[l].data_ptr
    <3>1. CASE k = frame.key
      <4>1. l \in DOMAIN dbCores /\ dbCores'[l] = dbCores[l]
        BY <1>4, <2>2, <3>1
      <4>2. QED
        BY <1>1, <1>2, <1>4, <1>5, <1>6, <3>1, <4>1
    <3>2. CASE l = frame.key
      <4>1. k \in DOMAIN dbCores /\ dbCores'[k] = dbCores[k]
        BY <1>4, <2>2, <3>2
      <4>2. QED
        BY <1>1, <1>2, <1>4, <1>5, <1>6, <3>2, <4>1
    <3>3. CASE k # frame.key /\ l # frame.key
      BY <1>4, <2>2, <3>3 DEF PointersInv, PointersUnique
    <3>4. QED
      BY <3>1, <3>2, <3>3
  <2>3. QED
    BY <1>3, <2>1, <2>2 DEF PointersUnique
<1>8. HandlesOwnData'
  <2>1. UNCHANGED handle
    BY DEF CreateFlush
  <2>2. ASSUME NEW h \in Handles, handle[h].key # NoKey
        PROVE  /\ handle[h].ptrs.data_ptr < old.datas + 1
               /\ \A k \in DOMAIN dbCores' :
                    dbCores'[k].data_ptr = handle[h].ptrs.data_ptr
                    => k = handle[h].key
    <3>1. handle[h].ptrs.data_ptr < old.datas
      BY <2>2 DEF PointersInv, HandlesOwnData, old
    <3>2. ASSUME NEW k \in DOMAIN dbCores',
                 dbCores'[k].data_ptr = handle[h].ptrs.data_ptr
          PROVE  k = handle[h].key
      <4>1. k # frame.key
        BY <1>1, <1>2, <1>4, <1>5, <3>1, <3>2
      <4>2. QED
        BY <1>4, <2>2, <3>2, <4>1 DEF PointersInv, HandlesOwnData
    <3>3. QED
      BY <1>1, <1>5, <3>1, <3>2
  <2>3. QED
    BY <1>3, <2>1, <2>2 DEF HandlesOwnData
<1>9. HandlesApart'
  BY DEF PointersInv, HandlesApart, CreateFlush
<1>10. CountersAgree' /\ CallHoldsPointers'
  BY <1>2, <1>3, <1>4 DEF CreateFlush, CountersAgree, CallHoldsPointers
<1>11. QED
  BY <1>7, <1>8, <1>9, <1>10 DEF PointersInv

(* A handle that becomes a handle on the record of its key stays apart.    *)
LEMMA OpenPointers ==
  ASSUME TypeOK, PointersInv, CreateReturns \/ GetReturns
  PROVE  PointersInv'
<1>1. /\ frame.key \in DOMAIN dbCores /\ dbCores[frame.key] = frame.ptrs
      /\ frame.key # NoKey /\ frame.h \in Handles
  BY NoKeyAssumption
     DEF CreateReturns, GetReturns, PointersInv, CallHoldsPointers, TypeOK
<1>2. /\ handle' = [handle EXCEPT ![frame.h] =
                      [key |-> frame.key, ptrs |-> frame.ptrs]]
      /\ UNCHANGED <<dbVars, store, frame>> /\ pc' = "idle"
  BY DEF CreateReturns, GetReturns
<1>3. /\ handle'[frame.h] = [key |-> frame.key, ptrs |-> frame.ptrs]
      /\ \A h \in Handles \ {frame.h} : handle'[h] = handle[h]
  BY <1>1, <1>2 DEF TypeOK
<1>4. DurableCounters' = DurableCounters
  BY <1>2 DEF DurableCounters, dbVars
<1>5. HandlesOwnData'
  <2>1. /\ frame.ptrs.data_ptr < DurableCounters.datas
        /\ \A k \in DOMAIN dbCores :
             dbCores[k].data_ptr = frame.ptrs.data_ptr => k = frame.key
    BY <1>1 DEF PointersInv, PointersUnique
  <2>2. QED
    BY <1>2, <1>3, <1>4, <2>1 DEF PointersInv, HandlesOwnData, dbVars
<1>6. HandlesApart'
  <2>1. ASSUME NEW g \in Handles, handle[g].key # NoKey,
               handle[g].key # frame.key
        PROVE  handle[g].ptrs.data_ptr # frame.ptrs.data_ptr
    BY <1>1, <2>1 DEF PointersInv, HandlesOwnData
  <2>2. QED
    BY <1>3, <2>1 DEF PointersInv, HandlesApart
<1>7. CountersAgree' /\ CallHoldsPointers'
  <2>1. store.head = DurableCounters
    BY DEF CreateReturns, GetReturns, PointersInv, CallHoldsPointers
  <2>2. QED
    BY <1>2, <1>4, <2>1 DEF CountersAgree, CallHoldsPointers
<1>8. QED
  BY <1>2, <1>4, <1>5, <1>6, <1>7 DEF PointersInv, PointersUnique, dbVars

(* Handles that are only ever emptied, over an unchanged disk, stay apart. *)
LEMMA SameDiskPointers ==
  ASSUME TypeOK, PointersInv, UNCHANGED dbVars,
         \A h \in Handles : handle'[h] = handle[h] \/ handle'[h] = NoHandle,
         CountersAgree', CallHoldsPointers'
  PROVE  PointersInv'
<1>1. DurableCounters' = DurableCounters /\ dbCores' = dbCores
  BY DEF DurableCounters, dbVars
<1>2. NoHandle.key = NoKey
  BY DEF NoHandle
<1>3. HandlesApart'
  BY <1>2 DEF PointersInv, HandlesApart
<1>4. HandlesOwnData'
  BY <1>1, <1>2 DEF PointersInv, HandlesOwnData
<1>5. PointersUnique'
  BY <1>1 DEF PointersInv, PointersUnique
<1>6. QED
  BY <1>3, <1>4, <1>5 DEF PointersInv

(* Every step of the store keeps the counters of the call, the disk and    *)
(* the open handles in line.                                               *)
LEMMA NextPointers ==
  ASSUME TypeOK, PointersInv, [Next]_vars
  PROVE  PointersInv'
<1>0. DurableCounters \in Counters /\ store.head \in Counters
  BY DurableType DEF TypeOK
<1> USE DEF dbVars
<1>1. CASE StoreOpen
  <2>1. UNCHANGED <<dbVars, handle>> /\ ~store'.up /\ pc' = "read_head"
    BY <1>1 DEF StoreOpen, ClosedStore
  <2>2. CountersAgree' /\ CallHoldsPointers'
    BY <2>1 DEF CountersAgree, CallHoldsPointers
  <2>3. QED
    BY <2>1, <2>2, SameDiskPointers
<1>2. CASE StoreDestroy
  <2>1. UNCHANGED <<dbVars, handle>> /\ ~store'.up /\ pc' = "idle"
    BY <1>2 DEF StoreDestroy, ClosedStore
  <2>2. CountersAgree' /\ CallHoldsPointers'
    BY <2>1 DEF CountersAgree, CallHoldsPointers
  <2>3. QED
    BY <2>1, <2>2, SameDiskPointers
<1>3. ASSUME NEW h \in Handles, NEW k \in DiscoveryKeys, CallCreate(h, k)
      PROVE  PointersInv'
  <2>1. store.head = DurableCounters /\ store.up
    BY <1>3 DEF CallCreate, PointersInv, CountersAgree
  <2>2. /\ store'.up /\ pc' = "create" /\ UNCHANGED <<dbVars, handle>>
        /\ frame'.ptrs = [core_ptr |-> DurableCounters.cores,
                          data_ptr |-> DurableCounters.datas]
        /\ store'.head = [cores |-> DurableCounters.cores + 1,
                          datas |-> DurableCounters.datas + 1]
    BY <1>0, <1>3, <2>1 DEF CallCreate, TypeOK, Counters
  <2>3. DurableCounters' = DurableCounters
    BY <2>2 DEF DurableCounters
  <2>4. CountersAgree' /\ CallHoldsPointers'
    BY <2>2, <2>3 DEF CountersAgree, CallHoldsPointers
  <2>5. QED
    BY <2>2, <2>4, SameDiskPointers
<1>4. ASSUME NEW h \in Handles, NEW k \in DiscoveryKeys, CallGet(h, k)
      PROVE  PointersInv'
  <2>1. store.head = DurableCounters /\ store.up
    BY <1>4 DEF CallGet, PointersInv, CountersAgree
  <2>2. UNCHANGED <<dbVars, store, handle>> /\ pc' = "lookup"
    BY <1>4 DEF CallGet
  <2>3. CountersAgree' /\ CallHoldsPointers'
    BY <2>1, <2>2 DEF CountersAgree, CallHoldsPointers, DurableCounters
  <2>4. QED
    BY <2>2, <2>3, SameDiskPointers
<1>5. ASSUME NEW h \in Handles, CoreDestroy(h)
      PROVE  PointersInv'
  <2>1. /\ UNCHANGED <<dbVars, store, frame, pc>>
        /\ \A g \in Handles : handle'[g] = handle[g] \/ handle'[g] = NoHandle
    BY <1>5 DEF CoreDestroy, TypeOK
  <2>2. CountersAgree' /\ CallHoldsPointers'
    BY <2>1 DEF PointersInv, CountersAgree, CallHoldsPointers, DurableCounters
  <2>3. QED
    BY <2>1, <2>2, SameDiskPointers
<1>6. CASE StoreReadHead
  <2>1. /\ UNCHANGED <<dbVars, handle>> /\ pc' = "idle"
        /\ store'.head = DurableCounters
    BY <1>6 DEF StoreReadHead
  <2>2. CountersAgree' /\ CallHoldsPointers'
    BY <2>1 DEF CountersAgree, CallHoldsPointers, DurableCounters
  <2>3. QED
    BY <2>1, <2>2, SameDiskPointers
<1>7. CASE StoreReadHeadFails
  <2>1. UNCHANGED <<dbVars, store, handle>> /\ pc' = "idle" /\ ~store.up
    BY <1>7 DEF StoreReadHeadFails, PointersInv, CallHoldsPointers
  <2>2. CountersAgree' /\ CallHoldsPointers'
    BY <2>1 DEF CountersAgree, CallHoldsPointers
  <2>3. QED
    BY <2>1, <2>2, SameDiskPointers
<1>8. CASE CreateFlush
  BY <1>8, CreateFlushPointers
<1>9. CASE CreateFails
  <2>1. /\ store.head = [cores |-> DurableCounters.cores + 1,
                         datas |-> DurableCounters.datas + 1]
        /\ UNCHANGED <<dbVars, handle>> /\ pc' = "idle"
    BY <1>9 DEF CreateFails, PointersInv, CallHoldsPointers
  <2>2. store'.head = [cores |-> store.head.cores - 1,
                       datas |-> store.head.datas - 1]
    BY <1>9 DEF CreateFails, TypeOK, Counters
  <2>3. /\ (DurableCounters.cores + 1) - 1 = DurableCounters.cores
        /\ (DurableCounters.datas + 1) - 1 = DurableCounters.datas
    BY <1>0 DEF Counters
  <2>4. store'.head = DurableCounters
    BY <1>0, <2>1, <2>2, <2>3 DEF Counters
  <2>5. CountersAgree' /\ CallHoldsPointers'
    BY <2>1, <2>4 DEF CountersAgree, CallHoldsPointers, DurableCounters
  <2>6. QED
    BY <2>1, <2>5, SameDiskPointers
<1>10. CASE CreateReturns \/ GetReturns
  BY <1>10, OpenPointers
<1>11. CASE GetFound
  <2>1. /\ UNCHANGED <<dbVars, store, handle>> /\ pc' = "found"
        /\ frame.key \in DOMAIN dbCores /\ store.up
        /\ store.head = DurableCounters
    BY <1>11 DEF GetFound, PointersInv, CallHoldsPointers
  <2>2. frame'.key = frame.key /\ frame'.ptrs = dbCores[frame.key]
    BY <1>11 DEF GetFound, TypeOK
  <2>3. CountersAgree' /\ CallHoldsPointers'
    BY <2>1, <2>2 DEF CountersAgree, CallHoldsPointers, DurableCounters
  <2>4. QED
    BY <2>1, <2>3, SameDiskPointers
<1>12. CASE GetFails \/ GetLoadFails
  <2>1. /\ UNCHANGED <<dbVars, store, handle>> /\ pc' = "idle"
        /\ store.head = DurableCounters
    BY <1>12 DEF GetFails, GetLoadFails, PointersInv, CallHoldsPointers
  <2>2. CountersAgree' /\ CallHoldsPointers'
    BY <2>1 DEF CountersAgree, CallHoldsPointers, DurableCounters
  <2>3. QED
    BY <2>1, <2>2, SameDiskPointers
<1>13. CASE Crash
  <2>1. /\ UNCHANGED dbVars /\ ~store'.up /\ pc' = "idle"
        /\ \A g \in Handles : handle'[g] = NoHandle
    BY <1>13 DEF Crash, ClosedStore
  <2>2. CountersAgree' /\ CallHoldsPointers'
    BY <2>1 DEF CountersAgree, CallHoldsPointers
  <2>3. QED
    BY <2>1, <2>2, SameDiskPointers
<1>14. CASE UNCHANGED vars
  <2>1. CountersAgree' /\ CallHoldsPointers'
    BY <1>14 DEF vars, PointersInv, CountersAgree, CallHoldsPointers,
                 DurableCounters
  <2>2. QED
    BY <1>14, <2>1, SameDiskPointers DEF vars
<1>15. QED
  BY <1>1, <1>2, <1>3, <1>4, <1>5, <1>6, <1>7, <1>8, <1>9, <1>10, <1>11,
     <1>12, <1>13, <1>14 DEF Next, CallStep

(* The records of a step are the old ones, but for the one a create adds,  *)
(* at the counters the disk had.                                           *)
LEMMA NextNewPointers ==
  ASSUME TypeOK, PointersInv, [Next]_vars
  PROVE  \A k \in DOMAIN dbCores' :
           \/ k \in DOMAIN dbCores /\ dbCores'[k] = dbCores[k]
           \/ /\ dbCores'[k].core_ptr >= DurableCounters.cores
              /\ dbCores'[k].data_ptr >= DurableCounters.datas
<1>1. CASE CreateFlush
  <2>1. \A k \in DOMAIN dbCores' :
          \/ k \in DOMAIN dbCores /\ dbCores'[k] = dbCores[k]
          \/ dbCores'[k] = frame.ptrs
    BY <1>1 DEF CreateFlush
  <2>2. /\ frame.ptrs.core_ptr = DurableCounters.cores
        /\ frame.ptrs.data_ptr = DurableCounters.datas
    BY <1>1 DEF CreateFlush, PointersInv, CallHoldsPointers
  <2>3. DurableCounters.cores \in Nat /\ DurableCounters.datas \in Nat
    BY DurableType DEF Counters
  <2>4. QED
    BY <2>1, <2>2, <2>3
<1>2. CASE ~CreateFlush
  <2>1. UNCHANGED dbCores
    BY <1>2 DEF Next, CallStep, vars, dbVars, StoreOpen, StoreReadHead,
       StoreReadHeadFails, StoreDestroy, CallCreate, CreateFails,
       CreateReturns, CallGet, GetFound, GetFails, GetReturns, GetLoadFails,
       CoreDestroy, Crash
  <2>2. QED
    BY <2>1
<1>3. QED
  BY <1>1, <1>2

-----------------------------------------------------------------------------
(* The invariant of the store: types and pointers together.                *)
LEMMA StoreInvariant == Spec => [](TypeOK /\ PointersInv)
<1>1. Init => TypeOK /\ PointersInv
  BY InitType, InitPointers
<1>2. TypeOK /\ PointersInv /\ [Next]_vars => (TypeOK /\ PointersInv)'
  <2>1. PointersInv => CallHoldsPointers
    BY DEF PointersInv
  <2>2. QED
    BY <2>1, NextType, NextPointers
<1>3. QED
  BY <1>1, <1>2, PTL DEF Spec

(* Every variable keeps its type: the counters a failed create takes back  *)
(* are never below zero (hc_store_create).                                 *)
THEOREM StoreTypeCorrect == Spec => []TypeOK
BY StoreInvariant, PTL

(* Between calls the counters in memory are the durable ones.              *)
THEOREM CountersAlwaysAgree == Spec => []CountersAgree
<1>1. PointersInv => CountersAgree
  BY DEF PointersInv
<1>2. QED
  BY <1>1, StoreInvariant, PTL

(* No two discovery keys ever share a pointer on disk, and the next create *)
(* takes one that is free, however creates fail and the process crashes.   *)
THEOREM PointersNeverShared == Spec => []PointersUnique
<1>1. PointersInv => PointersUnique
  BY DEF PointersInv
<1>2. QED
  BY <1>1, StoreInvariant, PTL

(* Open handles on different keys never write to the same data.            *)
THEOREM HandlesStayApart == Spec => []HandlesApart
<1>1. PointersInv => HandlesApart
  BY DEF PointersInv
<1>2. QED
  BY <1>1, StoreInvariant, PTL

(* A pointer once given out is never given out again, not even to a second *)
(* create under the same discovery key.                                    *)
THEOREM PointersNeverReused == Spec => CreateTakesNewPointers
<1>1. TypeOK /\ PointersInv /\ [Next]_vars =>
        [\A k \in DOMAIN dbCores' :
           \/ k \in DOMAIN dbCores /\ dbCores'[k] = dbCores[k]
           \/ /\ dbCores'[k].core_ptr >= DurableCounters.cores
              /\ dbCores'[k].data_ptr >= DurableCounters.datas]_vars
  BY NextNewPointers
<1>2. QED
  BY <1>1, StoreInvariant, PTL DEF Spec, CreateTakesNewPointers

-----------------------------------------------------------------------------
(* No step of the store but the write of a create changes the disk.        *)
LEMMA SameDisk ==
  ASSUME [Next]_vars, ~CreateFlush
  PROVE  UNCHANGED dbVars
BY DEF Next, CallStep, vars, dbVars, StoreOpen, StoreReadHead,
       StoreReadHeadFails, StoreDestroy, CallCreate, CreateFails,
       CreateReturns, CallGet, GetFound, GetFails, GetReturns, GetLoadFails,
       CoreDestroy, Crash

(* What that write leaves: the counters advanced by one, and the pointers  *)
(* at the old counters under the key of the create.                        *)
LEMMA CreateFlushDisk ==
  ASSUME TypeOK, PointersInv, CreateFlush
  PROVE  /\ DurableCounters' = [cores |-> DurableCounters.cores + 1,
                                datas |-> DurableCounters.datas + 1]
         /\ DOMAIN dbCores' = DOMAIN dbCores \cup {frame.key}
         /\ dbCores'[frame.key].data_ptr = DurableCounters.datas
         /\ \A k \in DOMAIN dbCores \ {frame.key} : dbCores'[k] = dbCores[k]
<1>1. store.head \in Counters /\ store.head # NoStoreHead
  BY NoStoreHeadAssumption DEF TypeOK
<1>2. /\ store.head = [cores |-> DurableCounters.cores + 1,
                       datas |-> DurableCounters.datas + 1]
      /\ frame.ptrs = [core_ptr |-> DurableCounters.cores,
                       data_ptr |-> DurableCounters.datas]
  BY DEF CreateFlush, PointersInv, CallHoldsPointers
<1>3. DurableCounters' = store.head
  BY <1>1 DEF CreateFlush, DurableCounters
<1>4. QED
  BY <1>2, <1>3 DEF CreateFlush

-----------------------------------------------------------------------------
(* No log is written before its core exists.                               *)
LEMMA InitLogs ==
  ASSUME StoreCoresInit
  PROVE  LogsInv
<1>1. logs = [ptr \in 0..MaxCores - 1 |-> <<>>]
  BY DEF StoreCoresInit
<1>2. logs \in [0..MaxCores - 1 -> Seq(Blocks)] /\ NewDataUnwritten
  BY <1>1 DEF NewDataUnwritten
<1>3. DurableCounters = ZeroCounters /\ store.head = ZeroCounters
  BY DEF StoreCoresInit, Init, DurableCounters, ClosedStore
<1>4. handle = [h \in Handles |-> NoHandle]
  BY DEF StoreCoresInit, Init
<1>5. QED
  BY <1>2, <1>3, <1>4, MaxCoresAssumption DEF LogsInv, ZeroCounters

(* The counters in memory are the durable ones, one ahead of them inside a *)
(* create, or the zeros of a closed store: a step keeps them in step.      *)
LEMMA NextCounters ==
  ASSUME TypeOK, PointersInv, LogsInv, [Next]_vars
  PROVE  \A counters \in {DurableCounters', store'.head} :
           counters.cores = counters.datas /\ counters.cores <= MaxCores
<1>0. /\ DurableCounters \in Counters /\ store.head \in Counters
      /\ DurableCounters.cores \in Nat /\ DurableCounters.datas \in Nat
      /\ store.head.cores \in Nat /\ store.head.datas \in Nat
      /\ MaxCores \in Nat
  BY DurableType, MaxCoresAssumption DEF TypeOK, Counters
<1>1. /\ DurableCounters.cores = DurableCounters.datas
      /\ DurableCounters.cores <= MaxCores
      /\ store.head.cores = store.head.datas
      /\ store.head.cores <= MaxCores
  BY DEF LogsInv
<1> USE DEF dbVars
<1>2. CASE StoreOpen \/ StoreDestroy \/ Crash
  <2>1. UNCHANGED dbVars /\ store'.head = ZeroCounters
    BY <1>2 DEF StoreOpen, StoreDestroy, Crash, ClosedStore
  <2>2. QED
    BY <1>0, <1>1, <2>1 DEF DurableCounters, ZeroCounters
<1>3. ASSUME NEW h \in Handles, NEW k \in DiscoveryKeys, CallCreate(h, k)
      PROVE  /\ UNCHANGED DurableCounters
             /\ store'.head.cores = store.head.cores + 1
             /\ store'.head.datas = store.head.datas + 1
             /\ store.head.cores < MaxCores
  BY <1>0, <1>3 DEF CallCreate, TypeOK, Counters, DurableCounters
<1>4. CASE StoreReadHead
  BY <1>1, <1>4 DEF StoreReadHead, DurableCounters
<1>5. CASE CreateFlush
  <2>1. DurableCounters' = store.head /\ UNCHANGED store
    BY <1>5, <1>0, NoStoreHeadAssumption DEF CreateFlush, DurableCounters
  <2>2. QED
    BY <1>1, <2>1
<1>6. CASE CreateFails
  <2>1. /\ UNCHANGED DurableCounters
        /\ store'.head.cores = store.head.cores - 1
        /\ store'.head.datas = store.head.datas - 1
    BY <1>6 DEF CreateFails, TypeOK, Counters, DurableCounters
  <2>2. QED
    BY <1>0, <1>1, <2>1
<1>7. CASE UNCHANGED <<dbVars, store>>
  BY <1>1, <1>7 DEF DurableCounters
<1>8. QED
  <2>1. CASE \E h \in Handles, k \in DiscoveryKeys : CallCreate(h, k)
    BY <1>0, <1>1, <1>3, <2>1
  <2>2. QED
    BY <1>2, <1>4, <1>5, <1>6, <1>7, <2>1
       DEF Next, CallStep, vars, StoreReadHeadFails, CreateReturns, CallGet,
           GetFound, GetFails, GetReturns, GetLoadFails, CoreDestroy

(* The durable counters never go back, so what was unwritten and not given *)
(* out is still not given out.                                             *)
LEMMA NextLogs ==
  ASSUME TypeOK, PointersInv, LogsInv, Next \/ UNCHANGED vars, UNCHANGED logs
  PROVE  LogsInv'
<1>1. DurableCounters'.datas >= DurableCounters.datas
  <2>1. DurableCounters.datas \in Nat
    BY DurableType DEF Counters
  <2>2. CASE CreateFlush
    BY <2>1, <2>2, CreateFlushDisk
  <2>3. CASE ~CreateFlush
    BY <2>1, <2>3, SameDisk DEF DurableCounters, dbVars
  <2>4. QED
    BY <2>2, <2>3
<1>2. NewDataUnwritten'
  <2>1. /\ DurableCounters.datas \in Nat /\ DurableCounters'.datas \in Nat
        /\ DOMAIN logs \subseteq Nat
    <3>1. DurableCounters'.datas \in Nat
      BY NextType, DurableType DEF PointersInv, TypeOK, DurableCounters,
         Counters, ZeroCounters
    <3>2. QED
      BY <3>1, DurableType, MaxCoresAssumption DEF Counters, LogsInv
  <2>2. QED
    BY <1>1, <2>1 DEF NewDataUnwritten, LogsInv
<1>3. \A h \in Handles : handle'[h] # NoHandle => handle'[h].key # NoKey
  BY NoKeyAssumption
     DEF LogsInv, TypeOK, HandleState, NoHandle, Next, CallStep, vars,
         StoreOpen, StoreReadHead, StoreReadHeadFails, StoreDestroy,
         CallCreate, CreateFlush, CreateFails, CreateReturns, CallGet,
         GetFound, GetFails, GetReturns, GetLoadFails, CoreDestroy, Crash
<1>4. QED
  BY <1>2, <1>3, NextCounters DEF LogsInv

(* An append writes to the data of an open handle, which was given out.    *)
LEMMA AppendLogs ==
  ASSUME TypeOK, PointersInv, LogsInv,
         NEW h \in Handles, NEW batch \in Batches, AppendBatch(h, batch)
  PROVE  /\ handle[h].key \in DiscoveryKeys
         /\ DataOf(h) \in DOMAIN logs
         /\ LogsInv'
<1>1. handle[h].key \in DiscoveryKeys
  BY DEF AppendBatch, LogsInv, TypeOK, HandleState
<1>2. DataOf(h) \in Nat /\ DataOf(h) < DurableCounters.datas
  BY <1>1, NoKeyAssumption
     DEF DataOf, PointersInv, HandlesOwnData, TypeOK, HandleState, Pointers
<1>3. DataOf(h) \in 0..MaxCores - 1
  <2>1. /\ DurableCounters.datas \in Nat /\ MaxCores \in Nat
        /\ DurableCounters.datas <= MaxCores
    BY DurableType, MaxCoresAssumption DEF Counters, LogsInv
  <2>2. QED
    BY <1>2, <2>1
<1>4. /\ logs \in [0..MaxCores - 1 -> Seq(Blocks)]
      /\ batch \in Seq(Blocks)
      /\ logs' = [logs EXCEPT ![DataOf(h)] = @ \o batch]
  BY BatchesAssumption DEF LogsInv, AppendBatch
<1>5. logs' \in [0..MaxCores - 1 -> Seq(Blocks)]
  <2>1. logs[DataOf(h)] \o batch \in Seq(Blocks)
    BY <1>3, <1>4
  <2>2. QED
    BY <1>4, <2>1
<1>6. UNCHANGED <<DurableCounters, store, handle>>
  BY DEF AppendBatch, vars, dbVars, DurableCounters
<1>7. NewDataUnwritten'
  BY <1>2, <1>3, <1>4, <1>6 DEF NewDataUnwritten, LogsInv
<1>8. QED
  BY <1>1, <1>3, <1>4, <1>5, <1>6, <1>7 DEF LogsInv

-----------------------------------------------------------------------------
(* The data pointers of the cores and of the next create stay apart while  *)
(* cores are appended to.                                                  *)
THEOREM LogsInductive ==
  StoreCoresSpec => [](TypeOK /\ PointersInv /\ LogsInv)
<1>1. StoreCoresInit => TypeOK /\ PointersInv /\ LogsInv
  BY InitType, InitPointers, InitLogs DEF StoreCoresInit
<1>2. ASSUME TypeOK, PointersInv, LogsInv,
             [StoreCoresNext]_storeCoresVars
      PROVE  TypeOK' /\ PointersInv' /\ LogsInv'
  <2>1. CASE (Next \/ UNCHANGED vars) /\ UNCHANGED logs
    <3>1. TypeOK' /\ PointersInv'
      BY <1>2, <2>1, NextType, NextPointers DEF PointersInv
    <3>2. QED
      BY <1>2, <2>1, <3>1, NextLogs
  <2>2. ASSUME NEW h \in Handles, NEW batch \in Batches,
               AppendBatch(h, batch)
        PROVE  TypeOK' /\ PointersInv' /\ LogsInv'
    <3>1. UNCHANGED vars
      BY <2>2 DEF AppendBatch
    <3>2. TypeOK' /\ PointersInv'
      BY <1>2, <3>1, NextType, NextPointers DEF PointersInv
    <3>3. QED
      BY <1>2, <2>2, <3>2, AppendLogs
  <2>3. QED
    BY <1>2, <2>1, <2>2 DEF StoreCoresNext, storeCoresVars
<1>3. QED
  BY <1>1, <1>2, PTL DEF StoreCoresSpec

(* Whatever fails, crashes or is created again, the data pointer that the  *)
(* next create will give out has no blocks (hc_store_create).              *)
THEOREM NewDataNeverWritten == StoreCoresSpec => []NewDataUnwritten
<1>1. LogsInv => NewDataUnwritten
  BY DEF LogsInv
<1>2. QED
  BY <1>1, LogsInductive, PTL

-----------------------------------------------------------------------------
(* At first no key has a log.                                              *)
LEMMA InitRefines ==
  ASSUME StoreCoresInit
  PROVE  Abstract!LogStoreInit
BY DEF StoreCoresInit, Init, Abstract!LogStoreInit, LogOfKey

(* The write of a create gives its key the log behind the next data        *)
(* pointer, which is still empty, and leaves the log of every other key.   *)
LEMMA CreateFlushRefines ==
  ASSUME TypeOK, PointersInv, LogsInv, CreateFlush, UNCHANGED logs
  PROVE  Abstract!LogStoreNext
<1>1. frame.key \in DiscoveryKeys
  BY DEF TypeOK
<1>2. logs[DurableCounters.datas] = <<>>
  <2>1. /\ DurableCounters.datas \in Nat /\ MaxCores \in Nat
        /\ DOMAIN logs = 0..MaxCores - 1
    BY DurableType, MaxCoresAssumption DEF Counters, LogsInv
  <2>2. DurableCounters.datas < MaxCores
    <3>1. /\ store.head.datas = DurableCounters.datas + 1
          /\ store.head.datas <= MaxCores
      BY DEF CreateFlush, PointersInv, CallHoldsPointers, LogsInv
    <3>2. QED
      BY <2>1, <3>1
  <2>3. QED
    BY <2>1, <2>2 DEF LogsInv, NewDataUnwritten
<1>3. LogOfKey' = [LogOfKey EXCEPT ![frame.key] = <<>>]
  <2>1. LogOfKey'[frame.key] = <<>>
    BY <1>1, <1>2, CreateFlushDisk DEF LogOfKey
  <2>2. ASSUME NEW k \in DiscoveryKeys \ {frame.key}
        PROVE  LogOfKey'[k] = LogOfKey[k]
    BY CreateFlushDisk DEF LogOfKey
  <2>3. QED
    BY <1>1, <2>1, <2>2 DEF LogOfKey
<1>4. QED
  BY <1>1, <1>3 DEF Abstract!LogStoreNext, Abstract!CreateLog

(* An append on a handle whose key was not created again since extends the *)
(* log of that key; otherwise it extends a log that no key has any more.   *)
LEMMA AppendRefines ==
  ASSUME TypeOK, PointersInv, LogsInv,
         NEW h \in Handles, NEW batch \in Batches, AppendBatch(h, batch)
  PROVE  Abstract!LogStoreNext \/ UNCHANGED LogOfKey
<1> DEFINE key == handle[h].key
<1>1. /\ key \in DiscoveryKeys /\ key # NoKey
      /\ DataOf(h) \in DOMAIN logs
      /\ logs' = [logs EXCEPT ![DataOf(h)] = @ \o batch]
      /\ UNCHANGED dbCores
  BY AppendLogs, NoKeyAssumption DEF AppendBatch, vars, dbVars
<1>2. \A k \in DOMAIN dbCores : dbCores[k].data_ptr = DataOf(h) => k = key
  BY <1>1 DEF PointersInv, HandlesOwnData, DataOf
<1>3. \A k \in DOMAIN dbCores : dbCores[k].data_ptr \in DOMAIN logs
  <2>1. /\ MaxCores \in Nat /\ DOMAIN logs = 0..MaxCores - 1
        /\ DurableCounters.datas \in Nat
        /\ DurableCounters.datas <= MaxCores
    BY DurableType, MaxCoresAssumption DEF Counters, LogsInv
  <2>2. \A k \in DOMAIN dbCores :
          /\ dbCores[k].data_ptr \in Nat
          /\ dbCores[k].data_ptr < DurableCounters.datas
    BY DEF TypeOK, Pointers, PointersInv, PointersUnique
  <2>3. QED
    BY <2>1, <2>2
<1>4. CASE key \in DOMAIN dbCores /\ dbCores[key].data_ptr = DataOf(h)
  <2>1. LogOfKey[key] = logs[DataOf(h)]
    BY <1>1, <1>4 DEF LogOfKey
  <2>2. LogOfKey[key] # NoLog
    BY <1>1, <2>1, NoLogAssumption DEF LogsInv
  <2>3. LogOfKey' = [LogOfKey EXCEPT ![key] = @ \o batch]
    <3>1. LogOfKey'[key] = logs[DataOf(h)] \o batch
      BY <1>1, <1>4 DEF LogOfKey
    <3>2. ASSUME NEW k \in DiscoveryKeys \ {key}
          PROVE  LogOfKey'[k] = LogOfKey[k]
      BY <1>1, <1>2, <1>3 DEF LogOfKey
    <3>3. QED
      BY <1>1, <2>1, <3>1, <3>2 DEF LogOfKey
  <2>4. QED
    BY <1>1, <2>2, <2>3 DEF Abstract!LogStoreNext, Abstract!AppendToLog
<1>5. CASE ~(key \in DOMAIN dbCores /\ dbCores[key].data_ptr = DataOf(h))
  <2>1. ASSUME NEW k \in DOMAIN dbCores
        PROVE  logs'[dbCores[k].data_ptr] = logs[dbCores[k].data_ptr]
    BY <1>1, <1>2, <1>3, <1>5
  <2>2. QED
    BY <1>1, <2>1 DEF LogOfKey
<1>6. QED
  BY <1>4, <1>5

(* The store is a map from discovery keys to logs: only the write of a     *)
(* create and an append change it, each in one step, and every other step  *)
(* of store.c, a failure or a crash among them, is a stutter.              *)
THEOREM StoreIsLogs == StoreCoresSpec => ImplementsLogStore
<1>1. StoreCoresInit => Abstract!LogStoreInit
  BY InitRefines
<1>2. ASSUME TypeOK, PointersInv, LogsInv,
             [StoreCoresNext]_storeCoresVars
      PROVE  [Abstract!LogStoreNext]_LogOfKey
  <2>1. CASE CreateFlush /\ UNCHANGED logs
    BY <1>2, <2>1, CreateFlushRefines
  <2>2. CASE (Next \/ UNCHANGED vars) /\ ~CreateFlush /\ UNCHANGED logs
    <3>1. UNCHANGED dbCores
      BY <2>2, SameDisk DEF dbVars
    <3>2. QED
      BY <2>2, <3>1 DEF LogOfKey
  <2>3. CASE \E h \in Handles, batch \in Batches : AppendBatch(h, batch)
    BY <1>2, <2>3, AppendRefines
  <2>4. QED
    BY <1>2, <2>1, <2>2, <2>3 DEF StoreCoresNext, storeCoresVars
<1>3. QED
  BY <1>1, <1>2, LogsInductive, PTL
     DEF StoreCoresSpec, ImplementsLogStore, Abstract!LogStoreSpec

=============================================================================
