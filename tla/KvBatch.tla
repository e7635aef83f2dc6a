------------------------------- MODULE KvBatch ------------------------------
(***************************************************************************)
(* What the batches of include/hc/db.h share: entries that hold their own  *)
(* key, queued in growable arrays, and handed to rocksdb as one ordered    *)
(* write.                                                                  *)
(*                                                                         *)
(* An entry also holds a pointer to its key (buf.buffer), which is left    *)
(* behind when the array moves: what a reader of it would see is Stray.    *)
(***************************************************************************)
EXTENDS GrowableArray, SequencesExt

CONSTANTS
  Stray,  \* What is read through a pointer that dangles.
  None    \* "No value", and "no head in the batch".

PutOf(key, value) == [type |-> "put", key |-> key, value |-> value]
DeleteOf(key) == [type |-> "delete", key |-> key, value |-> None]

(* Fault: the array is full, and is written one past its end.              *)
QueuedNoRoom(array, op) ==
  {Appended(grown, [op |-> op, here |-> TRUE]) :
     grown \in Grown(array, Len(array.items))}

(* What a queueing call does to its array.                                 *)
Queued(array, op) ==
  {Appended(grown, [op |-> op, here |-> TRUE]) :
     grown \in Grown(array, Len(array.items) + 1)}

QueueCanFail(array) == GrowCanFail(array, Len(array.items) + 1)

(* Fault: the pointer of the key is followed, wherever the entry is now.   *)
PointedKey(entry) == IF entry.here THEN entry.op.key ELSE Stray

(* hc__key_slice: the key inside the entry.                                *)
KeySlice(entry) == entry.op.key

Sliced(array) ==
  [i \in DOMAIN array.items |->
     [array.items[i].op EXCEPT !.key = KeySlice(array.items[i])]]

(* rocksdb applies the writes of a batch in their order: for each key the  *)
(* last one counts.                                                        *)
LastWrites(writes) ==
  [k \in {writes[i].key : i \in DOMAIN writes} |->
     writes[Max({i \in DOMAIN writes : writes[i].key = k})]]

AppliedAll(map, writes) ==
  LET last == LastWrites(writes)
      gone == {k \in DOMAIN last : last[k].type = "delete"}
  IN  [k \in (DOMAIN map \cup DOMAIN last) \ gone |->
         IF k \in DOMAIN last THEN last[k].value ELSE map[k]]

(* For each key the record that a queue of puts put last.                  *)
LastPuts(items) ==
  [k \in {items[i].op.key : i \in DOMAIN items} |->
     LET last == Max({i \in DOMAIN items : items[i].op.key = k})
     IN  items[last].op.value]

(* A map with some records put over it.                                    *)
Overridden(map, puts) ==
  [k \in DOMAIN map \cup DOMAIN puts |->
     IF k \in DOMAIN puts THEN puts[k] ELSE map[k]]

(* An array holds entries of these operations, no more than it has room    *)
(* for.                                                                    *)
EntriesOf(Ops) == [op : Ops, here : BOOLEAN]

Holds(array, Ops) ==
  /\ array \in [items : Seq(EntriesOf(Ops)), capacity : Nat]
  /\ Len(array.items) <= array.capacity

=============================================================================
