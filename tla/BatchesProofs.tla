---------------------------- MODULE BatchesProofs ---------------------------
(***************************************************************************)
(* What TLAPS proves of the batches, for every set of keys and records and *)
(* every number of calls and reads.                                        *)
(***************************************************************************)
EXTENDS Batches, NumberProofs

-----------------------------------------------------------------------------
(* Growing makes the room that was asked for: doubling reaches any size.   *)
LEMMA CapacityGrows ==
  ASSUME NEW capacity \in Nat, NEW min \in Nat, capacity < min
  PROVE  GrownCapacity(capacity, min) \in Nat /\
         GrownCapacity(capacity, min) >= min
<1> DEFINE start == IF capacity = 0 THEN InitialCapacity ELSE 2 * capacity
           enough == {c \in {start * 2^k : k \in 0..min} : c >= min}
<1>1. start \in Nat /\ start >= 1
  BY FirstCapacityAssumption
<1>2. \A k \in 0..min : 2^k \in Nat /\ start * 2^k \in Nat
  <2>1. \A k \in 0..min : 2^k \in Nat
    BY PowerGrows
  <2> HIDE DEF start
  <2>2. QED
    BY <1>1, <2>1
<1> HIDE DEF start
<1>3. enough \subseteq Nat
  BY <1>2
<1>4. start * 2^min >= min /\ start * 2^min \in Nat
  <2>1. 2^min \in Nat /\ 2^min > min
    BY PowerGrows
  <2>2. \A a \in Nat, b \in Nat : a >= 1 => a * b >= b
    BY SMT
  <2>3. start * 2^min >= 2^min
    BY <1>1, <2>1, <2>2
  <2>4. QED
    BY <1>2, <2>1, <2>3
<1>5. enough # {}
  BY <1>4
<1>6. \E c \in enough : \A d \in enough : c <= d
  <2> HIDE DEF enough
  <2>1. QED
    BY <1>3, <1>5, LeastNumber
<1>7. GrownCapacity(capacity, min) = Min(enough)
  BY DEF GrownCapacity, start
<1>8. Min(enough) \in enough
  <2> HIDE DEF enough
  <2>1. QED
    BY <1>6 DEF Min
<1>9. QED
  BY <1>3, <1>7, <1>8

(* An array that grew has the same operations, and no less room.           *)
LEMMA GrownHolds ==
  ASSUME NEW Ops, NEW array, Holds(array, Ops), NEW min \in Nat,
         NEW grown \in Grown(array, min)
  PROVE  /\ Holds(grown, Ops)
         /\ grown.capacity >= min /\ grown.capacity >= array.capacity
         /\ DOMAIN grown.items = DOMAIN array.items
         /\ Len(grown.items) = Len(array.items)
         /\ \A i \in DOMAIN array.items :
              grown.items[i].op = array.items[i].op
<1>1. /\ array \in [items : Seq(EntriesOf(Ops)), capacity : Nat]
      /\ array.items \in Seq(EntriesOf(Ops))
      /\ array.capacity \in Nat /\ Len(array.items) \in Nat
      /\ Len(array.items) <= array.capacity
  BY DEF Holds
<1>2. CASE array.capacity >= min
  BY <1>1, <1>2 DEF Grown, Holds
<1>3. CASE array.capacity < min
  <2> DEFINE capacity == GrownCapacity(array.capacity, min)
  <2>1. capacity \in Nat /\ capacity >= min
    BY <1>1, <1>3, CapacityGrows
  <2>2. ~(array.capacity >= min)
    BY <1>1, <1>3
  <2>3. PICK items \in {array.items, Moved(array.items)} :
          grown = [items |-> items, capacity |-> capacity]
    BY <2>2 DEF Grown
  <2> HIDE DEF capacity
  <2>4. /\ Moved(array.items) \in Seq(EntriesOf(Ops))
        /\ DOMAIN Moved(array.items) = DOMAIN array.items
        /\ Len(Moved(array.items)) = Len(array.items)
        /\ \A i \in DOMAIN array.items :
             Moved(array.items)[i].op = array.items[i].op
    <3>1. DOMAIN array.items = 1..Len(array.items)
      BY <1>1
    <3>2. \A entry \in EntriesOf(Ops) :
            /\ [entry EXCEPT !.here = FALSE] \in EntriesOf(Ops)
            /\ [entry EXCEPT !.here = FALSE].op = entry.op
      BY DEF EntriesOf
    <3>3. Moved(array.items) =
            [i \in 1..Len(array.items) |->
               [array.items[i] EXCEPT !.here = FALSE]]
      BY <3>1 DEF Moved
    <3>4. \A i \in 1..Len(array.items) :
            array.items[i] \in EntriesOf(Ops)
      BY <1>1
    <3>5. /\ Moved(array.items) \in
               [1..Len(array.items) -> EntriesOf(Ops)]
          /\ \A i \in DOMAIN array.items :
               Moved(array.items)[i].op = array.items[i].op
      BY <3>1, <3>2, <3>3, <3>4
    <3>6. QED
      BY <1>1, <3>1, <3>5
  <2>5. /\ items \in Seq(EntriesOf(Ops))
        /\ DOMAIN items = DOMAIN array.items
        /\ Len(items) = Len(array.items)
        /\ \A i \in DOMAIN array.items : items[i].op = array.items[i].op
    BY <1>1, <2>3, <2>4
  <2>6. QED
    BY <1>1, <1>3, <2>1, <2>3, <2>5 DEF Holds
<1>4. QED
  BY <1>1, <1>2, <1>3

(* A queueing call adds one operation, in the room that it made.           *)
LEMMA QueuedHolds ==
  ASSUME NEW Ops, NEW array, Holds(array, Ops), NEW op \in Ops,
         NEW queued \in Queued(array, op)
  PROVE  /\ Holds(queued, Ops)
         /\ queued.capacity >= array.capacity
         /\ DOMAIN queued.items = DOMAIN array.items \cup {Len(queued.items)}
         /\ Len(queued.items) = Len(array.items) + 1
         /\ \A i \in DOMAIN array.items :
              queued.items[i].op = array.items[i].op
         /\ queued.items[Len(queued.items)].op = op
<1> DEFINE entry == [op |-> op, here |-> TRUE]
           n == Len(array.items)
<1>1. n \in Nat /\ entry \in EntriesOf(Ops) /\ entry.op = op
  BY DEF Holds, EntriesOf
<1> HIDE DEF entry
<1>2. PICK grown \in Grown(array, n + 1) : queued = Appended(grown, entry)
  BY DEF Queued, entry
<1>3. /\ Holds(grown, Ops) /\ grown.capacity >= n + 1
      /\ grown.capacity >= array.capacity
      /\ Len(grown.items) = n /\ DOMAIN grown.items = DOMAIN array.items
      /\ \A i \in DOMAIN array.items :
           grown.items[i].op = array.items[i].op
  BY <1>1, GrownHolds
<1>4. /\ grown.items \in Seq(EntriesOf(Ops)) /\ grown.capacity \in Nat
      /\ queued.items = Append(grown.items, entry)
      /\ queued.capacity = grown.capacity
      /\ queued \in [items : Seq(EntriesOf(Ops)), capacity : Nat]
  <2>1. /\ grown \in [items : Seq(EntriesOf(Ops)), capacity : Nat]
        /\ grown.items \in Seq(EntriesOf(Ops)) /\ grown.capacity \in Nat
    BY <1>3 DEF Holds
  <2>2. Append(grown.items, entry) \in Seq(EntriesOf(Ops))
    BY <1>1, <2>1
  <2>3. queued = [items |-> Append(grown.items, entry),
                  capacity |-> grown.capacity]
    BY <1>2, <2>1 DEF Appended
  <2>4. QED
    BY <2>1, <2>2, <2>3
<1>5. /\ Len(queued.items) = n + 1
      /\ DOMAIN queued.items = 1..n + 1
      /\ DOMAIN grown.items = 1..n
      /\ \A i \in 1..n : queued.items[i] = grown.items[i]
      /\ queued.items[n + 1] = entry
  BY <1>1, <1>3, <1>4
<1>6. Holds(queued, Ops)
  BY <1>1, <1>3, <1>4, <1>5 DEF Holds
<1>7. DOMAIN array.items = 1..n
  BY <1>3, <1>5
<1>8. \A i \in DOMAIN array.items : queued.items[i].op = array.items[i].op
  BY <1>3, <1>5, <1>7
<1>9. queued.items[Len(queued.items)].op = op
  BY <1>1, <1>5
<1>10. DOMAIN queued.items = DOMAIN array.items \cup {Len(queued.items)}
  BY <1>1, <1>5, <1>7
<1>11. QED
  BY <1>3, <1>4, <1>5, <1>6, <1>8, <1>9, <1>10

-----------------------------------------------------------------------------
(* Of the writes with one key, the last one counts.                        *)
LEMMA LastWriteIs ==
  ASSUME NEW Ops, NEW writes \in Seq(Ops), NEW i \in DOMAIN writes,
         \A j \in DOMAIN writes : writes[j].key = writes[i].key => j <= i
  PROVE  /\ writes[i].key \in DOMAIN LastWrites(writes)
         /\ LastWrites(writes)[writes[i].key] = writes[i]
<1> DEFINE k == writes[i].key
           same == {j \in DOMAIN writes : writes[j].key = k}
<1>1. i \in same /\ same \subseteq Nat /\ \A j \in same : i >= j
  OBVIOUS
<1>2. Max(same) = i
  <2> HIDE DEF same
  <2>1. QED
    BY <1>1 DEF Max
<1>3. k \in DOMAIN LastWrites(writes)
  BY DEF LastWrites
<1>4. LastWrites(writes)[k] = writes[Max(same)]
  BY <1>3 DEF LastWrites
<1>5. QED
  BY <1>2, <1>3, <1>4

LEMMA LastWriteExists ==
  ASSUME NEW Ops, NEW writes \in Seq(Ops), NEW k \in DOMAIN LastWrites(writes)
  PROVE  \E i \in DOMAIN writes :
           /\ writes[i].key = k
           /\ LastWrites(writes)[k] = writes[i]
           /\ \A j \in DOMAIN writes : writes[j].key = k => j <= i
<1> DEFINE same == {j \in DOMAIN writes : writes[j].key = k}
<1>1. /\ same \subseteq Nat /\ same # {}
      /\ Len(writes) \in Nat /\ \A j \in same : j <= Len(writes)
  BY DEF LastWrites
<1>2. PICK i \in same : \A j \in same : i >= j
  <2> HIDE DEF same
  <2>1. QED
    BY <1>1, GreatestNumber
<1>3. i \in DOMAIN writes /\ writes[i].key = k
  OBVIOUS
<1>4. \A j \in DOMAIN writes : writes[j].key = k => j <= i
  BY <1>1, <1>2
<1>5. LastWrites(writes)[k] = writes[i]
  BY <1>3, <1>4, LastWriteIs
<1>6. QED
  BY <1>3, <1>4, <1>5

(* The keys that are written are those of the writes.                      *)
LEMMA LastWriteKeys ==
  ASSUME NEW Ops, NEW writes \in Seq(Ops)
  PROVE  /\ \A i \in DOMAIN writes :
              writes[i].key \in DOMAIN LastWrites(writes)
         /\ \A k \in DOMAIN LastWrites(writes) :
              \E i \in DOMAIN writes : writes[i].key = k
BY DEF LastWrites

(* Writes after others count over them.                                    *)
LEMMA LastWritesConcat ==
  ASSUME NEW Ops, NEW first \in Seq(Ops), NEW then \in Seq(Ops)
  PROVE  LastWrites(first \o then) =
           Overridden(LastWrites(first), LastWrites(then))
<1> DEFINE both == first \o then
           n == Len(first)
           m == Len(then)
<1>1. /\ n \in Nat /\ m \in Nat
      /\ both \in Seq(Ops)
      /\ DOMAIN first = 1..n /\ DOMAIN then = 1..m
      /\ DOMAIN both = 1..n + m
      /\ \A i \in 1..n : both[i] = first[i]
      /\ \A i \in 1..m : both[n + i] = then[i]
  OBVIOUS
<1> HIDE DEF both, n, m
<1>2. \A i \in 1..n + m : i \in 1..n \/ (i - n \in 1..m /\ i = n + (i - n))
  BY <1>1
<1> DEFINE KeysOf(writes) ==
             /\ \A i \in DOMAIN writes :
                  writes[i].key \in DOMAIN LastWrites(writes)
             /\ \A k \in DOMAIN LastWrites(writes) :
                  \E i \in DOMAIN writes : writes[i].key = k
<1>0. KeysOf(both) /\ KeysOf(first) /\ KeysOf(then)
  <2>1. \A writes \in Seq(Ops) : KeysOf(writes)
    BY LastWriteKeys
  <2> HIDE DEF KeysOf
  <2>2. QED
    BY <1>1, <2>1
<1>3. DOMAIN LastWrites(both) =
        DOMAIN LastWrites(first) \cup DOMAIN LastWrites(then)
  <2>1. ASSUME NEW k \in DOMAIN LastWrites(both)
        PROVE  k \in DOMAIN LastWrites(first) \cup DOMAIN LastWrites(then)
    <3>1. PICK i \in 1..n + m : both[i].key = k
      BY <1>0, <1>1
    <3>2. CASE i \in 1..n
      <4>1. first[i].key = k
        BY <1>1, <3>1, <3>2
      <4>2. QED
        BY <1>1, <3>2, <4>1, <1>0
    <3>3. CASE i - n \in 1..m /\ i = n + (i - n)
      <4>1. then[i - n].key = k
        BY <1>1, <3>1, <3>3
      <4>2. QED
        BY <1>1, <3>3, <4>1, <1>0
    <3>4. QED
      BY <1>2, <3>2, <3>3
  <2>2. ASSUME NEW k \in DOMAIN LastWrites(first)
        PROVE  k \in DOMAIN LastWrites(both)
    <3>1. PICK i \in 1..n : first[i].key = k
      BY <1>0, <1>1
    <3>2. i \in DOMAIN both /\ both[i].key = k
      BY <1>1, <3>1
    <3>3. QED
      BY <1>0, <3>2
  <2>3. ASSUME NEW k \in DOMAIN LastWrites(then)
        PROVE  k \in DOMAIN LastWrites(both)
    <3>1. PICK i \in 1..m : then[i].key = k
      BY <1>0, <1>1
    <3>2. n + i \in DOMAIN both /\ both[n + i].key = k
      BY <1>1, <3>1
    <3>3. QED
      BY <1>0, <3>2
  <2>4. QED
    BY <2>1, <2>2, <2>3
<1>4. ASSUME NEW k \in DOMAIN LastWrites(then)
      PROVE  LastWrites(both)[k] = LastWrites(then)[k]
  <2>1. PICK i \in 1..m : /\ then[i].key = k
                          /\ LastWrites(then)[k] = then[i]
                          /\ \A j \in 1..m : then[j].key = k => j <= i
    BY <1>1, LastWriteExists
  <2>2. /\ n + i \in DOMAIN both /\ both[n + i] = then[i]
        /\ both[n + i].key = k
    BY <1>1, <2>1
  <2>3. ASSUME NEW j \in DOMAIN both, both[j].key = both[n + i].key
        PROVE  j <= n + i
    <3>1. CASE j \in 1..n
      BY <1>1, <3>1
    <3>2. CASE j - n \in 1..m /\ j = n + (j - n)
      <4>1. then[j - n].key = k
        BY <1>1, <2>2, <2>3, <3>2
      <4>2. j - n <= i
        BY <2>1, <3>2, <4>1
      <4>3. QED
        BY <1>1, <3>2, <4>2
    <3>3. QED
      BY <1>1, <1>2, <3>1, <3>2
  <2>4. LastWrites(both)[both[n + i].key] = both[n + i]
    <3> DEFINE l == n + i
    <3>1. /\ l \in DOMAIN both
          /\ \A j \in DOMAIN both : both[j].key = both[l].key => j <= l
      BY <2>2, <2>3
    <3> HIDE DEF l
    <3>2. LastWrites(both)[both[l].key] = both[l]
      BY <1>1, <3>1, LastWriteIs
    <3>3. QED
      BY <3>2 DEF l
  <2>5. QED
    BY <2>1, <2>2, <2>4
<1>5. ASSUME NEW k \in DOMAIN LastWrites(first),
             k \notin DOMAIN LastWrites(then)
      PROVE  LastWrites(both)[k] = LastWrites(first)[k]
  <2>1. PICK i \in 1..n : /\ first[i].key = k
                          /\ LastWrites(first)[k] = first[i]
                          /\ \A j \in 1..n : first[j].key = k => j <= i
    BY <1>1, LastWriteExists
  <2>2. i \in DOMAIN both /\ both[i] = first[i] /\ both[i].key = k
    BY <1>1, <2>1
  <2>3. ASSUME NEW j \in DOMAIN both, both[j].key = both[i].key
        PROVE  j <= i
    <3>1. CASE j \in 1..n
      BY <1>1, <2>1, <2>2, <2>3, <3>1
    <3>2. CASE j - n \in 1..m /\ j = n + (j - n)
      <4>1. then[j - n].key = k
        BY <1>1, <2>2, <2>3, <3>2
      <4>2. QED
        BY <1>1, <1>5, <3>2, <4>1, <1>0
    <3>3. QED
      BY <1>1, <1>2, <3>1, <3>2
  <2>4. LastWrites(both)[both[i].key] = both[i]
    BY <1>1, <2>2, <2>3, LastWriteIs
  <2>5. QED
    BY <2>1, <2>2, <2>4
<1>6. LastWrites(both) = [k \in DOMAIN LastWrites(both) |-> LastWrites(both)[k]]
  BY DEF LastWrites
<1>7. QED
  BY <1>3, <1>4, <1>5, <1>6 DEF Overridden, both

(* The same for one write more.                                            *)
LEMMA LastWritesAppend ==
  ASSUME NEW Ops, NEW writes \in Seq(Ops), NEW op \in Ops, NEW k, op.key = k
  PROVE  LastWrites(Append(writes, op)) = Atomic!Set(LastWrites(writes), k, op)
<1> DEFINE one == <<op>>
<1>1. /\ one \in Seq(Ops) /\ DOMAIN one = {1} /\ one[1] = op
      /\ Append(writes, op) = writes \o one
  BY AppendIsConcat
<1> HIDE DEF one
<1>2. /\ k \in DOMAIN LastWrites(one)
      /\ \A x \in DOMAIN LastWrites(one) : x = k
  <2>1. one[1].key = k
    BY <1>1
  <2>2. QED
    BY <1>1, <2>1, LastWriteKeys
<1>3. LastWrites(one)[k] = op
  BY <1>1, LastWriteIs
<1>4. LastWrites(writes \o one) =
        Overridden(LastWrites(writes), LastWrites(one))
  BY <1>1, LastWritesConcat
<1>5. DOMAIN LastWrites(one) = {k}
  BY <1>2
<1>6. QED
  BY <1>1, <1>3, <1>4, <1>5 DEF Overridden, Atomic!Set

-----------------------------------------------------------------------------
(* The writes of an array, as a flush slices them: the operations of its   *)
(* entries.                                                                *)
Kind(Ops) == \E T, K, V : Ops = [type : T, key : K, value : V]

LEMMA SlicedIs ==
  ASSUME NEW Ops, Kind(Ops), NEW array, Holds(array, Ops)
  PROVE  /\ Sliced(array) \in Seq(Ops)
         /\ DOMAIN Sliced(array) = DOMAIN array.items
         /\ Len(Sliced(array)) = Len(array.items)
         /\ \A i \in DOMAIN array.items :
              /\ Sliced(array)[i] = array.items[i].op
              /\ array.items[i].op \in Ops
<1>1. /\ array.items \in Seq(EntriesOf(Ops))
      /\ DOMAIN array.items = 1..Len(array.items)
      /\ Len(array.items) \in Nat
  BY DEF Holds
<1>2. \A op \in Ops : [op EXCEPT !.key = op.key] = op
  <2>1. PICK T, K, V : Ops = [type : T, key : K, value : V]
    BY DEF Kind
  <2>2. QED
    BY <2>1
<1>3. \A entry \in EntriesOf(Ops) : entry.op \in Ops
  BY DEF EntriesOf
<1>4. \A i \in 1..Len(array.items) : array.items[i] \in EntriesOf(Ops)
  BY <1>1
<1>5. \A i \in 1..Len(array.items) :
        /\ array.items[i].op \in Ops
        /\ [array.items[i].op EXCEPT !.key = array.items[i].op.key] =
             array.items[i].op
  BY <1>2, <1>3, <1>4
<1>6. Sliced(array) = [i \in 1..Len(array.items) |->
        [array.items[i].op EXCEPT !.key = array.items[i].op.key]]
  BY <1>1 DEF Sliced, KeySlice
<1>7. \A i \in 1..Len(array.items) :
        Sliced(array)[i] = array.items[i].op
  BY <1>5, <1>6
<1>8. Sliced(array) \in [1..Len(array.items) -> Ops]
  BY <1>5, <1>6, <1>7
<1>9. QED
  BY <1>1, <1>5, <1>7, <1>8

LEMMA GrownSliced ==
  ASSUME NEW Ops, Kind(Ops), NEW array, Holds(array, Ops), NEW min \in Nat,
         NEW grown \in Grown(array, min)
  PROVE  Sliced(grown) = Sliced(array)
<1>1. /\ Holds(grown, Ops)
      /\ DOMAIN grown.items = DOMAIN array.items
      /\ Len(grown.items) = Len(array.items)
      /\ \A i \in DOMAIN array.items :
           grown.items[i].op = array.items[i].op
  BY GrownHolds
<1>2. /\ Sliced(grown) \in Seq(Ops) /\ Sliced(array) \in Seq(Ops)
      /\ Len(Sliced(grown)) = Len(Sliced(array))
      /\ DOMAIN Sliced(array) = DOMAIN array.items
      /\ DOMAIN Sliced(grown) = DOMAIN array.items
      /\ \A i \in DOMAIN array.items : Sliced(grown)[i] = Sliced(array)[i]
  BY <1>1, SlicedIs
<1>3. QED
  BY <1>2, SeqEqual

LEMMA QueuedSliced ==
  ASSUME NEW Ops, Kind(Ops), NEW array, Holds(array, Ops), NEW op \in Ops,
         NEW queued \in Queued(array, op)
  PROVE  Sliced(queued) = Append(Sliced(array), op)
<1> DEFINE n == Len(array.items)
           more == Append(Sliced(array), op)
<1>1. /\ Holds(queued, Ops)
      /\ Len(queued.items) = n + 1
      /\ DOMAIN queued.items = DOMAIN array.items \cup {Len(queued.items)}
      /\ \A i \in DOMAIN array.items :
           queued.items[i].op = array.items[i].op
      /\ queued.items[Len(queued.items)].op = op
  BY QueuedHolds
<1>2. /\ n \in Nat /\ DOMAIN array.items = 1..n
      /\ Sliced(array) \in Seq(Ops) /\ Len(Sliced(array)) = n
      /\ \A i \in 1..n : Sliced(array)[i] = array.items[i].op
  <2>1. n \in Nat /\ DOMAIN array.items = 1..n
    BY DEF Holds
  <2>2. QED
    BY <2>1, SlicedIs
<1> HIDE DEF n
<1>3. /\ Sliced(queued) \in Seq(Ops) /\ Len(Sliced(queued)) = n + 1
      /\ \A i \in 1..n : Sliced(queued)[i] = array.items[i].op
      /\ Sliced(queued)[n + 1] = op
  <2>1. /\ Sliced(queued) \in Seq(Ops) /\ Len(Sliced(queued)) = n + 1
        /\ \A i \in DOMAIN queued.items :
             Sliced(queued)[i] = queued.items[i].op
    BY <1>1, SlicedIs
  <2>2. QED
    BY <1>1, <1>2, <2>1
<1>4. /\ more \in Seq(Ops) /\ Len(more) = n + 1
      /\ \A i \in 1..n : more[i] = Sliced(array)[i]
      /\ more[n + 1] = op
  BY <1>2
<1> HIDE DEF more
<1>5. \A i \in 1..n + 1 : i \in 1..n \/ i = n + 1
  BY <1>2
<1>6. \A i \in 1..n + 1 : Sliced(queued)[i] = more[i]
  BY <1>2, <1>3, <1>4, <1>5
<1>7. Sliced(queued) = more
  BY <1>3, <1>4, <1>6, SeqEqual
<1>8. QED
  BY <1>7 DEF more

-----------------------------------------------------------------------------
(* An array of puts writes what was put last.                              *)
LEMMA PutsAreKind == ASSUME NEW K PROVE Kind(PutsTo(K))
BY DEF Kind, PutsTo

LEMMA DeletesAreKind == ASSUME NEW K PROVE Kind(DeletesOf(K))
BY DEF Kind, DeletesOf

LEMMA PutsLast ==
  ASSUME NEW K, NEW array, Holds(array, PutsTo(K))
  PROVE  LET puts == LastPuts(array.items)
             last == LastWrites(Sliced(array))
         IN  /\ Sliced(array) \in Seq(PutsTo(K))
             /\ DOMAIN puts = DOMAIN last
             /\ DOMAIN puts \subseteq K
             /\ puts = [k \in DOMAIN puts |-> puts[k]]
             /\ \A k \in DOMAIN puts :
                  puts[k] \in Values /\ last[k] = PutOf(k, puts[k])
<1> DEFINE puts == LastPuts(array.items)
           writes == Sliced(array)
           last == LastWrites(Sliced(array))
<1>1. /\ writes \in Seq(PutsTo(K))
      /\ DOMAIN writes = DOMAIN array.items
      /\ \A i \in DOMAIN writes :
           writes[i] = array.items[i].op /\ writes[i] \in PutsTo(K)
  BY PutsAreKind, SlicedIs
<1>2. \A op \in PutsTo(K) : op.key \in K /\ op.value \in Values /\
                            op = PutOf(op.key, op.value)
  BY DEF PutsTo, PutOf
<1> HIDE DEF writes
<1>3. \A k \in DOMAIN LastWrites(writes) : \E i \in DOMAIN writes :
        /\ writes[i].key = k
        /\ LastWrites(writes)[k] = writes[i]
        /\ \A j \in DOMAIN writes : writes[j].key = k => j <= i
  BY <1>1, LastWriteExists
<1>4. DOMAIN puts = DOMAIN LastWrites(writes)
  BY <1>1 DEF LastPuts, LastWrites
<1>5. ASSUME NEW k \in DOMAIN puts
      PROVE  /\ k \in K /\ puts[k] \in Values
             /\ LastWrites(writes)[k] = PutOf(k, puts[k])
  <2>1. PICK i \in DOMAIN writes :
          /\ writes[i].key = k
          /\ LastWrites(writes)[k] = writes[i]
          /\ \A j \in DOMAIN writes : writes[j].key = k => j <= i
    BY <1>3, <1>4
  <2> DEFINE same == {j \in DOMAIN array.items :
                        array.items[j].op.key = k}
  <2>2. i \in same /\ same \subseteq Nat /\ \A j \in same : i >= j
    BY <1>1, <2>1
  <2>3. Max(same) = i
    <3> HIDE DEF same
    <3>1. QED
      BY <2>2 DEF Max
  <2>4. puts[k] = array.items[Max(same)].op.value
    BY DEF LastPuts
  <2>5. puts[k] = writes[i].value
    BY <1>1, <2>3, <2>4
  <2>6. QED
    BY <1>1, <1>2, <2>1, <2>5
<1>6. puts = [k \in DOMAIN puts |-> puts[k]]
  BY DEF LastPuts
<1>7. /\ DOMAIN puts = DOMAIN last
      /\ \A k \in DOMAIN puts :
           puts[k] \in Values /\ last[k] = PutOf(k, puts[k])
  BY <1>4, <1>5 DEF writes
<1>8. Sliced(array) \in Seq(PutsTo(K))
  BY <1>1 DEF writes
<1>9. DOMAIN puts \subseteq K
  BY <1>5
<1> HIDE DEF puts, last
<1>10. QED
  BY <1>6, <1>7, <1>8, <1>9 DEF puts, last

(* An array of deletes deletes the keys of its entries.                    *)
LEMMA DeletesLast ==
  ASSUME NEW K, NEW array, Holds(array, DeletesOf(K))
  PROVE  LET last == LastWrites(Sliced(array))
         IN  /\ Sliced(array) \in Seq(DeletesOf(K))
             /\ {entry.op.key : entry \in Range(array.items)} = DOMAIN last
             /\ DOMAIN last \subseteq K
             /\ \A k \in DOMAIN last : last[k] = DeleteOf(k)
<1> DEFINE writes == Sliced(array)
<1>1. /\ writes \in Seq(DeletesOf(K))
      /\ DOMAIN writes = DOMAIN array.items
      /\ \A i \in DOMAIN writes :
           writes[i] = array.items[i].op /\ writes[i] \in DeletesOf(K)
  BY DeletesAreKind, SlicedIs
<1>2. \A op \in DeletesOf(K) : op.key \in K /\ op = DeleteOf(op.key)
  BY DEF DeletesOf, DeleteOf
<1> HIDE DEF writes
<1>3. \A k \in DOMAIN LastWrites(writes) : \E i \in DOMAIN writes :
        /\ writes[i].key = k
        /\ LastWrites(writes)[k] = writes[i]
  BY <1>1, LastWriteExists
<1>4. \A k \in DOMAIN LastWrites(writes) :
        k \in K /\ LastWrites(writes)[k] = DeleteOf(k)
  BY <1>1, <1>2, <1>3
<1>5. {entry.op.key : entry \in Range(array.items)} =
        DOMAIN LastWrites(writes)
  BY <1>1 DEF Range, LastWrites
<1>6. QED
  BY <1>1, <1>4, <1>5 DEF writes

(* Queueing a put puts it over what was queued; growing changes nothing.   *)
LEMMA QueuedPut ==
  ASSUME NEW K, NEW array, Holds(array, PutsTo(K)),
         NEW k \in K, NEW v \in Values,
         NEW queued \in Queued(array, PutOf(k, v))
  PROVE  LastPuts(queued.items) = Atomic!Set(LastPuts(array.items), k, v)
<1> DEFINE op == PutOf(k, v)
           puts == LastPuts(array.items)
           more == LastPuts(queued.items)
           last == LastWrites(Sliced(array))
           then == LastWrites(Sliced(queued))
<1>1. /\ op \in PutsTo(K) /\ op.key = k
  BY DEF PutsTo, PutOf
<1>2. Holds(queued, PutsTo(K)) /\ Sliced(queued) = Append(Sliced(array), op)
  <2> HIDE DEF op
  <2>1. queued \in Queued(array, op)
    BY DEF op
  <2>2. QED
    BY <1>1, <2>1, PutsAreKind, QueuedHolds, QueuedSliced
<1>3. /\ Sliced(array) \in Seq(PutsTo(K))
      /\ DOMAIN puts = DOMAIN last
      /\ \A x \in DOMAIN puts : last[x] = PutOf(x, puts[x])
  BY PutsLast
<1>4. /\ DOMAIN more = DOMAIN then
      /\ more = [x \in DOMAIN more |-> more[x]]
      /\ \A x \in DOMAIN more : then[x] = PutOf(x, more[x])
  BY <1>2, PutsLast
<1> HIDE DEF op, puts, more, last, then
<1>5. /\ DOMAIN then = DOMAIN last \cup {k}
      /\ then[k] = op
      /\ \A x \in DOMAIN last : x # k => then[x] = last[x]
  <2> DEFINE Ops == PutsTo(K)
             writes == Sliced(array)
  <2>1. op \in Ops /\ writes \in Seq(Ops) /\ op.key = k
    BY <1>1, <1>3
  <2> HIDE DEF Ops, writes
  <2>2. LastWrites(Append(writes, op)) =
          Atomic!Set(LastWrites(writes), k, op)
    BY <2>1, LastWritesAppend
  <2>3. QED
    BY <1>2, <2>2 DEF last, then, writes, Atomic!Set
<1>6. DOMAIN more = DOMAIN puts \cup {k}
  BY <1>3, <1>4, <1>5
<1>7. ASSUME NEW x \in DOMAIN more
      PROVE  more[x] = IF x = k THEN v ELSE puts[x]
  <2>1. CASE x = k
    <3>1. then[x] = PutOf(k, v)
      BY <1>4, <1>5, <2>1 DEF op
    <3>2. then[x] = PutOf(x, more[x])
      BY <1>4
    <3>3. PutOf(k, v).value = v /\ PutOf(x, more[x]).value = more[x]
      BY DEF PutOf
    <3>4. QED
      BY <2>1, <3>1, <3>2, <3>3
  <2>2. CASE x # k
    <3>1. x \in DOMAIN puts /\ then[x] = last[x]
      BY <1>3, <1>4, <1>5, <1>6, <2>2
    <3>2. then[x] = PutOf(x, more[x]) /\ last[x] = PutOf(x, puts[x])
      BY <1>3, <1>4, <3>1
    <3>3. /\ PutOf(x, more[x]).value = more[x]
          /\ PutOf(x, puts[x]).value = puts[x]
      BY DEF PutOf
    <3>4. QED
      BY <2>2, <3>1, <3>2, <3>3
  <2>3. QED
    BY <2>1, <2>2
<1>8. more = [x \in DOMAIN puts \cup {k} |-> IF x = k THEN v ELSE puts[x]]
  BY <1>4, <1>6, <1>7
<1>9. QED
  BY <1>8 DEF Atomic!Set, more, puts

LEMMA GrownPuts ==
  ASSUME NEW K, NEW array, Holds(array, PutsTo(K)), NEW min \in Nat,
         NEW grown \in Grown(array, min)
  PROVE  LastPuts(grown.items) = LastPuts(array.items)
<1> DEFINE puts == LastPuts(array.items)
           same == LastPuts(grown.items)
<1>1. \A x, y : PutOf(x, y).value = y
  BY DEF PutOf
<1>2. Holds(grown, PutsTo(K)) /\ Sliced(grown) = Sliced(array)
  BY PutsAreKind, GrownHolds, GrownSliced
<1>3. /\ DOMAIN puts = DOMAIN LastWrites(Sliced(array))
      /\ puts = [x \in DOMAIN puts |-> puts[x]]
      /\ \A x \in DOMAIN puts :
           LastWrites(Sliced(array))[x] = PutOf(x, puts[x])
  BY PutsLast
<1>4. /\ DOMAIN same = DOMAIN LastWrites(Sliced(grown))
      /\ same = [x \in DOMAIN same |-> same[x]]
      /\ \A x \in DOMAIN same :
           LastWrites(Sliced(grown))[x] = PutOf(x, same[x])
  BY <1>2, PutsLast
<1> HIDE DEF puts, same
<1>5. DOMAIN same = DOMAIN puts
  BY <1>2, <1>3, <1>4
<1>6. \A x \in DOMAIN puts : PutOf(x, puts[x]) = PutOf(x, same[x])
  BY <1>2, <1>3, <1>4, <1>5
<1>7. \A x \in DOMAIN puts : puts[x] = same[x]
  BY <1>1, <1>6
<1>8. same = puts
  BY <1>3, <1>4, <1>5, <1>7
<1>9. QED
  BY <1>8 DEF puts, same

(* Queueing a delete adds its key to those that are deleted.               *)
LEMMA QueuedDelete ==
  ASSUME NEW K, NEW array, Holds(array, DeletesOf(K)), NEW k \in K,
         NEW queued \in Queued(array, DeleteOf(k))
  PROVE  {entry.op.key : entry \in Range(queued.items)} =
           {entry.op.key : entry \in Range(array.items)} \cup {k}
<1> DEFINE op == DeleteOf(k)
<1>1. op \in DeletesOf(K) /\ op.key = k
  BY DEF DeletesOf, DeleteOf
<1>2. Holds(queued, DeletesOf(K)) /\
      Sliced(queued) = Append(Sliced(array), op)
  <2> HIDE DEF op
  <2>1. queued \in Queued(array, op)
    BY DEF op
  <2>2. QED
    BY <1>1, <2>1, DeletesAreKind, QueuedHolds, QueuedSliced
<1>3. /\ Sliced(array) \in Seq(DeletesOf(K))
      /\ {entry.op.key : entry \in Range(array.items)} =
           DOMAIN LastWrites(Sliced(array))
  BY DeletesLast
<1>4. {entry.op.key : entry \in Range(queued.items)} =
        DOMAIN LastWrites(Sliced(queued))
  BY <1>2, DeletesLast
<1> HIDE DEF op
<1>5. DOMAIN LastWrites(Append(Sliced(array), op)) =
        DOMAIN LastWrites(Sliced(array)) \cup {k}
  <2> DEFINE Ops == DeletesOf(K)
             writes == Sliced(array)
  <2>1. op \in Ops /\ writes \in Seq(Ops) /\ op.key = k
    BY <1>1, <1>3
  <2> HIDE DEF Ops, writes
  <2>2. LastWrites(Append(writes, op)) =
          Atomic!Set(LastWrites(writes), k, op)
    BY <2>1, LastWritesAppend
  <2>3. DOMAIN LastWrites(Append(writes, op)) =
          DOMAIN LastWrites(writes) \cup {k}
    BY <2>2 DEF Atomic!Set
  <2>4. QED
    BY <2>3 DEF writes
<1>6. QED
  BY <1>2, <1>3, <1>4, <1>5

-----------------------------------------------------------------------------
(* The puts of the arrays together: a core has no cores to put, the store  *)
(* has nothing else.                                                       *)
LEMMA NothingLast ==
  /\ LastWrites(<<>>) = [k \in {} |-> None]
  /\ LastPuts(EmptyArray.items) = [k \in {} |-> None]
  /\ Sliced(EmptyArray) = <<>>
BY DEF LastWrites, LastPuts, EmptyArray, Sliced

LEMMA QueuedPutsAre ==
  ASSUME ArraysHold
  PROVE  LET tree == LastPuts(tree_nodes.items)
             block == LastPuts(blocks.items)
             core == LastPuts(cores.items)
         IN  /\ side = "core" => QueuedPuts = Overridden(tree, block)
             /\ side = "store" => QueuedPuts = core
<1> DEFINE tree == LastPuts(tree_nodes.items)
           block == LastPuts(blocks.items)
           core == LastPuts(cores.items)
<1>1. /\ tree = [k \in DOMAIN tree |-> tree[k]]
      /\ block = [k \in DOMAIN block |-> block[k]]
      /\ core = [k \in DOMAIN core |-> core[k]]
  BY DEF LastPuts
<1>2. CASE side = "core"
  <2>1. core = [k \in {} |-> None]
    BY <1>2, NothingLast DEF ArraysHold
  <2> HIDE DEF tree, block, core
  <2>2. Overridden(Overridden(tree, block), core) = Overridden(tree, block)
    BY <2>1 DEF Overridden
  <2>3. QED
    BY <1>2, <2>2 DEF QueuedPuts, tree, block, core
<1>3. CASE side = "store"
  <2>1. tree = [k \in {} |-> None] /\ block = [k \in {} |-> None]
    BY <1>3, NothingLast DEF ArraysHold
  <2> HIDE DEF tree, block, core
  <2>2. Overridden(Overridden(tree, block), core) = core
    BY <1>1, <2>1 DEF Overridden
  <2>3. QED
    BY <1>3, <2>2 DEF QueuedPuts, tree, block, core
<1>4. QED
  BY <1>2, <1>3

LEMMA QueuedKeys ==
  ASSUME ArraysHold
  PROVE  /\ DOMAIN QueuedPuts \subseteq RecordKeys
         /\ DeletedKeys \subseteq NodeKeys \cup BlockKeys
         /\ QueuedPuts = [k \in DOMAIN QueuedPuts |-> QueuedPuts[k]]
         /\ \A k \in DOMAIN QueuedPuts : QueuedPuts[k] \in Values
<1> DEFINE tree == LastPuts(tree_nodes.items)
           block == LastPuts(blocks.items)
           core == LastPuts(cores.items)
<1>1. /\ DOMAIN tree \subseteq NodeKeys
      /\ \A k \in DOMAIN tree : tree[k] \in Values
  BY PutsLast DEF ArraysHold
<1>2. /\ DOMAIN block \subseteq BlockKeys
      /\ \A k \in DOMAIN block : block[k] \in Values
  BY PutsLast DEF ArraysHold
<1>3. /\ DOMAIN core \subseteq CoreKeys
      /\ \A k \in DOMAIN core : core[k] \in Values
  BY PutsLast DEF ArraysHold
<1>4. DeletedKeys \subseteq NodeKeys \cup BlockKeys
  BY DeletesLast DEF ArraysHold, DeletedKeys
<1>5. QueuedPuts = Overridden(Overridden(tree, block), core)
  BY DEF QueuedPuts
<1> HIDE DEF tree, block, core
<1>6. /\ DOMAIN QueuedPuts = DOMAIN tree \cup DOMAIN block \cup DOMAIN core
      /\ \A k \in DOMAIN QueuedPuts :
           \/ k \in DOMAIN core /\ QueuedPuts[k] = core[k]
           \/ k \in DOMAIN block /\ QueuedPuts[k] = block[k]
           \/ k \in DOMAIN tree /\ QueuedPuts[k] = tree[k]
      /\ QueuedPuts = [k \in DOMAIN QueuedPuts |-> QueuedPuts[k]]
  BY <1>5 DEF Overridden
<1>7. DOMAIN QueuedPuts \subseteq RecordKeys
  BY <1>1, <1>2, <1>3, <1>6 DEF RecordKeys
<1>8. \A k \in DOMAIN QueuedPuts : QueuedPuts[k] \in Values
  BY <1>1, <1>2, <1>3, <1>6
<1>9. QED
  BY <1>4, <1>6, <1>7, <1>8

-----------------------------------------------------------------------------
(* The head is one write more, of its own key.                             *)
HeadKeys == IF head = None THEN {} ELSE {HeadKey}

LEMMA HeadLast ==
  ASSUME head \in Values \cup {None}
  PROVE  /\ HeadWrites \in Seq(CallOps)
         /\ DOMAIN LastWrites(HeadWrites) = HeadKeys
         /\ head # None =>
              LastWrites(HeadWrites)[HeadKey] = PutOf(HeadKey, head)
<1>1. CASE head = None
  BY <1>1, NothingLast DEF HeadWrites, HeadKeys
<1>2. CASE head # None
  <2> DEFINE op == PutOf(HeadKey, head)
             one == <<op>>
  <2>1. op \in CallOps /\ op.key = HeadKey
    BY <1>2 DEF CallOps, PutsTo, PutOf
  <2> HIDE DEF op
  <2>2. one \in Seq(CallOps) /\ DOMAIN one = {1} /\ one[1] = op
    BY <2>1
  <2>3. one[1].key = HeadKey
    BY <2>1, <2>2
  <2> HIDE DEF one
  <2>4. /\ HeadKey \in DOMAIN LastWrites(one)
        /\ \A k \in DOMAIN LastWrites(one) : k = HeadKey
    BY <2>2, <2>3, LastWriteKeys
  <2>5. LastWrites(one)[one[1].key] = one[1]
    BY <2>2, LastWriteIs
  <2>6. HeadWrites = one
    BY <1>2 DEF HeadWrites, one, op
  <2>7. QED
    BY <1>2, <2>2, <2>3, <2>4, <2>5, <2>6 DEF HeadKeys, op
<1>3. QED
  BY <1>1, <1>2

(* What a flush writes for each key: a delete for those that were deleted, *)
(* what was put last for the others, and the head.                         *)
LEMMA WritesLast ==
  ASSUME ArraysHold, head \in Values \cup {None}
  PROVE  LET last == LastWrites(Writes)
         IN  /\ last = [k \in DOMAIN last |-> last[k]]
             /\ DOMAIN last = DOMAIN QueuedPuts \cup DeletedKeys
                                \cup HeadKeys
             /\ \A k \in DeletedKeys : last[k] = DeleteOf(k)
             /\ \A k \in DOMAIN QueuedPuts \ DeletedKeys :
                  last[k] = PutOf(k, QueuedPuts[k])
             /\ head # None => last[HeadKey] = PutOf(HeadKey, head)
<1> DEFINE last == LastWrites(Writes)
           tree == LastPuts(tree_nodes.items)
           block == LastPuts(blocks.items)
           core == LastPuts(cores.items)
           lt == LastWrites(Sliced(tree_nodes))
           lb == LastWrites(Sliced(blocks))
           lc == LastWrites(Sliced(cores))
           ld == LastWrites(Sliced(deletes))
           lh == LastWrites(HeadWrites)
           st == Sliced(tree_nodes)
           sb == Sliced(blocks)
           sc == Sliced(cores)
           sd == Sliced(deletes)
<1>1. /\ st \in Seq(CallOps) /\ sb \in Seq(CallOps)
      /\ sc \in Seq(CallOps) /\ sd \in Seq(CallOps)
      /\ HeadWrites \in Seq(CallOps)
  <2>1. /\ PutsTo(NodeKeys) \subseteq CallOps
        /\ PutsTo(BlockKeys) \subseteq CallOps
        /\ PutsTo(CoreKeys) \subseteq CallOps
        /\ DeletesOf(NodeKeys \cup BlockKeys) \subseteq CallOps
    BY DEF CallOps, PutsTo, RecordKeys
  <2>2. /\ st \in Seq(PutsTo(NodeKeys)) /\ sb \in Seq(PutsTo(BlockKeys))
        /\ sc \in Seq(PutsTo(CoreKeys))
        /\ sd \in Seq(DeletesOf(NodeKeys \cup BlockKeys))
    BY PutsLast, DeletesLast DEF ArraysHold
  <2>3. \A S, T : S \subseteq T => Seq(S) \subseteq Seq(T)
    OBVIOUS
  <2> HIDE DEF st, sb, sc, sd
  <2>4. QED
    BY <2>1, <2>2, <2>3, HeadLast
<1>2. /\ DOMAIN tree = DOMAIN lt /\ DOMAIN tree \subseteq NodeKeys
      /\ \A k \in DOMAIN tree : lt[k] = PutOf(k, tree[k])
  BY PutsLast DEF ArraysHold
<1>3. /\ DOMAIN block = DOMAIN lb /\ DOMAIN block \subseteq BlockKeys
      /\ \A k \in DOMAIN block : lb[k] = PutOf(k, block[k])
  BY PutsLast DEF ArraysHold
<1>4. /\ DOMAIN core = DOMAIN lc /\ DOMAIN core \subseteq CoreKeys
      /\ \A k \in DOMAIN core : lc[k] = PutOf(k, core[k])
  BY PutsLast DEF ArraysHold
<1>5. /\ DeletedKeys = DOMAIN ld
      /\ DeletedKeys \subseteq NodeKeys \cup BlockKeys
      /\ \A k \in DeletedKeys : ld[k] = DeleteOf(k)
  BY DeletesLast DEF ArraysHold, DeletedKeys
<1>6. /\ DOMAIN lh = HeadKeys
      /\ head # None => lh[HeadKey] = PutOf(HeadKey, head)
  BY HeadLast
<1>7. HeadKey \notin RecordKeys /\ NodeKeys \cap BlockKeys = {}
  BY KeysAssumption
<1>8. last = [k \in DOMAIN last |-> last[k]]
  BY DEF LastWrites
<1>9. CASE side = "core"
  <2>1. QueuedPuts = Overridden(tree, block)
    BY <1>9, QueuedPutsAre
  <2>2. Writes = ((st \o sb) \o sd) \o HeadWrites
    BY <1>9 DEF Writes
  <2> HIDE DEF st, sb, sd
  <2>3. st \o sb \in Seq(CallOps) /\ (st \o sb) \o sd \in Seq(CallOps)
    BY <1>1
  <2>4. /\ LastWrites(st \o sb) = Overridden(LastWrites(st), LastWrites(sb))
        /\ LastWrites((st \o sb) \o sd) =
             Overridden(LastWrites(st \o sb), LastWrites(sd))
        /\ LastWrites(Writes) =
             Overridden(LastWrites((st \o sb) \o sd), LastWrites(HeadWrites))
    BY <1>1, <2>2, <2>3, LastWritesConcat
  <2>5. last = Overridden(Overridden(Overridden(lt, lb), ld), lh)
    BY <2>4 DEF st, sb, sd
  <2> HIDE DEF last, tree, block, lt, lb, ld, lh
  <2>6. DOMAIN last = DOMAIN QueuedPuts \cup DeletedKeys \cup HeadKeys
    BY <1>2, <1>3, <1>5, <1>6, <2>1, <2>5 DEF Overridden
  <2>7. head # None => last[HeadKey] = PutOf(HeadKey, head)
    BY <1>6, <2>5 DEF Overridden, HeadKeys
  <2>8. ASSUME NEW k \in DeletedKeys
        PROVE  last[k] = DeleteOf(k)
    <3>1. k \in DOMAIN ld /\ k \notin DOMAIN lh
      BY <1>5, <1>6, <1>7 DEF RecordKeys, HeadKeys
    <3>2. QED
      BY <1>5, <2>5, <3>1 DEF Overridden
  <2>9. ASSUME NEW k \in DOMAIN QueuedPuts, k \notin DeletedKeys
        PROVE  last[k] = PutOf(k, QueuedPuts[k])
    <3>1. /\ k \notin DOMAIN ld /\ k \notin DOMAIN lh
          /\ k \in DOMAIN tree \cup DOMAIN block
      BY <1>2, <1>3, <1>5, <1>6, <1>7, <2>1, <2>9
         DEF RecordKeys, HeadKeys, Overridden
    <3>2. last[k] = Overridden(lt, lb)[k]
      BY <1>2, <1>3, <2>5, <3>1 DEF Overridden
    <3>3. CASE k \in DOMAIN block
      BY <1>3, <2>1, <3>2, <3>3 DEF Overridden
    <3>4. CASE k \notin DOMAIN block
      BY <1>2, <1>3, <2>1, <3>1, <3>2, <3>4 DEF Overridden
    <3>5. QED
      BY <3>3, <3>4
  <2>10. QED
    BY <1>8, <2>6, <2>7, <2>8, <2>9 DEF last
<1>10. CASE side = "store"
  <2>1. QueuedPuts = core
    BY <1>10, QueuedPutsAre
  <2>2. Writes = HeadWrites \o sc
    BY <1>10 DEF Writes
  <2>3. DeletedKeys = {}
    BY <1>5, <1>10, NothingLast DEF ArraysHold
  <2> HIDE DEF sc
  <2>4. LastWrites(Writes) =
          Overridden(LastWrites(HeadWrites), LastWrites(sc))
    BY <1>1, <2>2, LastWritesConcat
  <2>5. last = Overridden(lh, lc)
    BY <2>4 DEF sc
  <2> HIDE DEF last, core, lc, lh
  <2>6. DOMAIN last = DOMAIN QueuedPuts \cup DeletedKeys \cup HeadKeys
    BY <1>4, <1>6, <2>1, <2>3, <2>5 DEF Overridden
  <2>7. HeadKey \notin DOMAIN lc
    BY <1>4, <1>7 DEF RecordKeys
  <2>8. head # None => last[HeadKey] = PutOf(HeadKey, head)
    BY <1>6, <2>5, <2>7 DEF Overridden, HeadKeys
  <2>9. \A k \in DOMAIN QueuedPuts : last[k] = PutOf(k, QueuedPuts[k])
    BY <1>4, <2>1, <2>5 DEF Overridden
  <2>10. QED
    BY <1>8, <2>3, <2>6, <2>8, <2>9 DEF last
<1>11. QED
  BY <1>9, <1>10 DEF ArraysHold

-----------------------------------------------------------------------------
(* What a batch makes of a map, key by key.                                *)
LEMMA AppliedIs ==
  ASSUME NEW map, NEW writes
  PROVE  LET last    == LastWrites(writes)
             applied == AppliedAll(map, writes)
         IN  /\ applied = [k \in DOMAIN applied |-> applied[k]]
             /\ \A k : k \in DOMAIN applied <=>
                       \/ k \in DOMAIN last /\ last[k].type # "delete"
                       \/ k \notin DOMAIN last /\ k \in DOMAIN map
             /\ \A k \in DOMAIN applied :
                  applied[k] = IF k \in DOMAIN last THEN last[k].value ELSE map[k]
<1> DEFINE last == LastWrites(writes)
<1> HIDE DEF last
<1>1. AppliedAll(map, writes) =
        [k \in (DOMAIN map \cup DOMAIN last)
                 \ {k \in DOMAIN last : last[k].type = "delete"} |->
           IF k \in DOMAIN last THEN last[k].value ELSE map[k]]
  BY DEF AppliedAll, last
<1>2. QED
  BY <1>1 DEF last

(* The writes of a batch have the effect of its calls, but for the records *)
(* that were put after they were deleted (OrderKept).                      *)
LEMMA WritesAreCalls ==
  ASSUME WriteInv
  PROVE  OrderKept
<1> DEFINE last == LastWrites(Writes)
           asked == LastWrites(calls)
           applied == AppliedAll(column, Writes)
           wanted == AppliedAll(column, calls)
           late == PutTooLate
<1>1. ArraysHold /\ head \in Values \cup {None} /\ calls \in Seq(CallOps)
  BY DEF WriteInv
<1>2. /\ last = [k \in DOMAIN last |-> last[k]]
      /\ DOMAIN last = DOMAIN QueuedPuts \cup DeletedKeys \cup HeadKeys
      /\ \A k \in DeletedKeys : last[k] = DeleteOf(k)
      /\ \A k \in DOMAIN QueuedPuts \ DeletedKeys :
           last[k] = PutOf(k, QueuedPuts[k])
      /\ head # None => last[HeadKey] = PutOf(HeadKey, head)
  BY <1>1, WritesLast
<1>3. /\ DOMAIN QueuedPuts \subseteq RecordKeys
      /\ DeletedKeys \subseteq RecordKeys
      /\ HeadKey \notin RecordKeys
  BY <1>1, QueuedKeys, KeysAssumption DEF RecordKeys
<1>4. \A k \in DOMAIN asked : \E i \in DOMAIN calls :
        /\ calls[i].key = k
        /\ asked[k] = calls[i]
        /\ \A j \in DOMAIN calls : calls[j].key = k => j <= i
  BY <1>1, LastWriteExists
<1>5. \A i \in DOMAIN calls : calls[i].key \in DOMAIN asked
  BY <1>1, LastWriteKeys
<1>6. /\ \A i \in DOMAIN calls : calls[i] \in CallOps
      /\ DOMAIN calls \subseteq Nat
  BY <1>1
<1>7. \A op \in CallOps :
        \/ op.type = "put" /\ op = PutOf(op.key, op.value)
        \/ op.type = "delete" /\ op = DeleteOf(op.key)
  BY DEF CallOps, PutsTo, DeletesOf, PutOf, DeleteOf
<1>8. /\ \A k \in DOMAIN asked \ {HeadKey} :
           \/ /\ asked[k].type = "put"
              /\ k \in DOMAIN QueuedPuts
              /\ QueuedPuts[k] = asked[k].value
           \/ asked[k].type = "delete" /\ k \in DeletedKeys
      /\ DOMAIN QueuedPuts \subseteq DOMAIN asked
      /\ \A k \in DeletedKeys : \E i \in DOMAIN calls :
           calls[i].type = "delete" /\ calls[i].key = k
      /\ \A i \in DOMAIN calls :
           calls[i].type = "delete" => calls[i].key \in DeletedKeys
      /\ head = None <=> HeadKey \notin DOMAIN asked
      /\ head # None => asked[HeadKey] = PutOf(HeadKey, head)
  BY DEF WriteInv, CallsQueued
<1>9. /\ \A k \in late : \E i, j \in DOMAIN calls :
           /\ i < j
           /\ calls[i].type = "delete" /\ calls[i].key = k
           /\ calls[j].type = "put" /\ calls[j].key = k
      /\ \A i, j \in DOMAIN calls :
           /\ i < j /\ calls[i].type = "delete" /\ calls[j].type = "put"
           /\ calls[i].key = calls[j].key /\ calls[i].key \in RecordKeys
           => calls[i].key \in late
  BY DEF PutTooLate
<1> HIDE DEF last, asked, late
<1>10. DOMAIN last = DOMAIN asked
  <2>1. DeletedKeys \subseteq DOMAIN asked
    BY <1>5, <1>8
  <2>2. DOMAIN asked \ {HeadKey} \subseteq
          DOMAIN QueuedPuts \cup DeletedKeys
    BY <1>8
  <2>3. QED
    BY <1>2, <1>8, <2>1, <2>2 DEF HeadKeys
<1>11. ASSUME NEW k \in late
       PROVE  k \in DOMAIN last /\ last[k].type = "delete"
  <2>1. k \in DeletedKeys
    BY <1>8, <1>9
  <2>2. last[k] = DeleteOf(k) /\ k \in DOMAIN last
    BY <1>2, <2>1
  <2>3. QED
    BY <2>2 DEF DeleteOf
<1>12. ASSUME NEW k \in DOMAIN asked, k \notin late
       PROVE  last[k] = asked[k]
  <2>1. PICK i \in DOMAIN calls :
          /\ calls[i].key = k
          /\ asked[k] = calls[i]
          /\ \A j \in DOMAIN calls : calls[j].key = k => j <= i
    BY <1>4
  <2>2. \/ asked[k].type = "put" /\ asked[k] = PutOf(k, asked[k].value)
        \/ asked[k].type = "delete" /\ asked[k] = DeleteOf(k)
    <3>1. calls[i] \in CallOps
      BY <1>6
    <3>2. QED
      BY <1>7, <2>1, <3>1
  <2>3. CASE k = HeadKey
    BY <1>2, <1>8, <2>3
  <2>4. CASE k \in DeletedKeys
    <3>1. PICK j \in DOMAIN calls :
            calls[j].type = "delete" /\ calls[j].key = k
      BY <1>8, <2>4
    <3>2. j <= i /\ j \in Nat /\ i \in Nat /\ k \in RecordKeys
      BY <1>3, <1>6, <2>1, <2>4, <3>1
    <3>3. calls[i].type # "put"
      <4>1. CASE i = j
        BY <3>1, <4>1
      <4>2. CASE j < i
        BY <1>9, <1>12, <2>1, <3>1, <3>2, <4>2
      <4>3. QED
        BY <3>2, <4>1, <4>2
    <3>4. asked[k] = DeleteOf(k)
      BY <2>1, <2>2, <3>3
    <3>5. QED
      BY <1>2, <2>4, <3>4
  <2>5. CASE k # HeadKey /\ k \notin DeletedKeys
    BY <1>2, <1>8, <2>2, <2>5
  <2>6. QED
    BY <2>3, <2>4, <2>5
<1>13. /\ applied = [k \in DOMAIN applied |-> applied[k]]
       /\ \A k : k \in DOMAIN applied <=>
                 \/ k \in DOMAIN last /\ last[k].type # "delete"
                 \/ k \notin DOMAIN last /\ k \in DOMAIN column
       /\ \A k \in DOMAIN applied : applied[k] =
            IF k \in DOMAIN last THEN last[k].value ELSE column[k]
  BY AppliedIs DEF last
<1>14. /\ \A k : k \in DOMAIN wanted <=>
                 \/ k \in DOMAIN asked /\ asked[k].type # "delete"
                 \/ k \notin DOMAIN asked /\ k \in DOMAIN column
       /\ \A k \in DOMAIN wanted : wanted[k] =
            IF k \in DOMAIN asked THEN asked[k].value ELSE column[k]
  BY AppliedIs DEF asked
<1> HIDE DEF applied, wanted
<1>15. DOMAIN applied = DOMAIN wanted \ late
  BY <1>10, <1>11, <1>12, <1>13, <1>14
<1>16. \A k \in DOMAIN applied : applied[k] = wanted[k]
  BY <1>10, <1>12, <1>13, <1>14, <1>15
<1>17. applied = [k \in DOMAIN wanted \ late |-> wanted[k]]
  BY <1>13, <1>15, <1>16
<1>18. QED
  BY <1>17 DEF OrderKept, applied, wanted, late, Restrict

(* What a flush makes of the column is what the abstract batch commits.    *)
LEMMA FlushCommits ==
  ASSUME WriteInv
  PROVE  LET put  == [k \in DOMAIN column \cup DOMAIN QueuedPuts |->
                        IF k \in DOMAIN QueuedPuts THEN QueuedPuts[k]
                        ELSE column[k]]
             kept == Atomic!Restrict(put, DOMAIN put \ DeletedKeys)
         IN  AppliedAll(column, Writes) =
               IF head = None THEN kept
               ELSE Atomic!Set(kept, HeadKey, head)
<1> DEFINE put  == [k \in DOMAIN column \cup DOMAIN QueuedPuts |->
                      IF k \in DOMAIN QueuedPuts THEN QueuedPuts[k]
                      ELSE column[k]]
           kept == Atomic!Restrict(put, DOMAIN put \ DeletedKeys)
           last == LastWrites(Writes)
           gone == {k \in DOMAIN last : last[k].type = "delete"}
           applied == AppliedAll(column, Writes)
<1>1. ArraysHold /\ head \in Values \cup {None}
  BY DEF WriteInv
<1>2. /\ DOMAIN last = DOMAIN QueuedPuts \cup DeletedKeys \cup HeadKeys
      /\ \A k \in DeletedKeys : last[k] = DeleteOf(k)
      /\ \A k \in DOMAIN QueuedPuts \ DeletedKeys :
           last[k] = PutOf(k, QueuedPuts[k])
      /\ head # None => last[HeadKey] = PutOf(HeadKey, head)
  BY <1>1, WritesLast
<1>3. /\ DOMAIN QueuedPuts \subseteq RecordKeys
      /\ DeletedKeys \subseteq RecordKeys
      /\ HeadKey \notin RecordKeys
  BY <1>1, QueuedKeys, KeysAssumption DEF RecordKeys
<1>4. applied = [k \in (DOMAIN column \cup DOMAIN last) \ gone |->
                   IF k \in DOMAIN last THEN last[k].value ELSE column[k]]
  BY DEF AppliedAll
<1>5. kept = [k \in (DOMAIN column \cup DOMAIN QueuedPuts) \ DeletedKeys |->
                IF k \in DOMAIN QueuedPuts THEN QueuedPuts[k]
                ELSE column[k]]
  BY DEF Atomic!Restrict
<1>6. \A k, v : PutOf(k, v).type # "delete" /\ PutOf(k, v).value = v
  BY DEF PutOf
<1>7. \A k : DeleteOf(k).type = "delete"
  BY DEF DeleteOf
<1> HIDE DEF last, applied, put, kept
<1>8. /\ \A k \in DOMAIN QueuedPuts \ DeletedKeys :
           last[k].type # "delete" /\ last[k].value = QueuedPuts[k]
      /\ head # None =>
           last[HeadKey].type # "delete" /\ last[HeadKey].value = head
      /\ \A k \in DeletedKeys : last[k].type = "delete"
  BY <1>2, <1>6, <1>7
<1>9. gone = DeletedKeys
  BY <1>2, <1>8 DEF HeadKeys
<1> HIDE DEF gone
<1>10. CASE head = None
  <2>1. DOMAIN last = DOMAIN QueuedPuts \cup DeletedKeys
    BY <1>2, <1>10 DEF HeadKeys
  <2>2. applied = kept
    BY <1>4, <1>5, <1>8, <1>9, <2>1
  <2>3. QED
    BY <1>10, <2>2 DEF put, kept, applied
<1>11. CASE head # None
  <2>1. DOMAIN last = DOMAIN QueuedPuts \cup DeletedKeys \cup {HeadKey}
    BY <1>2, <1>11 DEF HeadKeys
  <2>2. DOMAIN applied = DOMAIN kept \cup {HeadKey}
    BY <1>3, <1>4, <1>5, <1>9, <2>1
  <2>3. applied[HeadKey] = head
    BY <1>3, <1>4, <1>8, <1>9, <1>11, <2>1
  <2>4. ASSUME NEW k \in DOMAIN kept, k # HeadKey
        PROVE  applied[k] = kept[k]
    BY <1>4, <1>5, <1>8, <1>9, <2>1, <2>4
  <2>5. applied = [k \in DOMAIN applied |-> applied[k]]
    BY <1>4
  <2>6. applied = Atomic!Set(kept, HeadKey, head)
    BY <2>2, <2>3, <2>4, <2>5 DEF Atomic!Set
  <2>7. QED
    BY <1>11, <2>6 DEF put, kept, applied
<1>12. QED
  BY <1>10, <1>11

-----------------------------------------------------------------------------
(* One call more: what was asked for and what is queued stay in step.      *)
LEMMA CallAdds ==
  ASSUME NEW c \in Seq(CallOps), NEW op \in CallOps, NEW k, op.key = k
  PROVE  /\ Append(c, op) \in Seq(CallOps)
         /\ LastWrites(Append(c, op)) = Atomic!Set(LastWrites(c), k, op)
         /\ \A i \in DOMAIN c :
              i \in DOMAIN Append(c, op) /\ Append(c, op)[i] = c[i]
         /\ Len(c) + 1 \in DOMAIN Append(c, op)
         /\ Append(c, op)[Len(c) + 1] = op
         /\ \A i \in DOMAIN Append(c, op) : i \in DOMAIN c \/ i = Len(c) + 1
<1>1. LastWrites(Append(c, op)) = Atomic!Set(LastWrites(c), k, op)
  <2> DEFINE Ops == CallOps
  <2>1. c \in Seq(Ops) /\ op \in Ops
    OBVIOUS
  <2> HIDE DEF Ops
  <2>2. QED
    BY <2>1, LastWritesAppend
<1>2. /\ Append(c, op) \in Seq(CallOps)
      /\ \A i \in DOMAIN c :
           i \in DOMAIN Append(c, op) /\ Append(c, op)[i] = c[i]
      /\ Len(c) + 1 \in DOMAIN Append(c, op)
      /\ Append(c, op)[Len(c) + 1] = op
      /\ \A i \in DOMAIN Append(c, op) : i \in DOMAIN c \/ i = Len(c) + 1
  OBVIOUS
<1>3. QED
  BY <1>1, <1>2

LEMMA PutAdds ==
  ASSUME WriteInv, NEW k \in RecordKeys, NEW v \in Values,
         calls' = Append(calls, PutOf(k, v)),
         QueuedPuts' = Atomic!Set(QueuedPuts, k, v),
         DeletedKeys' = DeletedKeys, head' = head
  PROVE  calls' \in Seq(CallOps) /\ CallsQueued'
<1> DEFINE op == PutOf(k, v)
           last == LastWrites(calls)
<1>1. op \in CallOps /\ op.key = k /\ op.type = "put" /\ op.value = v
  BY DEF CallOps, PutsTo, PutOf
<1>2. calls \in Seq(CallOps) /\ calls' = Append(calls, op) /\ k # HeadKey
  BY KeysAssumption DEF WriteInv
<1> HIDE DEF op
<1>3. /\ calls' \in Seq(CallOps)
      /\ LastWrites(calls') = Atomic!Set(last, k, op)
      /\ \A i \in DOMAIN calls : i \in DOMAIN calls' /\ calls'[i] = calls[i]
      /\ calls'[Len(calls) + 1] = op
      /\ \A i \in DOMAIN calls' : i \in DOMAIN calls \/ i = Len(calls) + 1
  BY <1>1, <1>2, CallAdds
<1>4. /\ \A x \in DOMAIN last \ {HeadKey} :
           \/ /\ last[x].type = "put"
              /\ x \in DOMAIN QueuedPuts
              /\ QueuedPuts[x] = last[x].value
           \/ last[x].type = "delete" /\ x \in DeletedKeys
      /\ DOMAIN QueuedPuts \subseteq DOMAIN last
      /\ \A x \in DeletedKeys : \E i \in DOMAIN calls :
           calls[i].type = "delete" /\ calls[i].key = x
      /\ \A i \in DOMAIN calls :
           calls[i].type = "delete" => calls[i].key \in DeletedKeys
      /\ head = None <=> HeadKey \notin DOMAIN last
      /\ head # None => last[HeadKey] = PutOf(HeadKey, head)
  BY DEF WriteInv, CallsQueued
<1> HIDE DEF last
<1> DEFINE then == Atomic!Set(last, k, op)
           puts == Atomic!Set(QueuedPuts, k, v)
<1>5. /\ DOMAIN then = DOMAIN last \cup {k} /\ then[k] = op
      /\ \A x \in DOMAIN last : x # k => then[x] = last[x]
      /\ DOMAIN puts = DOMAIN QueuedPuts \cup {k} /\ puts[k] = v
      /\ \A x \in DOMAIN QueuedPuts : x # k => puts[x] = QueuedPuts[x]
  BY DEF Atomic!Set
<1> HIDE DEF then, puts
<1>6. ASSUME NEW x \in DOMAIN then, x # HeadKey
      PROVE  \/ /\ then[x].type = "put"
                /\ x \in DOMAIN puts
                /\ puts[x] = then[x].value
             \/ then[x].type = "delete" /\ x \in DeletedKeys
  <2>1. CASE x = k
    BY <1>1, <1>5, <2>1
  <2>2. CASE x # k
    <3>1. x \in DOMAIN last /\ then[x] = last[x]
      BY <1>5, <2>2
    <3>2. QED
      BY <1>4, <1>5, <1>6, <2>2, <3>1
  <2>3. QED
    BY <2>1, <2>2
<1>7. DOMAIN puts \subseteq DOMAIN then
  BY <1>4, <1>5
<1>8. /\ head = None <=> HeadKey \notin DOMAIN then
      /\ head # None => then[HeadKey] = PutOf(HeadKey, head)
  BY <1>2, <1>4, <1>5
<1>9. /\ \A x \in DeletedKeys : \E i \in DOMAIN calls' :
           calls'[i].type = "delete" /\ calls'[i].key = x
      /\ \A i \in DOMAIN calls' :
           calls'[i].type = "delete" => calls'[i].key \in DeletedKeys
  BY <1>1, <1>3, <1>4
<1>10. LastWrites(calls') = then /\ QueuedPuts' = puts
  BY <1>3 DEF then, puts
<1>11. CallsQueued'
  BY <1>6, <1>7, <1>8, <1>9, <1>10 DEF CallsQueued
<1>12. QED
  BY <1>3, <1>11

LEMMA DeleteAdds ==
  ASSUME WriteInv, NEW k \in NodeKeys \cup BlockKeys,
         calls' = Append(calls, DeleteOf(k)),
         QueuedPuts' = QueuedPuts,
         DeletedKeys' = DeletedKeys \cup {k}, head' = head
  PROVE  calls' \in Seq(CallOps) /\ CallsQueued'
<1> DEFINE op == DeleteOf(k)
           last == LastWrites(calls)
<1>1. op \in CallOps /\ op.key = k /\ op.type = "delete"
  BY DEF CallOps, DeletesOf, DeleteOf
<1>2. calls \in Seq(CallOps) /\ calls' = Append(calls, op) /\ k # HeadKey
  BY KeysAssumption DEF WriteInv, RecordKeys
<1> HIDE DEF op
<1>3. /\ calls' \in Seq(CallOps)
      /\ LastWrites(calls') = Atomic!Set(last, k, op)
      /\ \A i \in DOMAIN calls : i \in DOMAIN calls' /\ calls'[i] = calls[i]
      /\ Len(calls) + 1 \in DOMAIN calls' /\ calls'[Len(calls) + 1] = op
      /\ \A i \in DOMAIN calls' : i \in DOMAIN calls \/ i = Len(calls) + 1
  BY <1>1, <1>2, CallAdds
<1>4. /\ \A x \in DOMAIN last \ {HeadKey} :
           \/ /\ last[x].type = "put"
              /\ x \in DOMAIN QueuedPuts
              /\ QueuedPuts[x] = last[x].value
           \/ last[x].type = "delete" /\ x \in DeletedKeys
      /\ DOMAIN QueuedPuts \subseteq DOMAIN last
      /\ \A x \in DeletedKeys : \E i \in DOMAIN calls :
           calls[i].type = "delete" /\ calls[i].key = x
      /\ \A i \in DOMAIN calls :
           calls[i].type = "delete" => calls[i].key \in DeletedKeys
      /\ head = None <=> HeadKey \notin DOMAIN last
      /\ head # None => last[HeadKey] = PutOf(HeadKey, head)
  BY DEF WriteInv, CallsQueued
<1> HIDE DEF last
<1> DEFINE then == Atomic!Set(last, k, op)
           dels == DeletedKeys \cup {k}
<1>5. /\ DOMAIN then = DOMAIN last \cup {k} /\ then[k] = op
      /\ \A x \in DOMAIN last : x # k => then[x] = last[x]
  BY DEF Atomic!Set
<1> HIDE DEF then
<1>6. ASSUME NEW x \in DOMAIN then, x # HeadKey
      PROVE  \/ /\ then[x].type = "put"
                /\ x \in DOMAIN QueuedPuts
                /\ QueuedPuts[x] = then[x].value
             \/ then[x].type = "delete" /\ x \in dels
  <2>1. CASE x = k
    BY <1>1, <1>5, <2>1
  <2>2. CASE x # k
    <3>1. x \in DOMAIN last /\ then[x] = last[x]
      BY <1>5, <2>2
    <3>2. QED
      BY <1>4, <1>6, <3>1
  <2>3. QED
    BY <2>1, <2>2
<1>7. DOMAIN QueuedPuts \subseteq DOMAIN then
  BY <1>4, <1>5
<1>8. /\ head = None <=> HeadKey \notin DOMAIN then
      /\ head # None => then[HeadKey] = PutOf(HeadKey, head)
  BY <1>2, <1>4, <1>5
<1>9. ASSUME NEW x \in dels
      PROVE  \E i \in DOMAIN calls' :
               calls'[i].type = "delete" /\ calls'[i].key = x
  <2>1. CASE x = k
    BY <1>1, <1>3, <2>1
  <2>2. CASE x \in DeletedKeys
    BY <1>3, <1>4, <2>2
  <2>3. QED
    BY <2>1, <2>2
<1>10. \A i \in DOMAIN calls' :
         calls'[i].type = "delete" => calls'[i].key \in dels
  BY <1>1, <1>3, <1>4
<1>11. LastWrites(calls') = then /\ DeletedKeys' = dels
  BY <1>3 DEF then
<1> HIDE DEF dels
<1>12. CallsQueued'
  BY <1>6, <1>7, <1>8, <1>9, <1>10, <1>11 DEF CallsQueued
<1>13. QED
  BY <1>3, <1>12

LEMMA HeadAdds ==
  ASSUME WriteInv, NEW v \in Values,
         calls' = Append(calls, PutOf(HeadKey, v)),
         QueuedPuts' = QueuedPuts, DeletedKeys' = DeletedKeys, head' = v
  PROVE  calls' \in Seq(CallOps) /\ CallsQueued'
<1> DEFINE op == PutOf(HeadKey, v)
           last == LastWrites(calls)
<1>1. op \in CallOps /\ op.key = HeadKey /\ op.type = "put"
  BY DEF CallOps, PutsTo, PutOf
<1>2. calls \in Seq(CallOps) /\ calls' = Append(calls, op) /\ v # None
  BY NoneAssumption DEF WriteInv
<1> HIDE DEF op
<1>3. /\ calls' \in Seq(CallOps)
      /\ LastWrites(calls') = Atomic!Set(last, HeadKey, op)
      /\ \A i \in DOMAIN calls : i \in DOMAIN calls' /\ calls'[i] = calls[i]
      /\ calls'[Len(calls) + 1] = op
      /\ \A i \in DOMAIN calls' : i \in DOMAIN calls \/ i = Len(calls) + 1
  BY <1>1, <1>2, CallAdds
<1>4. /\ \A x \in DOMAIN last \ {HeadKey} :
           \/ /\ last[x].type = "put"
              /\ x \in DOMAIN QueuedPuts
              /\ QueuedPuts[x] = last[x].value
           \/ last[x].type = "delete" /\ x \in DeletedKeys
      /\ DOMAIN QueuedPuts \subseteq DOMAIN last
      /\ \A x \in DeletedKeys : \E i \in DOMAIN calls :
           calls[i].type = "delete" /\ calls[i].key = x
      /\ \A i \in DOMAIN calls :
           calls[i].type = "delete" => calls[i].key \in DeletedKeys
  BY DEF WriteInv, CallsQueued
<1> HIDE DEF last
<1> DEFINE then == Atomic!Set(last, HeadKey, op)
<1>5. /\ DOMAIN then = DOMAIN last \cup {HeadKey} /\ then[HeadKey] = op
      /\ \A x \in DOMAIN last : x # HeadKey => then[x] = last[x]
  BY DEF Atomic!Set
<1> HIDE DEF then
<1>6. ASSUME NEW x \in DOMAIN then, x # HeadKey
      PROVE  \/ /\ then[x].type = "put"
                /\ x \in DOMAIN QueuedPuts
                /\ QueuedPuts[x] = then[x].value
             \/ then[x].type = "delete" /\ x \in DeletedKeys
  <2>1. x \in DOMAIN last /\ then[x] = last[x]
    BY <1>5, <1>6
  <2>2. QED
    BY <1>4, <1>6, <2>1
<1>7. DOMAIN QueuedPuts \subseteq DOMAIN then
  BY <1>4, <1>5
<1>8. /\ \A x \in DeletedKeys : \E i \in DOMAIN calls' :
           calls'[i].type = "delete" /\ calls'[i].key = x
      /\ \A i \in DOMAIN calls' :
           calls'[i].type = "delete" => calls'[i].key \in DeletedKeys
  BY <1>1, <1>3, <1>4
<1>9. LastWrites(calls') = then /\ then[HeadKey] = PutOf(HeadKey, v)
  BY <1>3, <1>5 DEF then, op
<1>10. CallsQueued'
  BY <1>2, <1>5, <1>6, <1>7, <1>8, <1>9 DEF CallsQueued
<1>11. QED
  BY <1>3, <1>10

-----------------------------------------------------------------------------
(* A put of each kind goes over the puts of all kinds.                     *)
LEMMA TreeNodeQueued ==
  ASSUME ArraysHold, side = "core", NEW k \in NodeKeys, NEW v \in Values,
         tree_nodes' \in Queued(tree_nodes, PutOf(k, v)),
         UNCHANGED <<blocks, cores>>
  PROVE  QueuedPuts' = Atomic!Set(QueuedPuts, k, v)
<1> DEFINE tree == LastPuts(tree_nodes.items)
           block == LastPuts(blocks.items)
           core == LastPuts(cores.items)
<1>1. LastPuts(tree_nodes'.items) = Atomic!Set(tree, k, v)
  BY QueuedPut DEF ArraysHold
<1>2. k \notin DOMAIN block /\ core = [x \in {} |-> None]
  BY PutsLast, NothingLast, KeysAssumption DEF ArraysHold
<1>3. /\ QueuedPuts = Overridden(Overridden(tree, block), core)
      /\ QueuedPuts' =
           Overridden(Overridden(Atomic!Set(tree, k, v), block), core)
  BY <1>1 DEF QueuedPuts
<1> HIDE DEF tree, block, core
<1>4. QED
  BY <1>2, <1>3 DEF Overridden, Atomic!Set

LEMMA BlockQueued ==
  ASSUME ArraysHold, side = "core", NEW k \in BlockKeys, NEW v \in Values,
         blocks' \in Queued(blocks, PutOf(k, v)),
         UNCHANGED <<tree_nodes, cores>>
  PROVE  QueuedPuts' = Atomic!Set(QueuedPuts, k, v)
<1> DEFINE tree == LastPuts(tree_nodes.items)
           block == LastPuts(blocks.items)
           core == LastPuts(cores.items)
<1>1. LastPuts(blocks'.items) = Atomic!Set(block, k, v)
  BY QueuedPut DEF ArraysHold
<1>2. core = [x \in {} |-> None]
  BY NothingLast DEF ArraysHold
<1>3. /\ QueuedPuts = Overridden(Overridden(tree, block), core)
      /\ QueuedPuts' =
           Overridden(Overridden(tree, Atomic!Set(block, k, v)), core)
  BY <1>1 DEF QueuedPuts
<1> HIDE DEF tree, block, core
<1>4. QED
  BY <1>2, <1>3 DEF Overridden, Atomic!Set

LEMMA CoreQueued ==
  ASSUME ArraysHold, NEW k \in CoreKeys, NEW v \in Values,
         cores' \in Queued(cores, PutOf(k, v)),
         UNCHANGED <<tree_nodes, blocks>>
  PROVE  QueuedPuts' = Atomic!Set(QueuedPuts, k, v)
<1> DEFINE rest == Overridden(LastPuts(tree_nodes.items),
                              LastPuts(blocks.items))
           core == LastPuts(cores.items)
<1>1. LastPuts(cores'.items) = Atomic!Set(core, k, v)
  BY QueuedPut DEF ArraysHold
<1>2. /\ QueuedPuts = Overridden(rest, core)
      /\ QueuedPuts' = Overridden(rest, Atomic!Set(core, k, v))
  BY <1>1 DEF QueuedPuts
<1> HIDE DEF rest, core
<1>3. QED
  BY <1>2 DEF Overridden, Atomic!Set

-----------------------------------------------------------------------------
(* Room that was made is used by one write, and never lost.                *)
LEMMA RoomUsed ==
  ASSUME NEW Ops, NEW array, Holds(array, Ops), NEW op \in Ops,
         NEW queued \in Queued(array, op), NEW p \in Nat,
         array.capacity >= Len(array.items) + p
  PROVE  queued.capacity >=
           Len(queued.items) + (IF p = 0 THEN 0 ELSE p - 1)
<1>1. /\ Holds(queued, Ops) /\ queued.capacity >= array.capacity
      /\ Len(queued.items) = Len(array.items) + 1
  BY QueuedHolds
<1>2. /\ Len(queued.items) \in Nat /\ queued.capacity \in Nat
      /\ Len(array.items) \in Nat /\ array.capacity \in Nat
      /\ Len(queued.items) <= queued.capacity
  BY <1>1 DEF Holds
<1> DEFINE room == array.capacity
           length == Len(array.items)
           room2 == queued.capacity
           length2 == Len(queued.items)
<1>3. /\ room \in Nat /\ length \in Nat /\ room2 \in Nat
      /\ room >= length + p /\ room2 >= room
      /\ length2 = length + 1 /\ length2 <= room2
  BY <1>1, <1>2
<1> HIDE DEF room, length, room2, length2
<1>4. room2 >= length2 + (IF p = 0 THEN 0 ELSE p - 1)
  BY <1>3
<1>5. QED
  BY <1>4 DEF room2, length2

LEMMA RoomMade ==
  ASSUME NEW Ops, NEW array, Holds(array, Ops), NEW n \in Nat, NEW p \in Nat,
         NEW grown \in Grown(array, Len(array.items) + n),
         array.capacity >= Len(array.items) + p
  PROVE  grown.capacity >=
           Len(grown.items) + (IF p > n THEN p ELSE n)
<1>1. Len(array.items) \in Nat /\ array.capacity \in Nat
  BY DEF Holds
<1>2. Len(array.items) + n \in Nat
  BY <1>1
<1>3. /\ Holds(grown, Ops)
      /\ grown.capacity >= Len(array.items) + n
      /\ grown.capacity >= array.capacity
      /\ Len(grown.items) = Len(array.items)
  BY <1>2, GrownHolds
<1>4. grown.capacity \in Nat
  BY <1>3 DEF Holds
<1> DEFINE room == array.capacity
           length == Len(array.items)
           room2 == grown.capacity
           length2 == Len(grown.items)
<1>5. /\ room \in Nat /\ length \in Nat /\ room2 \in Nat
      /\ room >= length + p /\ room2 >= room
      /\ length2 = length /\ room2 >= length + n
  BY <1>1, <1>3, <1>4
<1> HIDE DEF room, length, room2, length2
<1>6. room2 >= length2 + (IF p > n THEN p ELSE n)
  BY <1>5
<1>7. QED
  BY <1>6 DEF room2, length2

LEMMA WriteInvParts ==
  ASSUME WriteInv
  PROVE  /\ Holds(tree_nodes, PutsTo(NodeKeys))
         /\ Holds(blocks, PutsTo(BlockKeys))
         /\ Holds(deletes, DeletesOf(NodeKeys \cup BlockKeys))
         /\ Holds(cores, PutsTo(CoreKeys))
         /\ ArraysHold /\ calls \in Seq(CallOps) /\ promised \in Promised
         /\ promised.tree_nodes \in Nat /\ promised.blocks \in Nat
         /\ promised.deletes \in Nat
BY DEF WriteInv, ArraysHold, Promised

(* A step of the abstract batch, or none.                                  *)
BatchStep == [Atomic!BatchNext]_Atomic!batchVars

-----------------------------------------------------------------------------
(* Each operation of a batch keeps the invariant, and is the one that the  *)
(* abstract batch has for it.                                              *)
LEMMA WriteTreeNodeKeeps ==
  ASSUME WriteInv, NEW k \in NodeKeys, NEW v \in Values, WriteTreeNode(k, v)
  PROVE  WriteInv' /\ BatchStep
<1> DEFINE op == PutOf(k, v)
<1>1. /\ tree_nodes' \in Queued(tree_nodes, op)
      /\ side = "core" /\ calls' = Append(calls, op)
      /\ promised' = [promised EXCEPT !["tree_nodes"] =
                        IF @ = 0 THEN 0 ELSE @ - 1]
      /\ UNCHANGED <<side, column, blocks, deletes, cores, head>>
  BY DEF WriteTreeNode, Calls
<1>2. op \in PutsTo(NodeKeys) /\ k \in RecordKeys
  BY DEF PutsTo, PutOf, RecordKeys
<1>3. QueuedPuts' = Atomic!Set(QueuedPuts, k, v)
  BY <1>1, TreeNodeQueued, WriteInvParts
<1>4. DeletedKeys' = DeletedKeys
  BY <1>1 DEF DeletedKeys
<1>5. calls' \in Seq(CallOps) /\ CallsQueued'
  BY <1>1, <1>2, <1>3, <1>4, PutAdds
<1> HIDE DEF op
<1>6. ArraysHold'
  <2>1. Holds(tree_nodes', PutsTo(NodeKeys))
    BY <1>1, <1>2, QueuedHolds, WriteInvParts
  <2>2. QED
    BY <1>1, <2>1, WriteInvParts DEF ArraysHold
<1>7. promised' \in Promised
  BY <1>1, WriteInvParts DEF Promised
<1>8. ReservationsHold'
  <2>1. tree_nodes.capacity >= Len(tree_nodes.items) + promised.tree_nodes
    BY DEF WriteInv, ReservationsHold
  <2>2. tree_nodes'.capacity >= Len(tree_nodes'.items) +
          (IF promised.tree_nodes = 0 THEN 0 ELSE promised.tree_nodes - 1)
    BY <1>1, <1>2, <2>1, RoomUsed, WriteInvParts
  <2>3. /\ promised'.tree_nodes = IF promised.tree_nodes = 0 THEN 0
                                  ELSE promised.tree_nodes - 1
        /\ promised'.blocks = promised.blocks
        /\ promised'.deletes = promised.deletes
    BY <1>1, WriteInvParts DEF Promised
  <2>4. QED
    BY <1>1, <2>2, <2>3 DEF WriteInv, ReservationsHold
<1>9. WriteInv'
  BY <1>1, <1>5, <1>6, <1>7, <1>8 DEF WriteInv, Promised
<1>10. Atomic!CollectPut
  BY <1>1, <1>2, <1>3, <1>4 DEF Atomic!CollectPut
<1>11. QED
  BY <1>9, <1>10 DEF BatchStep, Atomic!BatchNext

LEMMA WriteBlockKeeps ==
  ASSUME WriteInv, NEW k \in BlockKeys, NEW v \in Values, WriteBlock(k, v)
  PROVE  WriteInv' /\ BatchStep
<1> DEFINE op == PutOf(k, v)
<1>1. /\ blocks' \in Queued(blocks, op)
      /\ side = "core" /\ calls' = Append(calls, op)
      /\ promised' = [promised EXCEPT !["blocks"] =
                        IF @ = 0 THEN 0 ELSE @ - 1]
      /\ UNCHANGED <<side, column, tree_nodes, deletes, cores, head>>
  BY DEF WriteBlock, Calls
<1>2. op \in PutsTo(BlockKeys) /\ k \in RecordKeys
  BY DEF PutsTo, PutOf, RecordKeys
<1>3. QueuedPuts' = Atomic!Set(QueuedPuts, k, v)
  BY <1>1, BlockQueued, WriteInvParts
<1>4. DeletedKeys' = DeletedKeys
  BY <1>1 DEF DeletedKeys
<1>5. calls' \in Seq(CallOps) /\ CallsQueued'
  BY <1>1, <1>2, <1>3, <1>4, PutAdds
<1> HIDE DEF op
<1>6. ArraysHold'
  <2>1. Holds(blocks', PutsTo(BlockKeys))
    BY <1>1, <1>2, QueuedHolds, WriteInvParts
  <2>2. QED
    BY <1>1, <2>1, WriteInvParts DEF ArraysHold
<1>7. promised' \in Promised
  BY <1>1, WriteInvParts DEF Promised
<1>8. ReservationsHold'
  <2>1. blocks.capacity >= Len(blocks.items) + promised.blocks
    BY DEF WriteInv, ReservationsHold
  <2>2. blocks'.capacity >= Len(blocks'.items) +
          (IF promised.blocks = 0 THEN 0 ELSE promised.blocks - 1)
    BY <1>1, <1>2, <2>1, RoomUsed, WriteInvParts
  <2>3. /\ promised'.blocks = IF promised.blocks = 0 THEN 0
                              ELSE promised.blocks - 1
        /\ promised'.tree_nodes = promised.tree_nodes
        /\ promised'.deletes = promised.deletes
    BY <1>1, WriteInvParts DEF Promised
  <2>4. QED
    BY <1>1, <2>2, <2>3 DEF WriteInv, ReservationsHold
<1>9. WriteInv'
  BY <1>1, <1>5, <1>6, <1>7, <1>8 DEF WriteInv, Promised
<1>10. Atomic!CollectPut
  BY <1>1, <1>2, <1>3, <1>4 DEF Atomic!CollectPut
<1>11. QED
  BY <1>9, <1>10 DEF BatchStep, Atomic!BatchNext

LEMMA DeleteKeeps ==
  ASSUME WriteInv, NEW k \in NodeKeys \cup BlockKeys, Delete(k)
  PROVE  WriteInv' /\ BatchStep
<1> DEFINE op == DeleteOf(k)
           K == NodeKeys \cup BlockKeys
<1>1. /\ deletes' \in Queued(deletes, op)
      /\ side = "core" /\ calls' = Append(calls, op)
      /\ promised' = [promised EXCEPT !["deletes"] =
                        IF @ = 0 THEN 0 ELSE @ - 1]
      /\ UNCHANGED <<side, column, tree_nodes, blocks, cores, head>>
  BY DEF Delete, Calls
<1>2. op \in DeletesOf(K) /\ k \in RecordKeys
  BY DEF DeletesOf, DeleteOf, RecordKeys
<1>3. QueuedPuts' = QueuedPuts
  BY <1>1 DEF QueuedPuts
<1>4. DeletedKeys' = DeletedKeys \cup {k}
  <2> DEFINE of(array) == {entry.op.key : entry \in Range(array.items)}
  <2>1. \A array : Holds(array, DeletesOf(K)) =>
          \A queued \in Queued(array, op) : of(queued) = of(array) \cup {k}
    BY QueuedDelete
  <2>2. Holds(deletes, DeletesOf(K)) /\ deletes' \in Queued(deletes, op)
    BY <1>1, WriteInvParts
  <2>3. DeletedKeys = of(deletes) /\ DeletedKeys' = of(deletes')
    BY DEF DeletedKeys
  <2> HIDE DEF of, op, K
  <2>4. QED
    BY <2>1, <2>2, <2>3
<1>5. calls' \in Seq(CallOps) /\ CallsQueued'
  BY <1>1, <1>3, <1>4, DeleteAdds
<1> HIDE DEF op
<1>6. ArraysHold'
  <2>1. Holds(deletes', DeletesOf(K))
    BY <1>1, <1>2, QueuedHolds, WriteInvParts
  <2>2. QED
    BY <1>1, <2>1, WriteInvParts DEF ArraysHold
<1>7. promised' \in Promised
  BY <1>1, WriteInvParts DEF Promised
<1>8. ReservationsHold'
  <2>1. deletes.capacity >= Len(deletes.items) + promised.deletes
    BY DEF WriteInv, ReservationsHold
  <2>2. deletes'.capacity >= Len(deletes'.items) +
          (IF promised.deletes = 0 THEN 0 ELSE promised.deletes - 1)
    BY <1>1, <1>2, <2>1, RoomUsed, WriteInvParts
  <2>3. /\ promised'.deletes = IF promised.deletes = 0 THEN 0
                               ELSE promised.deletes - 1
        /\ promised'.tree_nodes = promised.tree_nodes
        /\ promised'.blocks = promised.blocks
    BY <1>1, WriteInvParts DEF Promised
  <2>4. QED
    BY <1>1, <2>2, <2>3 DEF WriteInv, ReservationsHold
<1>9. WriteInv'
  BY <1>1, <1>5, <1>6, <1>7, <1>8 DEF WriteInv, Promised
<1>10. Atomic!CollectDelete
  BY <1>1, <1>2, <1>3, <1>4 DEF Atomic!CollectDelete
<1>11. QED
  BY <1>9, <1>10 DEF BatchStep, Atomic!BatchNext

LEMMA PutCoreKeeps ==
  ASSUME WriteInv, NEW k \in CoreKeys, NEW v \in Values, PutCore(k, v)
  PROVE  WriteInv' /\ BatchStep
<1> DEFINE op == PutOf(k, v)
<1>1. /\ cores' \in Queued(cores, op)
      /\ side = "store" /\ calls' = Append(calls, op)
      /\ promised' = [promised EXCEPT !["cores"] =
                        IF @ = 0 THEN 0 ELSE @ - 1]
      /\ UNCHANGED <<side, column, tree_nodes, blocks, deletes, head>>
  BY DEF PutCore, Calls
<1>2. op \in PutsTo(CoreKeys) /\ k \in RecordKeys
  BY DEF PutsTo, PutOf, RecordKeys
<1>3. QueuedPuts' = Atomic!Set(QueuedPuts, k, v)
  BY <1>1, CoreQueued, WriteInvParts
<1>4. DeletedKeys' = DeletedKeys
  BY <1>1 DEF DeletedKeys
<1>5. calls' \in Seq(CallOps) /\ CallsQueued'
  BY <1>1, <1>2, <1>3, <1>4, PutAdds
<1> HIDE DEF op
<1>6. ArraysHold'
  <2>1. Holds(cores', PutsTo(CoreKeys))
    BY <1>1, <1>2, QueuedHolds, WriteInvParts
  <2>2. QED
    BY <1>1, <2>1, WriteInvParts DEF ArraysHold
<1>7. promised' \in Promised
  BY <1>1, WriteInvParts DEF Promised
<1>8. ReservationsHold'
  BY <1>1, WriteInvParts DEF WriteInv, ReservationsHold, Promised
<1>9. WriteInv'
  BY <1>1, <1>5, <1>6, <1>7, <1>8 DEF WriteInv, Promised
<1>10. Atomic!CollectPut
  BY <1>1, <1>2, <1>3, <1>4 DEF Atomic!CollectPut
<1>11. QED
  BY <1>9, <1>10 DEF BatchStep, Atomic!BatchNext

LEMMA WriteHeadKeeps ==
  ASSUME WriteInv, NEW v \in Values, WriteHead(v)
  PROVE  WriteInv' /\ BatchStep
<1>1. /\ head' = v /\ calls' = Append(calls, PutOf(HeadKey, v))
      /\ UNCHANGED <<side, column, tree_nodes, blocks, deletes, cores,
                     promised>>
  BY DEF WriteHead, arrays
<1>2. QueuedPuts' = QueuedPuts /\ DeletedKeys' = DeletedKeys
  BY <1>1 DEF QueuedPuts, DeletedKeys
<1>3. calls' \in Seq(CallOps) /\ CallsQueued'
  BY <1>1, <1>2, HeadAdds
<1>4. ArraysHold' /\ ReservationsHold' /\ promised' \in Promised
  BY <1>1, WriteInvParts DEF WriteInv, ArraysHold, ReservationsHold
<1>5. WriteInv'
  BY <1>1, <1>3, <1>4 DEF WriteInv, Promised
<1>6. Atomic!CollectHead
  BY <1>1, <1>2 DEF Atomic!CollectHead
<1>7. QED
  BY <1>5, <1>6 DEF BatchStep, Atomic!BatchNext

LEMMA EnsureTreeNodesKeeps ==
  ASSUME WriteInv, NEW n \in Nat, EnsureTreeNodes(n)
  PROVE  WriteInv' /\ BatchStep
<1>1. /\ tree_nodes' \in Grown(tree_nodes, Len(tree_nodes.items) + n)
      /\ promised' = [promised EXCEPT !["tree_nodes"] =
                        IF @ > n THEN @ ELSE n]
      /\ side = "core"
      /\ UNCHANGED <<side, column, calls, blocks, deletes, cores, head>>
  BY DEF EnsureTreeNodes, Ensured, Promises
<1>2. Len(tree_nodes.items) + n \in Nat
  BY WriteInvParts DEF Holds
<1>3. QueuedPuts' = QueuedPuts /\ DeletedKeys' = DeletedKeys
  <2>1. LastPuts(tree_nodes'.items) = LastPuts(tree_nodes.items)
    BY <1>1, <1>2, GrownPuts, WriteInvParts
  <2>2. QED
    BY <1>1, <2>1 DEF QueuedPuts, DeletedKeys
<1>4. ArraysHold'
  <2>1. Holds(tree_nodes', PutsTo(NodeKeys))
    BY <1>1, <1>2, GrownHolds, WriteInvParts
  <2>2. QED
    BY <1>1, <2>1, WriteInvParts DEF ArraysHold
<1>5. promised' \in Promised
  BY <1>1, WriteInvParts DEF Promised
<1>6. ReservationsHold'
  <2>1. tree_nodes.capacity >= Len(tree_nodes.items) + promised.tree_nodes
    BY DEF WriteInv, ReservationsHold
  <2>2. tree_nodes'.capacity >= Len(tree_nodes'.items) +
          (IF promised.tree_nodes > n THEN promised.tree_nodes ELSE n)
    BY <1>1, <2>1, RoomMade, WriteInvParts
  <2>3. /\ promised'.tree_nodes = IF promised.tree_nodes > n
                                  THEN promised.tree_nodes ELSE n
        /\ promised'.blocks = promised.blocks
        /\ promised'.deletes = promised.deletes
    BY <1>1, WriteInvParts DEF Promised
  <2>4. QED
    BY <1>1, <2>2, <2>3 DEF WriteInv, ReservationsHold
<1>7. WriteInv'
  BY <1>1, <1>3, <1>4, <1>5, <1>6 DEF WriteInv, CallsQueued, Promised
<1>8. QED
  BY <1>1, <1>3, <1>7 DEF BatchStep, Atomic!batchVars

LEMMA EnsureBlocksKeeps ==
  ASSUME WriteInv, NEW n \in Nat, EnsureBlocks(n)
  PROVE  WriteInv' /\ BatchStep
<1>1. /\ blocks' \in Grown(blocks, Len(blocks.items) + n)
      /\ promised' = [promised EXCEPT !["blocks"] =
                        IF @ > n THEN @ ELSE n]
      /\ side = "core"
      /\ UNCHANGED <<side, column, calls, tree_nodes, deletes, cores, head>>
  BY DEF EnsureBlocks, Ensured, Promises
<1>2. Len(blocks.items) + n \in Nat
  BY WriteInvParts DEF Holds
<1>3. QueuedPuts' = QueuedPuts /\ DeletedKeys' = DeletedKeys
  <2>1. LastPuts(blocks'.items) = LastPuts(blocks.items)
    BY <1>1, <1>2, GrownPuts, WriteInvParts
  <2>2. QED
    BY <1>1, <2>1 DEF QueuedPuts, DeletedKeys
<1>4. ArraysHold'
  <2>1. Holds(blocks', PutsTo(BlockKeys))
    BY <1>1, <1>2, GrownHolds, WriteInvParts
  <2>2. QED
    BY <1>1, <2>1, WriteInvParts DEF ArraysHold
<1>5. promised' \in Promised
  BY <1>1, WriteInvParts DEF Promised
<1>6. ReservationsHold'
  <2>1. blocks.capacity >= Len(blocks.items) + promised.blocks
    BY DEF WriteInv, ReservationsHold
  <2>2. blocks'.capacity >= Len(blocks'.items) +
          (IF promised.blocks > n THEN promised.blocks ELSE n)
    BY <1>1, <2>1, RoomMade, WriteInvParts
  <2>3. /\ promised'.blocks = IF promised.blocks > n
                              THEN promised.blocks ELSE n
        /\ promised'.tree_nodes = promised.tree_nodes
        /\ promised'.deletes = promised.deletes
    BY <1>1, WriteInvParts DEF Promised
  <2>4. QED
    BY <1>1, <2>2, <2>3 DEF WriteInv, ReservationsHold
<1>7. WriteInv'
  BY <1>1, <1>3, <1>4, <1>5, <1>6 DEF WriteInv, CallsQueued, Promised
<1>8. QED
  BY <1>1, <1>3, <1>7 DEF BatchStep, Atomic!batchVars

LEMMA EnsureDeletesKeeps ==
  ASSUME WriteInv, NEW n \in Nat, EnsureDeletes(n)
  PROVE  WriteInv' /\ BatchStep
<1> DEFINE K == NodeKeys \cup BlockKeys
<1>1. /\ deletes' \in Grown(deletes, Len(deletes.items) + n)
      /\ promised' = [promised EXCEPT !["deletes"] =
                        IF @ > n THEN @ ELSE n]
      /\ side = "core"
      /\ UNCHANGED <<side, column, calls, tree_nodes, blocks, cores, head>>
  BY DEF EnsureDeletes, Ensured, Promises
<1>2. Len(deletes.items) + n \in Nat
  BY WriteInvParts DEF Holds
<1>3. QueuedPuts' = QueuedPuts
  BY <1>1 DEF QueuedPuts
<1>4. Holds(deletes, DeletesOf(K)) /\ Holds(deletes', DeletesOf(K))
  BY <1>1, <1>2, GrownHolds, WriteInvParts
<1>5. DeletedKeys' = DeletedKeys
  <2> HIDE DEF K
  <2>1. /\ DeletedKeys = DOMAIN LastWrites(Sliced(deletes))
        /\ DeletedKeys' = DOMAIN LastWrites(Sliced(deletes'))
    BY <1>4, DeletesLast DEF DeletedKeys
  <2>2. Sliced(deletes') = Sliced(deletes)
    BY <1>1, <1>2, <1>4, GrownSliced, DeletesAreKind
  <2>3. QED
    BY <2>1, <2>2
<1>6. ArraysHold'
  BY <1>1, <1>4, WriteInvParts DEF ArraysHold
<1>7. promised' \in Promised
  BY <1>1, WriteInvParts DEF Promised
<1>8. ReservationsHold'
  <2>1. deletes.capacity >= Len(deletes.items) + promised.deletes
    BY DEF WriteInv, ReservationsHold
  <2>2. deletes'.capacity >= Len(deletes'.items) +
          (IF promised.deletes > n THEN promised.deletes ELSE n)
    BY <1>1, <2>1, RoomMade, WriteInvParts
  <2>3. /\ promised'.deletes = IF promised.deletes > n
                               THEN promised.deletes ELSE n
        /\ promised'.tree_nodes = promised.tree_nodes
        /\ promised'.blocks = promised.blocks
    BY <1>1, WriteInvParts DEF Promised
  <2>4. QED
    BY <1>1, <2>2, <2>3 DEF WriteInv, ReservationsHold
<1>9. WriteInv'
  BY <1>1, <1>3, <1>5, <1>6, <1>7, <1>8 DEF WriteInv, CallsQueued, Promised
<1>10. QED
  BY <1>1, <1>3, <1>5, <1>9 DEF BatchStep, Atomic!batchVars

LEMMA NothingChangedKeeps ==
  ASSUME WriteInv, UNCHANGED writeVars
  PROVE  WriteInv' /\ BatchStep
<1>1. UNCHANGED <<side, column, tree_nodes, blocks, deletes, cores, head,
                  calls, promised>>
  BY DEF writeVars, batch, arrays
<1>2. QueuedPuts' = QueuedPuts /\ DeletedKeys' = DeletedKeys
  BY <1>1 DEF QueuedPuts, DeletedKeys
<1>3. ArraysHold' /\ ReservationsHold' /\ CallsQueued'
  BY <1>1, <1>2 DEF WriteInv, ArraysHold, ReservationsHold, CallsQueued
<1>4. WriteInv'
  BY <1>1, <1>3 DEF WriteInv
<1>5. QED
  BY <1>1, <1>2, <1>4 DEF BatchStep, Atomic!batchVars

LEMMA FlushKeeps ==
  ASSUME WriteInv, Flush
  PROVE  WriteInv' /\ BatchStep
<1> DEFINE put  == [k \in DOMAIN column \cup DOMAIN QueuedPuts |->
                      IF k \in DOMAIN QueuedPuts THEN QueuedPuts[k]
                      ELSE column[k]]
           kept == Atomic!Restrict(put, DOMAIN put \ DeletedKeys)
<1>1. /\ column' = AppliedAll(column, Writes)
      /\ UNCHANGED <<side, tree_nodes, blocks, deletes, cores, head, calls,
                     promised>>
  BY DEF Flush, batch, arrays
<1>2. QueuedPuts' = QueuedPuts /\ DeletedKeys' = DeletedKeys
  BY <1>1 DEF QueuedPuts, DeletedKeys
<1>3. ArraysHold' /\ ReservationsHold' /\ CallsQueued'
  BY <1>1, <1>2 DEF WriteInv, ArraysHold, ReservationsHold, CallsQueued
<1>4. column' = IF head = None THEN kept
                ELSE Atomic!Set(kept, HeadKey, head)
  BY <1>1, FlushCommits
<1>5. /\ DOMAIN column' \subseteq RecordKeys \cup {HeadKey}
      /\ \A k \in DOMAIN column' : column'[k] \in Values
  <2>1. /\ DOMAIN column \subseteq RecordKeys \cup {HeadKey}
        /\ \A k \in DOMAIN column : column[k] \in Values
        /\ head \in Values \cup {None}
    BY DEF WriteInv
  <2>2. /\ DOMAIN QueuedPuts \subseteq RecordKeys
        /\ \A k \in DOMAIN QueuedPuts : QueuedPuts[k] \in Values
    BY QueuedKeys, WriteInvParts
  <2>3. /\ DOMAIN kept \subseteq RecordKeys \cup {HeadKey}
        /\ \A k \in DOMAIN kept : kept[k] \in Values
    BY <2>1, <2>2 DEF Atomic!Restrict
  <2> HIDE DEF kept
  <2>4. CASE head = None
    BY <1>4, <2>3, <2>4
  <2>5. CASE head # None
    BY <1>4, <2>1, <2>3, <2>5 DEF Atomic!Set
  <2>6. QED
    BY <2>4, <2>5
<1>6. WriteInv'
  BY <1>1, <1>3, <1>5 DEF WriteInv
<1>7. Atomic!Commit
  <2>1. column' = IF head = None THEN kept
                  ELSE Atomic!Set(kept, HeadKey, head)
    BY <1>4
  <2>2. UNCHANGED <<QueuedPuts, DeletedKeys, head>>
    BY <1>1, <1>2
  <2>3. QED
    BY <2>1, <2>2 DEF Atomic!Commit
<1>8. QED
  BY <1>6, <1>7 DEF BatchStep, Atomic!BatchNext

LEMMA EmptyHolds == ASSUME NEW Ops PROVE Holds(EmptyArray, Ops)
<1>1. <<>> \in Seq(EntriesOf(Ops)) /\ Len(<<>>) = 0
  OBVIOUS
<1>2. QED
  BY <1>1 DEF Holds, EmptyArray

(* An empty batch: how one starts, and what a destroy leaves.              *)
LEMMA EmptyBatch ==
  ASSUME tree_nodes = EmptyArray, blocks = EmptyArray, deletes = EmptyArray,
         cores = EmptyArray, head = None, calls = <<>>,
         promised = NoPromises, side \in {"core", "store"},
         DOMAIN column \subseteq RecordKeys \cup {HeadKey},
         \A k \in DOMAIN column : column[k] \in Values
  PROVE  /\ WriteInv
         /\ QueuedPuts = Atomic!Nothing /\ DeletedKeys = {}
<1>1. ArraysHold
  BY EmptyHolds DEF ArraysHold
<1>2. QueuedPuts = [k \in {} |-> None]
  BY NothingLast DEF QueuedPuts, Overridden
<1>3. DeletedKeys = {}
  BY DEF DeletedKeys, Range, EmptyArray
<1>4. CallsQueued
  BY <1>2, <1>3, NothingLast DEF CallsQueued
<1>5. ReservationsHold
  BY DEF ReservationsHold, EmptyArray, NoPromises
<1>6. promised \in Promised
  BY DEF NoPromises, Promised
<1>7. calls \in Seq(CallOps)
  OBVIOUS
<1>8. QED
  BY <1>1, <1>2, <1>3, <1>4, <1>5, <1>6, <1>7 DEF WriteInv, Atomic!Nothing

LEMMA WriteDestroyKeeps ==
  ASSUME WriteInv, WriteDestroy
  PROVE  WriteInv' /\ BatchStep
<1>1. /\ side \in {"core", "store"}
      /\ DOMAIN column \subseteq RecordKeys \cup {HeadKey}
      /\ \A k \in DOMAIN column : column[k] \in Values
  BY DEF WriteInv, ArraysHold
<1>2. ArraysHold'
  BY <1>1, EmptyHolds DEF ArraysHold, WriteDestroy
<1>3. QueuedPuts' = [k \in {} |-> None]
  BY NothingLast DEF QueuedPuts, Overridden, WriteDestroy
<1>4. DeletedKeys' = {}
  BY DEF DeletedKeys, Range, EmptyArray, WriteDestroy
<1>5. CallsQueued'
  BY <1>3, <1>4, NothingLast DEF CallsQueued, WriteDestroy
<1>6. ReservationsHold'
  BY DEF ReservationsHold, EmptyArray, NoPromises, WriteDestroy
<1>7. promised' \in Promised
  BY DEF NoPromises, Promised, WriteDestroy
<1>8. calls' \in Seq(CallOps)
  BY DEF WriteDestroy
<1>9. WriteInv'
  BY <1>1, <1>2, <1>5, <1>6, <1>7, <1>8 DEF WriteInv, WriteDestroy
<1>10. Atomic!Discard
  BY <1>3, <1>4 DEF Atomic!Discard, Atomic!Nothing, WriteDestroy
<1>11. QED
  BY <1>9, <1>10 DEF BatchStep, Atomic!BatchNext

LEMMA WriteKeeps ==
  ASSUME WriteInv, WriteNext
  PROVE  WriteInv' /\ BatchStep
<1>1. CASE \E v \in Values :
             \/ \E k \in NodeKeys : WriteTreeNode(k, v)
             \/ \E k \in BlockKeys : WriteBlock(k, v)
             \/ \E k \in CoreKeys : PutCore(k, v)
             \/ WriteHead(v)
  BY <1>1, WriteTreeNodeKeeps, WriteBlockKeeps, PutCoreKeeps, WriteHeadKeeps
<1>2. CASE \E k \in NodeKeys \cup BlockKeys : Delete(k)
  BY <1>2, DeleteKeeps
<1>3. CASE GrowFails \/ FlushFails
  <2>1. UNCHANGED writeVars
    BY <1>3 DEF GrowFails, FlushFails, writeVars
  <2>2. QED
    BY <2>1, NothingChangedKeeps
<1>4. CASE \E n \in 1..MaxCalls :
             EnsureTreeNodes(n) \/ EnsureBlocks(n) \/ EnsureDeletes(n)
  <2>1. 1..MaxCalls \subseteq Nat
    OBVIOUS
  <2>2. QED
    BY <1>4, <2>1, EnsureTreeNodesKeeps, EnsureBlocksKeeps,
       EnsureDeletesKeeps
<1>5. CASE Flush
  BY <1>5, FlushKeeps
<1>6. CASE WriteDestroy
  BY <1>6, WriteDestroyKeeps
<1>7. QED
  BY <1>1, <1>2, <1>3, <1>4, <1>5, <1>6 DEF WriteNext

-----------------------------------------------------------------------------
LEMMA WriteInitInv == WriteInit => WriteInv
<1> SUFFICES ASSUME WriteInit
             PROVE  WriteInv
  OBVIOUS
<1>1. DOMAIN column = {}
  BY DEF WriteInit
<1>2. QED
  BY <1>1, EmptyBatch DEF WriteInit

LEMMA BatchInits == WriteInit => Atomic!BatchInit
<1> SUFFICES ASSUME WriteInit
             PROVE  Atomic!BatchInit
  OBVIOUS
<1>1. DOMAIN column = {} /\ column = [k \in {} |-> None]
  BY DEF WriteInit
<1>2. QED
  BY <1>1, EmptyBatch DEF WriteInit, Atomic!BatchInit, Atomic!Nothing

LEMMA WriteStep == WriteInv /\ [Next]_vars => WriteInv' /\ BatchStep
<1> SUFFICES ASSUME WriteInv, [Next]_vars
             PROVE  WriteInv' /\ BatchStep
  OBVIOUS
<1>1. CASE WriteNext
  BY <1>1, WriteKeeps
<1>2. CASE UNCHANGED writeVars
  BY <1>2, NothingChangedKeeps
<1>3. QED
  BY <1>1, <1>2 DEF Next, vars

LEMMA WriteInductive == Spec => []WriteInv
<1>1. Init => WriteInv
  BY WriteInitInv DEF Init
<1>2. WriteInv /\ [Next]_vars => WriteInv'
  BY WriteStep
<1>3. QED
  BY <1>1, <1>2, PTL DEF Spec

(* The half of TypeOK that is about the writes.                            *)
LEMMA WritesTyped ==
  ASSUME WriteInv
  PROVE  WriteTypeOK
<1> DEFINE Fits(array) ==
             /\ Len(array.items) <= array.capacity
             /\ \A i \in DOMAIN array.items :
                  /\ array.items[i].op \in Write
                  /\ array.items[i].here \in BOOLEAN
<1>1. ASSUME NEW Ops, Ops \subseteq Write, NEW array, Holds(array, Ops)
      PROVE  Fits(array)
  <2>1. /\ Len(array.items) <= array.capacity
        /\ \A i \in DOMAIN array.items :
             array.items[i] \in EntriesOf(Ops)
    BY <1>1 DEF Holds
  <2>2. \A entry \in EntriesOf(Ops) :
          entry.op \in Write /\ entry.here \in BOOLEAN
    BY <1>1 DEF EntriesOf
  <2>3. QED
    BY <2>1, <2>2
<1>2. /\ PutsTo(NodeKeys) \subseteq Write /\ PutsTo(BlockKeys) \subseteq Write
      /\ PutsTo(CoreKeys) \subseteq Write
      /\ DeletesOf(NodeKeys \cup BlockKeys) \subseteq Write
      /\ CallOps \subseteq Write
  BY DEF PutsTo, DeletesOf, CallOps, Write, RecordKeys
<1> HIDE DEF Fits
<1>3. Fits(tree_nodes) /\ Fits(blocks) /\ Fits(deletes) /\ Fits(cores)
  BY <1>1, <1>2, WriteInvParts
<1>4. calls \in Seq(Write)
  <2>1. \A S, T : S \subseteq T => Seq(S) \subseteq Seq(T)
    OBVIOUS
  <2>2. QED
    BY <1>2, <2>1, WriteInvParts
<1>5. \A array \in {tree_nodes, blocks, deletes, cores} : Fits(array)
  BY <1>3
<1>6. QED
  BY <1>4, <1>5 DEF Fits, WriteTypeOK, WriteInv, ArraysHold

(* A flush does all the puts of a batch and then its deletes: but for the  *)
(* records that are put after their delete, which end deleted, that is     *)
(* what the calls would have done one by one (hc__db_core_write_flush,     *)
(* hc__db_store_write_flush).                                              *)
THEOREM OrderAlwaysKept == Spec => []OrderKept
<1>1. WriteInv => OrderKept
  BY WritesAreCalls
<1>2. QED
  BY <1>1, WriteInductive, PTL

(* A write that room was made for does not fail, whatever else is queued   *)
(* meanwhile (hc__db_core_write_ensure_tree_nodes and its like).           *)
THEOREM ReservationsKept == Spec => []ReservationsHold
<1>1. WriteInv => ReservationsHold
  BY DEF WriteInv
<1>2. QED
  BY <1>1, WriteInductive, PTL

(* The batch takes effect all at once or not at all, whatever its arrays   *)
(* do meanwhile: its states and steps are those of AtomicBatch.            *)
THEOREM BatchIsAtomic == Spec => ImplementsAtomicBatch
<1>1. Init => Atomic!BatchInit
  BY BatchInits DEF Init
<1>2. WriteInv /\ [Next]_vars => [Atomic!BatchNext]_Atomic!batchVars
  BY WriteStep DEF BatchStep
<1>3. QED
  BY <1>1, <1>2, WriteInductive, PTL
     DEF Spec, ImplementsAtomicBatch, Atomic!BatchSpec

-----------------------------------------------------------------------------
(* The reads: what ReadInv says of the entries, one by one.                *)
Results == Before \cup {"partial"} \cup RecordKeys \cup {HeadKey}
Owners == {"none", "rocksdb", "freed", "caller"}

LEMMA ReadFacts ==
  ASSUME ReadInv
  PROVE  /\ Len(reads.items) \in Nat
         /\ DOMAIN reads.items = 1..Len(reads.items)
         /\ DOMAIN results = 1..Len(reads.items)
         /\ DOMAIN buffers = 1..Len(reads.items)
         /\ results \in Seq(Results) /\ buffers \in Seq(Owners)
         /\ Holds(reads, ReadOp)
         /\ next \in Nat /\ next >= 1 /\ next <= Len(reads.items) + 1
         /\ \A i \in DOMAIN reads.items :
              /\ OpAt(i).type \in {"tree_node", "block", "head", "core"}
              /\ OpAt(i).key \in RecordKeys \cup {HeadKey}
<1>1. Holds(reads, ReadOp)
  BY DEF ReadInv, ReadType
<1>2. /\ reads.items \in Seq(EntriesOf(ReadOp)) /\ Len(reads.items) \in Nat
      /\ DOMAIN reads.items = 1..Len(reads.items)
  BY <1>1 DEF Holds
<1>3. \A entry \in EntriesOf(ReadOp) :
        /\ entry.op.type \in {"tree_node", "block", "head", "core"}
        /\ entry.op.key \in RecordKeys \cup {HeadKey}
  BY DEF EntriesOf, ReadOp
<1>4. \A i \in DOMAIN reads.items : reads.items[i] \in EntriesOf(ReadOp)
  BY <1>2
<1>5. \A i \in DOMAIN reads.items :
        /\ OpAt(i).type \in {"tree_node", "block", "head", "core"}
        /\ OpAt(i).key \in RecordKeys \cup {HeadKey}
  BY <1>3, <1>4 DEF OpAt
<1>6. /\ results \in Seq(Results) /\ buffers \in Seq(Owners)
      /\ Len(results) = Len(reads.items) /\ Len(buffers) = Len(reads.items)
      /\ next \in 1..Len(reads.items) + 1
  BY DEF ReadInv, ReadType, Results, Owners
<1>7. /\ DOMAIN results = 1..Len(reads.items)
      /\ DOMAIN buffers = 1..Len(reads.items)
  BY <1>6
<1>8. next \in Nat /\ next >= 1 /\ next <= Len(reads.items) + 1
  BY <1>2, <1>6
<1>9. QED
  BY <1>1, <1>2, <1>5, <1>6, <1>7, <1>8

(* What rocksdb answered has an entry for each read.                       *)
LEMMA ReadingFacts ==
  ASSUME Reading
  PROVE  /\ DOMAIN found.entries = DOMAIN reads.items
         /\ found.failed \in BOOLEAN
         /\ \A i \in DOMAIN reads.items :
              /\ found.entries[i].value \in BOOLEAN
              /\ found.entries[i].error \in BOOLEAN
              /\ found.entries[i].value => Present(OpAt(i).key)
              /\ Present(OpAt(i).key) /\ ~found.failed =>
                   found.entries[i].value \/ found.entries[i].error
BY DEF Reading, Answers, Answer

-----------------------------------------------------------------------------
(* What the invariant says of a flush that has returned, and before.       *)
LEMMA FlushAnswersHolds == ReadInv => FlushAnswers
<1> SUFFICES ASSUME ReadInv, pc = "flushed", err = "ok"
             PROVE  /\ ~found.failed
                    /\ \A i \in DOMAIN found.entries :
                         ~found.entries[i].error
                    /\ \A i \in DOMAIN results :
                         LET k == OpAt(i).key IN
                         /\ ~Present(k) => results[i] \in Before
                         /\ Present(k) /\ (Decodes(k) \/
                                           OpAt(i).type = "block") =>
                              results[i] = k
                         /\ Present(k) /\ ~Decodes(k) /\
                             OpAt(i).type # "block" =>
                              results[i] = IF OpAt(i).type = "core"
                                           THEN "not_found" ELSE "partial"
  BY DEF FlushAnswers
<1>1. CASE found = NotRead /\ reads.items = <<>>
  <2>1. DOMAIN results = {}
    BY <1>1, ReadFacts
  <2>2. DOMAIN found.entries = {} /\ ~found.failed
    BY <1>1 DEF NotRead
  <2>3. QED
    BY <2>1, <2>2
<1>2. CASE Reading /\ next = Len(reads.items) + 1
  <2>1. NoErrorUpTo(Len(reads.items))
    <3>1. next - 1 = Len(reads.items)
      BY <1>2, ReadFacts
    <3>2. QED
      BY <1>2, <3>1 DEF Reading
  <2>2. ~found.failed /\ \A i \in DOMAIN reads.items : ~found.entries[i].error
    BY <2>1, ReadFacts DEF NoErrorUpTo
  <2>3. \A i \in DOMAIN found.entries : ~found.entries[i].error
    BY <1>2, <2>2, ReadingFacts
  <2>4. ASSUME NEW i \in DOMAIN results
        PROVE  LET k == OpAt(i).key IN
               /\ ~Present(k) => results[i] \in Before
               /\ Present(k) /\ (Decodes(k) \/ OpAt(i).type = "block") =>
                    results[i] = k
               /\ Present(k) /\ ~Decodes(k) /\ OpAt(i).type # "block" =>
                    results[i] = IF OpAt(i).type = "core"
                                 THEN "not_found" ELSE "partial"
    <3> DEFINE k == OpAt(i).key
               type == OpAt(i).type
    <3>1. /\ i \in DOMAIN reads.items /\ i \in 1..next - 1
          /\ type \in {"tree_node", "block", "head", "core"}
      BY <1>2, ReadFacts
    <3>2. Passed(i) /\ NoErrorUpTo(i)
      BY <2>1, <3>1, ReadFacts DEF ReadInv, NoErrorUpTo
    <3>3. found.entries[i].value <=> Present(k)
      BY <1>2, <2>2, <3>1, ReadingFacts
    <3>4. \/ Present(k) /\ Answered(i)
          \/ ~Present(k) /\ Untouched(i)
      BY <3>2, <3>3 DEF Passed
    <3>5. /\ Answered(i) => /\ type = "block" => results[i] = k
                            /\ type = "core" => results[i] =
                                 IF Decodes(k) THEN k ELSE "not_found"
                            /\ type \in {"tree_node", "head"} =>
                                 results[i] = IF Decodes(k) THEN k
                                              ELSE "partial"
          /\ Untouched(i) => results[i] \in Before
      BY DEF Answered, Untouched, Decoded
    <3> HIDE DEF k, type
    <3>6. /\ ~Present(k) => results[i] \in Before
          /\ Present(k) /\ (Decodes(k) \/ type = "block") => results[i] = k
          /\ Present(k) /\ ~Decodes(k) /\ type # "block" =>
               results[i] = IF type = "core" THEN "not_found" ELSE "partial"
      BY <3>1, <3>4, <3>5
    <3>7. QED
      BY <3>6 DEF k, type
  <2>5. QED
    BY <2>2, <2>3, <2>4
<1>3. QED
  BY <1>1, <1>2 DEF ReadInv

LEMMA NotPassedNotWritten ==
  ASSUME ReadInv, NEW i \in DOMAIN results, results[i] \notin Before
  PROVE  /\ i < next /\ found.entries[i].value
         /\ NoErrorUpTo(i) /\ Answered(i)
<1>1. i \in 1..next - 1 \/ i \in next..Len(reads.items)
  BY ReadFacts
<1>2. i \in 1..next - 1
  BY <1>1 DEF ReadInv, Ahead, Untouched
<1>3. Passed(i) /\ ~Untouched(i)
  BY <1>2 DEF ReadInv, Untouched
<1>4. i < next
  BY <1>2, ReadFacts
<1>5. QED
  BY <1>3, <1>4 DEF Passed

LEMMA ErrorStopsHolds == ReadInv => ErrorStopsResults
BY NotPassedNotWritten DEF ErrorStopsResults, NoErrorUpTo

(* The invariant says of which entries rocksdb answered: of those that the *)
(* loop has passed, at least.                                              *)
LEMMA PassedRead ==
  ASSUME ReadInv, NEW i \in 1..next - 1
  PROVE  Reading /\ i \in DOMAIN reads.items /\ Passed(i)
<1>1. next # 1
  BY ReadFacts
<1>2. Reading /\ Passed(i)
  BY <1>1 DEF ReadInv
<1>3. QED
  BY <1>2, ReadFacts

LEMMA BuffersOwnedHolds == ReadInv => BuffersOwned
<1> SUFFICES ASSUME ReadInv, NEW i \in DOMAIN buffers
             PROVE  /\ buffers[i] = "rocksdb" => pc = "loop" /\ i >= next
                    /\ buffers[i] = "caller" <=>
                         /\ OpAt(i).type = "block"
                         /\ results[i] = OpAt(i).key
  BY DEF BuffersOwned
<1>1. /\ i \in DOMAIN results /\ i \in DOMAIN reads.items
      /\ OpAt(i).key \notin Before
      /\ i \in 1..next - 1 \/ i \in next..Len(reads.items)
  BY ReadFacts, ResultsAssumption
<1>2. CASE i \in 1..next - 1
  <2>1. Passed(i)
    BY <1>2 DEF ReadInv
  <2>2. CASE Answered(i)
    BY <2>2, <1>1, ReadFacts DEF Answered
  <2>3. CASE Untouched(i) /\ buffers[i] \in {"none", "freed"}
    BY <1>1, <2>3 DEF Untouched
  <2>4. QED
    BY <2>1, <2>2, <2>3 DEF Passed
<1>3. CASE i \in next..Len(reads.items)
  <2>1. Ahead(i) /\ i >= next
    BY <1>3, ReadFacts DEF ReadInv
  <2>2. results[i] # OpAt(i).key /\ buffers[i] \in {"rocksdb", "none"}
    BY <1>1, <2>1 DEF Ahead, Untouched
  <2>3. ASSUME buffers[i] = "rocksdb"
        PROVE  pc = "loop"
    <3>1. i \in DOMAIN found.entries
      BY <2>1, <2>3 DEF Ahead
    <3>2. found # NotRead
      BY <3>1 DEF NotRead
    <3>3. next # Len(reads.items) + 1
      BY <1>3, ReadFacts
    <3>4. QED
      BY <3>2, <3>3 DEF ReadInv
  <2>4. QED
    BY <2>1, <2>2, <2>3
<1>4. QED
  BY <1>1, <1>2, <1>3

LEMMA FoundMeansRecordHolds == ReadInv => FoundMeansRecord
<1> SUFFICES ASSUME ReadInv, NEW i \in DOMAIN results,
                    OpAt(i).type = "core", results[i] # "not_found"
             PROVE  /\ results[i] = OpAt(i).key
                    /\ Present(OpAt(i).key) /\ Decodes(OpAt(i).key)
  BY DEF FoundMeansRecord
<1>1. i \in 1..next - 1 \/ i \in next..Len(reads.items)
  BY ReadFacts
<1>2. i \in 1..next - 1
  BY <1>1 DEF ReadInv, Ahead, Untouched
<1>3. Reading /\ i \in DOMAIN reads.items /\ Passed(i)
  BY <1>2, PassedRead
<1>4. found.entries[i].value /\ Answered(i)
  BY <1>3 DEF Passed, Untouched
<1>5. Present(OpAt(i).key)
  BY <1>3, <1>4, ReadingFacts
<1>6. QED
  BY <1>4, <1>5 DEF Answered

-----------------------------------------------------------------------------
(* Each operation of a read batch keeps the invariant.                     *)
LEMMA GetKeeps ==
  ASSUME ReadInv, NEW whose,
         NEW type \in {"tree_node", "block", "head", "core"},
         NEW k \in RecordKeys \cup {HeadKey}, NEW before \in Before,
         type = "core" => before = "not_found",
         GetInto(whose, type, k, before)
  PROVE  ReadInv'
<1> DEFINE op == ReadOf(type, k)
           n == Len(reads.items)
<1>1. op \in ReadOp /\ op.type = type
  BY DEF ReadOp, ReadOf
<1>2. /\ pc = "queue" /\ found = NotRead /\ next = 1 /\ err = "ok"
      /\ reads' \in Queued(reads, op)
      /\ results' = Append(results, before)
      /\ buffers' = Append(buffers, "none")
      /\ UNCHANGED <<found, next, err, pc>>
  BY DEF GetInto, ReadInv
<1>3. /\ n \in Nat /\ DOMAIN results = 1..n /\ DOMAIN buffers = 1..n
      /\ DOMAIN reads.items = 1..n
      /\ results \in Seq(Results) /\ buffers \in Seq(Owners)
      /\ Holds(reads, ReadOp)
  BY ReadFacts
<1> HIDE DEF op, n
<1>4. /\ Holds(reads', ReadOp) /\ Len(reads'.items) = n + 1
      /\ \A i \in 1..n : reads'.items[i].op = reads.items[i].op
      /\ reads'.items[n + 1].op = op
  BY <1>1, <1>2, <1>3, QueuedHolds DEF n
<1>5. /\ results' \in Seq(Results) /\ Len(results') = n + 1
      /\ \A i \in 1..n : results'[i] = results[i]
      /\ results'[n + 1] = before
  BY <1>2, <1>3 DEF Results
<1>6. /\ buffers' \in Seq(Owners) /\ Len(buffers') = n + 1
      /\ \A i \in 1..n : buffers'[i] = buffers[i]
      /\ buffers'[n + 1] = "none"
  BY <1>2, <1>3 DEF Owners
<1>7. ReadType'
  <2>1. 1 \in 1..n + 2
    BY <1>3
  <2>2. QED
    BY <1>2, <1>3, <1>4, <1>5, <1>6, <2>1 DEF ReadType, Results, Owners
<1>8. ASSUME NEW i \in 1..n + 1
      PROVE  Ahead(i)'
  <2>1. i \notin DOMAIN found.entries
    BY <1>2 DEF NotRead
  <2>2. CASE i \in 1..n
    <3>1. Ahead(i)
      BY <1>2, <2>2, ReadFacts DEF ReadInv, n
    <3>2. QED
      BY <1>2, <1>4, <1>5, <1>6, <2>1, <2>2, <3>1
         DEF Ahead, Untouched, OpAt
  <2>3. CASE i = n + 1
    BY <1>1, <1>2, <1>4, <1>5, <1>6, <2>1, <2>3
       DEF Ahead, Untouched, OpAt
  <2>4. QED
    BY <1>3, <2>2, <2>3
<1>9. \A i \in next'..Len(reads'.items) : Ahead(i)'
  BY <1>2, <1>4, <1>8
<1>10. \A i \in 1..next' - 1 : Passed(i)'
  BY <1>2
<1>11. QED
  BY <1>2, <1>7, <1>9, <1>10 DEF ReadInv

LEMMA EnsureReadsKeeps ==
  ASSUME ReadInv, NEW m \in Nat, EnsureReads(m)
  PROVE  ReadInv'
<1> DEFINE n == Len(reads.items)
<1>1. /\ pc = "queue" /\ found = NotRead /\ next = 1 /\ err = "ok"
      /\ reads' \in Grown(reads, n + m)
      /\ UNCHANGED <<results, found, buffers, next, err, pc>>
  BY DEF EnsureReads, ReadInv
<1>2. n \in Nat /\ n + m \in Nat /\ Holds(reads, ReadOp) /\
      DOMAIN reads.items = 1..n
  BY ReadFacts
<1> HIDE DEF n
<1>3. /\ Holds(reads', ReadOp) /\ Len(reads'.items) = n
      /\ \A i \in 1..n : reads'.items[i].op = reads.items[i].op
  BY <1>1, <1>2, GrownHolds DEF n
<1>4. ReadType'
  BY <1>1, <1>3 DEF ReadInv, ReadType, n
<1>5. \A i \in 1..n : Ahead(i)'
  <2>1. \A i \in 1..n : Ahead(i)
    BY <1>1 DEF ReadInv, n
  <2>2. QED
    BY <1>1, <1>3, <2>1 DEF Ahead, Untouched, OpAt
<1>6. \A i \in 1..next' - 1 : Passed(i)'
  BY <1>1
<1>7. QED
  BY <1>1, <1>3, <1>4, <1>5, <1>6 DEF ReadInv

LEMMA FlushNothingKeeps ==
  ASSUME ReadInv, FlushNothing
  PROVE  ReadInv'
<1>1. /\ pc = "queue" /\ found = NotRead /\ next = 1
      /\ err' = IF reads.items = <<>> THEN "ok" ELSE "error"
      /\ pc' = "flushed"
      /\ UNCHANGED <<reads, results, found, buffers, next>>
  BY DEF FlushNothing, ReadInv
<1>2. ReadType'
  BY <1>1 DEF ReadInv, ReadType
<1>3. \A i \in next'..Len(reads'.items) : Ahead(i)'
  BY <1>1 DEF ReadInv, Ahead, Untouched, OpAt
<1>4. \A i \in 1..next' - 1 : Passed(i)'
  BY <1>1
<1>5. QED
  BY <1>1, <1>2, <1>3, <1>4 DEF ReadInv

LEMMA FlushReadsKeeps ==
  ASSUME ReadInv, FlushReads, UNCHANGED column
  PROVE  ReadInv'
<1> DEFINE n == Len(reads.items)
<1>1. PICK failed \in BOOLEAN,
           entries \in [DOMAIN reads.items -> Answer] :
        /\ \A i \in DOMAIN entries :
             entries[i] \in Answers(KeySlice(reads.items[i]), failed)
        /\ found' = [failed |-> failed, entries |-> entries]
        /\ err' = IF failed THEN "error" ELSE "ok"
        /\ buffers' = [i \in DOMAIN entries |->
                         IF entries[i].value THEN "rocksdb" ELSE "none"]
  BY DEF FlushReads
<1>2. /\ pc = "queue" /\ found = NotRead /\ next = 1 /\ pc' = "loop"
      /\ UNCHANGED <<reads, results, next>>
  BY DEF FlushReads, ReadInv
<1>3. /\ n \in Nat /\ DOMAIN reads.items = 1..n /\ DOMAIN results = 1..n
  BY ReadFacts
<1>4. \A i \in 1..n : KeySlice(reads.items[i]) = OpAt(i).key
  BY DEF KeySlice, OpAt
<1> HIDE DEF n, Answer
<1>5. /\ DOMAIN entries = 1..n
      /\ found'.failed = failed /\ found'.entries = entries
  BY <1>1, <1>3
<1>6. /\ buffers' \in Seq(Owners) /\ Len(buffers') = n
      /\ \A i \in 1..n :
           buffers'[i] = IF entries[i].value THEN "rocksdb" ELSE "none"
  <2>1. buffers' \in [1..n -> Owners]
    BY <1>1, <1>5 DEF Owners
  <2>2. QED
    BY <1>1, <1>3, <1>5, <2>1
<1>7. ReadType'
  BY <1>1, <1>2, <1>6 DEF ReadInv, ReadType, Owners, n
<1>8. Reading'
  <2>1. found' \in [failed : BOOLEAN, entries : [DOMAIN reads.items -> Answer]]
    BY <1>1
  <2>2. \A i \in DOMAIN reads.items :
          entries[i] \in Answers(OpAt(i).key, failed)
    BY <1>1, <1>3, <1>4, <1>5
  <2>3. err' = "ok" <=> NoErrorUpTo(next - 1)'
    BY <1>1, <1>2, <1>5 DEF NoErrorUpTo
  <2>4. \A i : OpAt(i)' = OpAt(i)
    BY <1>2 DEF OpAt
  <2>5. \A k : Answers(k, failed)' = Answers(k, failed)
    BY DEF Answers, Answer, Present
  <2>6. QED
    BY <1>2, <1>5, <2>1, <2>2, <2>3, <2>4, <2>5 DEF Reading, Answer
<1>9. \A i \in 1..n : Ahead(i)'
  <2>1. \A i \in 1..n : Ahead(i)
    BY <1>2 DEF ReadInv, n
  <2>2. QED
    BY <1>2, <1>5, <1>6, <2>1 DEF Ahead, Untouched, OpAt
<1>10. \A i \in 1..next' - 1 : Passed(i)'
  BY <1>2
<1>11. QED
  BY <1>2, <1>7, <1>8, <1>9, <1>10 DEF ReadInv, n

-----------------------------------------------------------------------------
(* The loop: an iteration answers the entry that it looks at, and leaves   *)
(* the others.                                                             *)
Answering(i, shown, owner) ==
  LET k == OpAt(i).key IN
  /\ OpAt(i).type = "block" => shown = k /\ owner = "caller"
  /\ OpAt(i).type # "block" => owner = "freed"
  /\ OpAt(i).type = "core" => shown = IF Decodes(k) THEN k ELSE "not_found"
  /\ OpAt(i).type \in {"tree_node", "head"} => shown = Decoded(k)

LeftAlone(i, shown, owner) ==
  /\ shown \in Before
  /\ OpAt(i).type = "core" => shown = "not_found"
  /\ owner \in {"none", "freed"}

LEMMA IteratedKeeps ==
  ASSUME ReadInv, UNCHANGED column, InLoop,
         NEW shown \in Results, NEW owner \in Owners,
         Iterated(shown, owner),
         IF This.value /\ ErrNow = "ok"
         THEN Answering(next, shown, owner)
         ELSE LeftAlone(next, shown, owner)
  PROVE  ReadInv'
<1> DEFINE n == Len(reads.items)
<1>1. /\ results' = [results EXCEPT ![next] = shown]
      /\ buffers' = [buffers EXCEPT ![next] = owner]
      /\ err' = ErrNow /\ next' = next + 1
      /\ UNCHANGED <<reads, found, pc>>
  BY DEF Iterated
<1>2. /\ n \in Nat /\ DOMAIN reads.items = 1..n
      /\ DOMAIN results = 1..n /\ DOMAIN buffers = 1..n
      /\ results \in Seq(Results) /\ buffers \in Seq(Owners)
      /\ next \in Nat /\ next >= 1 /\ next <= n
  BY ReadFacts DEF InLoop
<1>3. Reading /\ pc = "loop"
  BY DEF ReadInv, InLoop
<1> HIDE DEF n
<1>4. next \in 1..n /\ next' \in 1..n + 1
  BY <1>1, <1>2
<1>5. /\ results' \in Seq(Results) /\ Len(results') = n
      /\ results'[next] = shown
      /\ \A i \in 1..n : i # next => results'[i] = results[i]
  BY <1>1, <1>2, <1>4
<1>6. /\ buffers' \in Seq(Owners) /\ Len(buffers') = n
      /\ buffers'[next] = owner
      /\ \A i \in 1..n : i # next => buffers'[i] = buffers[i]
  BY <1>1, <1>2, <1>4
<1>7. NoErrorUpTo(next) <=> ErrNow = "ok"
  <2>1. err = "ok" <=> NoErrorUpTo(next - 1)
    BY <1>3 DEF Reading
  <2>2. 1..next = (1..next - 1) \cup {next}
    BY <1>2
  <2>3. NoErrorUpTo(next) <=>
          NoErrorUpTo(next - 1) /\ ~found.entries[next].error
    BY <2>2 DEF NoErrorUpTo
  <2>4. found.entries[next].error \in BOOLEAN
    BY <1>2, <1>3, <1>4, ReadingFacts
  <2>5. QED
    BY <2>1, <2>3, <2>4 DEF ErrNow, This
<1>8. ReadType'
  <2>1. err' \in {"ok", "error"}
    BY <1>1 DEF ErrNow, ReadInv, ReadType
  <2>2. QED
    BY <1>1, <1>2, <1>4, <1>5, <1>6, <2>1
       DEF ReadInv, ReadType, Results, Owners, n
<1>9. /\ \A i : OpAt(i)' = OpAt(i)
      /\ \A i : NoErrorUpTo(i)' <=> NoErrorUpTo(i)
      /\ \A k : Decodes(k)' <=> Decodes(k)
      /\ \A k : Decoded(k)' = Decoded(k)
      /\ \A k, failed : Answers(k, failed)' = Answers(k, failed)
  BY <1>1 DEF OpAt, NoErrorUpTo, Decodes, Decoded, Answers, Present
<1>10. Reading'
  <2>1. next' - 1 = next
    BY <1>1, <1>2
  <2>2. err' = "ok" <=> NoErrorUpTo(next)
    BY <1>1, <1>7
  <2>3. err' = "ok" <=> NoErrorUpTo(next - 1)'
    BY <1>1, <2>1, <2>2 DEF NoErrorUpTo
  <2>4. QED
    BY <1>1, <1>3, <1>9, <2>3 DEF Reading
<1>11. ASSUME NEW i \in 1..next' - 1
       PROVE  Passed(i)'
  <2>1. CASE i = next
    <3>1. \/ /\ found.entries[i].value /\ NoErrorUpTo(i)
             /\ Answering(i, results'[i], buffers'[i])
          \/ /\ ~(found.entries[i].value /\ NoErrorUpTo(i))
             /\ LeftAlone(i, results'[i], buffers'[i])
      BY <1>5, <1>6, <1>7, <2>1 DEF This
    <3>2. Answering(i, results'[i], buffers'[i]) => Answered(i)'
      BY <1>9 DEF Answering, Answered
    <3>3. LeftAlone(i, results'[i], buffers'[i]) =>
            Untouched(i)' /\ buffers'[i] \in {"none", "freed"}
      BY <1>9 DEF LeftAlone, Untouched
    <3>4. QED
      BY <1>1, <1>9, <3>1, <3>2, <3>3 DEF Passed
  <2>2. CASE i # next
    <3>1. i \in 1..next - 1 /\ i \in 1..n
      BY <1>1, <1>2, <2>2
    <3>2. Passed(i) /\ results'[i] = results[i] /\ buffers'[i] = buffers[i]
      BY <1>5, <1>6, <2>2, <3>1 DEF ReadInv
    <3>3. (Answered(i)' <=> Answered(i)) /\ (Untouched(i)' <=> Untouched(i))
      BY <1>9, <3>2 DEF Answered, Untouched
    <3>4. QED
      BY <1>1, <1>9, <3>2, <3>3 DEF Passed
  <2>3. QED
    BY <2>1, <2>2
<1>12. ASSUME NEW i \in next'..n
       PROVE  Ahead(i)'
  <2>1. i \in next..n /\ i \in 1..n /\ i # next
    BY <1>1, <1>2
  <2>2. Ahead(i) /\ results'[i] = results[i] /\ buffers'[i] = buffers[i]
    BY <1>5, <1>6, <2>1 DEF ReadInv, n
  <2>3. QED
    BY <1>1, <1>9, <2>2 DEF Ahead, Untouched
<1>13. QED
  BY <1>1, <1>3, <1>8, <1>10, <1>11, <1>12 DEF ReadInv, n

(* The entry that the loop looks at has been left alone so far.            *)
LEMMA LooksAt ==
  ASSUME ReadInv, InLoop
  PROVE  /\ next \in DOMAIN reads.items
         /\ Untouched(next) /\ results[next] \in Results
         /\ Op = OpAt(next)
         /\ OpAt(next).key \in RecordKeys \cup {HeadKey}
<1>1. next \in DOMAIN reads.items /\ next \in DOMAIN results
  BY ReadFacts DEF InLoop
<1>2. Ahead(next)
  BY <1>1, ReadFacts DEF ReadInv, InLoop
<1>3. results[next] \in Results
  BY <1>1, ReadFacts
<1>4. QED
  BY <1>1, <1>2, <1>3, ReadFacts DEF Ahead, Op, OpAt

LEMMA LoopKeeps ==
  ASSUME ReadInv, UNCHANGED column,
         \/ NoValue \/ DropAfterError
         \/ TakeTreeNode \/ TakeBlock \/ TakeHead \/ TakeCore
  PROVE  ReadInv'
<1> DEFINE k == OpAt(next).key
<1>1. InLoop
  BY DEF NoValue, DropAfterError, TakeTreeNode, TakeBlock, TakeHead,
         TakeCore, Take
<1>2. /\ Untouched(next) /\ results[next] \in Results
      /\ Op = OpAt(next) /\ k \in RecordKeys \cup {HeadKey}
  BY <1>1, LooksAt
<1>3. /\ {"none", "freed", "caller"} \subseteq Owners
      /\ RecordKeys \cup {HeadKey} \cup {"partial", "not_found"}
           \subseteq Results
  BY DEF Owners, Results, Before
<1>4. CASE NoValue \/ DropAfterError
  <2>1. PICK owner \in {"none", "freed"} : Iterated(results[next], owner)
    BY <1>4 DEF NoValue, DropAfterError
  <2>2. ~(This.value /\ ErrNow = "ok")
    BY <1>4 DEF NoValue, DropAfterError
  <2>3. LeftAlone(next, results[next], owner)
    BY <1>2 DEF LeftAlone, Untouched
  <2>4. owner \in Owners
    BY <1>3
  <2>5. QED
    BY <1>1, <1>2, <2>1, <2>2, <2>3, <2>4, IteratedKeeps
<1>5. CASE TakeTreeNode \/ TakeHead
  <2>1. /\ This.value /\ ErrNow = "ok"
        /\ OpAt(next).type \in {"tree_node", "head"}
        /\ Iterated(Decoded(k), "freed")
    BY <1>2, <1>5 DEF TakeTreeNode, TakeHead, Take
  <2>2. Answering(next, Decoded(k), "freed")
    BY <2>1 DEF Answering
  <2>3. Decoded(k) \in Results /\ "freed" \in Owners
    BY <1>2, <1>3 DEF Decoded
  <2>4. QED
    BY <1>1, <2>1, <2>2, <2>3, IteratedKeeps
<1>6. CASE TakeBlock
  <2>1. /\ This.value /\ ErrNow = "ok"
        /\ OpAt(next).type = "block" /\ Iterated(k, "caller")
    BY <1>2, <1>6 DEF TakeBlock, Take
  <2>2. Answering(next, k, "caller")
    BY <2>1 DEF Answering
  <2>3. k \in Results /\ "caller" \in Owners
    BY <1>2, <1>3
  <2>4. QED
    BY <1>1, <2>1, <2>2, <2>3, IteratedKeeps
<1>7. CASE TakeCore
  <2> DEFINE shown == IF Decodes(k) THEN k ELSE results[next]
  <2>1. /\ This.value /\ ErrNow = "ok"
        /\ OpAt(next).type = "core" /\ Iterated(shown, "freed")
    BY <1>2, <1>7 DEF TakeCore, Take
  <2>2. results[next] = "not_found"
    BY <1>2, <2>1 DEF Untouched
  <2>3. Answering(next, shown, "freed")
    BY <2>1, <2>2 DEF Answering
  <2>4. shown \in Results /\ "freed" \in Owners
    BY <1>2, <1>3, <2>2
  <2>5. QED
    BY <1>1, <2>1, <2>3, <2>4, IteratedKeeps
<1>8. QED
  BY <1>4, <1>5, <1>6, <1>7

LEMMA FlushReturnsKeeps ==
  ASSUME ReadInv, UNCHANGED column, FlushReturns
  PROVE  ReadInv'
<1>1. /\ pc = "loop" /\ pc' = "flushed" /\ next = Len(reads.items) + 1
      /\ UNCHANGED <<reads, results, found, buffers, next, err>>
  BY ReadFacts DEF FlushReturns
<1>2. Reading /\ ReadType'
  BY <1>1 DEF ReadInv, ReadType
<1>3. Reading'
  BY <1>1, <1>2 DEF Reading, NoErrorUpTo, Answers, Present, OpAt
<1>4. /\ \A i \in 1..next' - 1 : Passed(i)'
      /\ \A i \in next'..Len(reads'.items) : Ahead(i)'
  <2>1. \A i : /\ Passed(i)' <=> Passed(i)
               /\ Ahead(i)' <=> Ahead(i)
    BY <1>1 DEF Passed, Ahead, Answered, Untouched, NoErrorUpTo, OpAt,
                Decoded, Decodes
  <2>2. QED
    BY <1>1, <2>1 DEF ReadInv
<1>5. QED
  BY <1>1, <1>2, <1>3, <1>4 DEF ReadInv

(* An empty read batch.                                                    *)
LEMMA ReadDestroyKeeps == ReadDestroy => ReadInv'
<1> SUFFICES ASSUME ReadDestroy
             PROVE  ReadInv'
  OBVIOUS
<1>1. /\ reads' = EmptyArray /\ results' = <<>> /\ found' = NotRead
      /\ buffers' = <<>> /\ next' = 1 /\ err' = "ok" /\ pc' = "queue"
  BY DEF ReadDestroy
<1>2. reads'.items = <<>> /\ Holds(reads', ReadOp)
  BY <1>1, EmptyHolds DEF EmptyArray
<1>3. ReadType'
  BY <1>1, <1>2 DEF ReadType
<1>4. QED
  BY <1>1, <1>2, <1>3 DEF ReadInv

LEMMA ReadInitInv == ReadInit => ReadInv
<1> SUFFICES ASSUME ReadInit
             PROVE  ReadInv
  OBVIOUS
<1>1. reads.items = <<>> /\ Holds(reads, ReadOp)
  BY EmptyHolds DEF EmptyArray, ReadInit
<1>2. ReadType
  BY <1>1 DEF ReadType, ReadInit
<1>3. QED
  BY <1>1, <1>2 DEF ReadInv, ReadInit

LEMMA ReadKeeps ==
  ASSUME ReadInv, ReadNext, UNCHANGED column
  PROVE  ReadInv'
<1>1. CASE GetTreeNode \/ GetBlock \/ GetHead \/ GetCore
  <2>1. PICK whose \in {"core", "store"},
             type \in {"tree_node", "block", "head", "core"},
             k \in RecordKeys \cup {HeadKey}, before \in Before :
          /\ type = "core" => before = "not_found"
          /\ GetInto(whose, type, k, before)
    BY <1>1 DEF GetTreeNode, GetBlock, GetHead, GetCore, RecordKeys, Before,
                Left
  <2>2. QED
    BY <2>1, GetKeeps
<1>2. CASE \E n \in 1..MaxReads : EnsureReads(n)
  <2>1. 1..MaxReads \subseteq Nat
    OBVIOUS
  <2>2. QED
    BY <1>2, <2>1, EnsureReadsKeeps
<1>3. CASE FlushNothing \/ FlushReads
  BY <1>3, FlushNothingKeeps, FlushReadsKeeps
<1>4. CASE \/ NoValue \/ DropAfterError
           \/ TakeTreeNode \/ TakeBlock \/ TakeHead \/ TakeCore
  BY <1>4, LoopKeeps
<1>5. CASE FlushReturns \/ ReadDestroy
  BY <1>5, FlushReturnsKeeps, ReadDestroyKeeps
<1>6. QED
  BY <1>1, <1>2, <1>3, <1>4, <1>5 DEF ReadNext

(* Writes happen only while no reads are queued: none of them is answered  *)
(* from a column that has changed meanwhile.                               *)
LEMMA WritesBetweenReads ==
  ASSUME ReadInv, NothingToRead, UNCHANGED readVars
  PROVE  ReadInv'
<1>1. /\ pc = "queue" /\ found = NotRead /\ next = 1 /\ err = "ok"
      /\ reads.items = <<>>
      /\ UNCHANGED <<reads, results, found, buffers, next, err, pc>>
  BY DEF ReadInv, NothingToRead, readVars, EmptyArray
<1>2. ReadType'
  BY <1>1 DEF ReadInv, ReadType
<1>3. QED
  BY <1>1, <1>2 DEF ReadInv

LEMMA ReadInductive == Spec => []ReadInv
<1>1. Init => ReadInv
  BY ReadInitInv DEF Init
<1>2. ReadInv /\ [Next]_vars => ReadInv'
  <2> SUFFICES ASSUME ReadInv, [Next]_vars
               PROVE  ReadInv'
    OBVIOUS
  <2>1. CASE NothingToRead /\ WriteNext /\ UNCHANGED readVars
    BY <2>1, WritesBetweenReads
  <2>2. CASE ReadNext /\ UNCHANGED writeVars
    BY <2>2, ReadKeeps DEF writeVars
  <2>3. CASE UNCHANGED vars
    <3>1. UNCHANGED <<column, reads, results, found, buffers, next, err, pc>>
      BY <2>3 DEF vars, writeVars, readVars
    <3>2. \A i : /\ Passed(i)' <=> Passed(i)
                 /\ Ahead(i)' <=> Ahead(i)
      BY <3>1 DEF Passed, Ahead, Answered, Untouched, NoErrorUpTo, OpAt,
                  Decoded, Decodes
    <3>3. (Reading' <=> Reading) /\ (ReadType' <=> ReadType)
      BY <3>1 DEF Reading, ReadType, NoErrorUpTo, Answers, Present, OpAt
    <3>4. QED
      BY <3>1, <3>2, <3>3 DEF ReadInv
  <2>4. QED
    BY <2>1, <2>2, <2>3 DEF Next
<1>3. QED
  BY <1>1, <1>2, PTL DEF Spec

(* Whatever is queued, in arrays that grow and move and may fail to, and   *)
(* whatever is read: every array holds what it has room for, every variable*)
(* has its type, and there is a result, a buffer and an answer for each    *)
(* read (hc__array_grow as the functions of include/hc/db.h call it).      *)
THEOREM BatchTyped == Spec => []TypeOK
<1>1. WriteInv => WriteTypeOK
  BY WritesTyped
<1>2. ReadInv => ReadTypeOK
  <2> SUFFICES ASSUME ReadInv
               PROVE  ReadTypeOK
    OBVIOUS
  <2>1. ReadType /\ (found = NotRead \/ Reading)
    BY DEF ReadInv
  <2>2. CASE found = NotRead
    BY <2>1, <2>2 DEF ReadTypeOK, NotRead
  <2>3. CASE Reading
    BY <2>1, <2>3 DEF ReadTypeOK, Reading
  <2>4. QED
    BY <2>1, <2>2, <2>3
<1>3. QED
  BY <1>1, <1>2, WriteInductive, ReadInductive, PTL DEF TypeOK

(* A read flush that returns no error has answered every read with the     *)
(* record of its own key, whatever rocksdb reported entry by entry         *)
(* (hc__db_core_read_flush, hc__db_store_read_flush).                      *)
THEOREM FlushAlwaysAnswers == Spec => []FlushAnswers
BY FlushAnswersHolds, ReadInductive, PTL

(* No result is written at or after the first entry with an error.         *)
THEOREM ErrorAlwaysStops == Spec => []ErrorStopsResults
BY ErrorStopsHolds, ReadInductive, PTL

(* Every buffer that rocksdb allocated has one owner: it is freed, or it   *)
(* is a block that its caller was given.                                   *)
THEOREM BuffersAlwaysOwned == Spec => []BuffersOwned
BY BuffersOwnedHolds, ReadInductive, PTL

(* A core that is found has a record, one that decodes.                    *)
THEOREM FoundAlwaysRecord == Spec => []FoundMeansRecord
BY FoundMeansRecordHolds, ReadInductive, PTL

=============================================================================
