----------------------------- MODULE ReadBatch ------------------------------
(***************************************************************************)
(* The read batches of include/hc/db.h: hc__db_core_read_t, which reads    *)
(* tree nodes and blocks, and hc__db_store_read_t, which reads the store   *)
(* head and the pointers of cores.  Reads are queued, each with a result   *)
(* of its caller's; one flush reads them all, and then goes over them one  *)
(* by one.  rocksdb allocates a buffer for each value it finds: a block's  *)
(* becomes the caller's, any other is decoded and freed.                   *)
(*                                                                         *)
(* They read the column that the write batches wrote.  A record decodes or *)
(* it does not; which one a result shows is told by its key.  A result     *)
(* belongs to one read, and a batch is flushed once, as the callers in     *)
(* src/core.c and src/store.c do.                                          *)
(***************************************************************************)
EXTENDS WriteBatch

CONSTANTS
  Undecodable,  \* The records that do not decode.
  MaxReads      \* Bound: no more reads in a batch.

VARIABLES
  reads,    \* The array of the batch.
  results,  \* The caller's results, one for each read.
  found,    \* What rocksdb answered: whether it failed, and each entry.
  buffers,  \* Who has the buffer of each entry.
  next,     \* The entry that the flush looks at.
  err,      \* The error the flush will return.
  pc        \* Where the batch is: queueing, in the loop, or flushed.

readVars == <<reads, results, found, buffers, next, err, pc>>

(* Before the flush a result is as the caller left it, or not found.       *)
Before == {"zero", "stale", "not_found"}

(* What a result shows is none of those, nor half of a record.             *)
ASSUME ResultsAssumption ==
  (Before \cup {"partial"}) \cap (RecordKeys \cup {HeadKey}) = {}

NotRead == [failed |-> FALSE, entries |-> <<>>]

ReadInit ==
  /\ reads = EmptyArray
  /\ results = <<>>
  /\ found = NotRead
  /\ buffers = <<>>
  /\ next = 1
  /\ err = "ok"
  /\ pc = "queue"

-----------------------------------------------------------------------------
ReadOf(type, k) == [type |-> type, key |-> k, value |-> None]

(* The functions that queue a read; one that looks for a core sets its     *)
(* found to 0 (hc__db_store_read_get_core).  When the array cannot grow,   *)
(* they return -1 and change nothing.                                      *)
GetInto(whose, type, k, before) ==
  /\ side = whose
  /\ pc = "queue"
  /\ Len(reads.items) < MaxReads
  /\ reads' \in Queued(reads, ReadOf(type, k))
  /\ results' = Append(results, before)
  /\ buffers' = Append(buffers, "none")
  /\ UNCHANGED <<found, next, err, pc>>

Left == {"zero", "stale"}

GetTreeNode ==
  \E k \in NodeKeys, r \in Left : GetInto("core", "tree_node", k, r)
GetBlock == \E k \in BlockKeys, r \in Left : GetInto("core", "block", k, r)
GetHead == \E r \in Left : GetInto("store", "head", HeadKey, r)
GetCore == \E k \in CoreKeys : GetInto("store", "core", k, "not_found")

(* Room for n tree nodes or blocks more; the store has no such function.   *)
EnsureReads(n) ==
  /\ pc = "queue"
  /\ side = "core"
  /\ Len(reads.items) + n <= MaxReads
  /\ reads' \in Grown(reads, Len(reads.items) + n)
  /\ UNCHANGED <<results, found, buffers, next, err, pc>>

(* malloc fails, or there is nothing to read.                              *)
FlushNothing ==
  /\ pc = "queue"
  /\ err' = IF reads.items = <<>> THEN "ok" ELSE "error"
  /\ pc' = "flushed"
  /\ UNCHANGED <<reads, results, found, buffers, next>>

(* What rocksdb_read answers for a key.  It may fail as a whole or for     *)
(* some entries; what it found may be there nevertheless, and what is      *)
(* there is found or is an error.                                          *)
Present(k) == k \in DOMAIN column
Decodes(k) == column[k] \notin Undecodable

Answer == [error : BOOLEAN, value : BOOLEAN]

Answers(k, failed) ==
  {answer \in Answer :
     /\ failed => ~answer.error
     /\ answer.value => Present(k)
     /\ Present(k) /\ ~failed => answer.value \/ answer.error}

FlushReads ==
  /\ pc = "queue"
  /\ reads.items # <<>>
  /\ \E failed \in BOOLEAN :
       \E entries \in [DOMAIN reads.items -> Answer] :
         /\ \A i \in DOMAIN entries :
              entries[i] \in Answers(KeySlice(reads.items[i]), failed)
         /\ found' = [failed |-> failed, entries |-> entries]
         /\ err' = IF failed THEN "error" ELSE "ok"
         /\ buffers' = [i \in DOMAIN entries |->
                          IF entries[i].value THEN "rocksdb" ELSE "none"]
  /\ pc' = "loop"
  /\ UNCHANGED <<reads, results, next>>

-----------------------------------------------------------------------------
(* One iteration of the loop of a flush.  The error comes first.           *)
InLoop == pc = "loop" /\ next <= Len(reads.items)
This == found.entries[next]
Op == reads.items[next].op

(* Fault: only the errors of earlier entries are known.                    *)
ErrLate == err

(* Fault: the error of the last entry is the one that counts.              *)
ErrOfLast == IF This.error THEN "error" ELSE "ok"

ErrNow == IF This.error THEN "error" ELSE err

Iterated(shown, owner) ==
  /\ results' = [results EXCEPT ![next] = shown]
  /\ buffers' = [buffers EXCEPT ![next] = owner]
  /\ err' = ErrNow
  /\ next' = next + 1
  /\ UNCHANGED <<reads, found, pc>>

NoValue ==
  /\ InLoop
  /\ ~This.value
  /\ Iterated(results[next], "none")

(* Fault: the buffer is left behind.                                       *)
LeakAfterError ==
  /\ InLoop
  /\ This.value
  /\ ErrNow = "error"
  /\ Iterated(results[next], "rocksdb")

(* From the first error on, what was read is dropped.                      *)
DropAfterError ==
  /\ InLoop
  /\ This.value
  /\ ErrNow = "error"
  /\ Iterated(results[next], "freed")

Take(type) ==
  /\ InLoop
  /\ This.value
  /\ ErrNow = "ok"
  /\ Op.type = type

(* What a decode leaves in its result: nobody looks at its error.          *)
Decoded(k) == IF Decodes(k) THEN k ELSE "partial"

TakeTreeNode == Take("tree_node") /\ Iterated(Decoded(Op.key), "freed")

TakeBlock == Take("block") /\ Iterated(Op.key, "caller")

TakeHead == Take("head") /\ Iterated(Decoded(Op.key), "freed")

(* Fault: found is set whether the record decodes or not.                  *)
TakeCoreAlways == Take("core") /\ Iterated(Decoded(Op.key), "freed")

(* A core whose record does not decode is not found.                       *)
TakeCore ==
  /\ Take("core")
  /\ Iterated(IF Decodes(Op.key) THEN Op.key ELSE results[next],
              "freed")

FlushReturns ==
  /\ pc = "loop"
  /\ next > Len(reads.items)
  /\ pc' = "flushed"
  /\ UNCHANGED <<reads, results, found, buffers, next, err>>

(* The batch is destroyed; the caller goes on with another one.            *)
ReadDestroy ==
  /\ pc # "loop"
  /\ reads' = EmptyArray
  /\ results' = <<>>
  /\ found' = NotRead
  /\ buffers' = <<>>
  /\ next' = 1
  /\ err' = "ok"
  /\ pc' = "queue"

ReadNext ==
  \/ GetTreeNode
  \/ GetBlock
  \/ GetHead
  \/ GetCore
  \/ \E n \in 1..MaxReads : EnsureReads(n)
  \/ FlushNothing
  \/ FlushReads
  \/ NoValue
  \/ DropAfterError
  \/ TakeTreeNode
  \/ TakeBlock
  \/ TakeHead
  \/ TakeCore
  \/ FlushReturns
  \/ ReadDestroy

-----------------------------------------------------------------------------
OpAt(i) == reads.items[i].op

ReadOp == [type : {"tree_node", "block", "head", "core"},
           key : RecordKeys \cup {HeadKey}, value : {None}]

ReadType ==
  /\ Holds(reads, ReadOp)
  /\ results \in Seq(Before \cup {"partial"} \cup RecordKeys \cup {HeadKey})
  /\ buffers \in Seq({"none", "rocksdb", "freed", "caller"})
  /\ Len(results) = Len(reads.items)
  /\ Len(buffers) = Len(reads.items)
  /\ next \in 1..Len(reads.items) + 1
  /\ err \in {"ok", "error"}
  /\ pc \in {"queue", "loop", "flushed"}

(* The types of the variables of the reads: for each read there is one     *)
(* result and one buffer, and after a flush one answer, or none at all.    *)
ReadTypeOK ==
  /\ ReadType
  /\ found.failed \in BOOLEAN
  /\ found = NotRead \/ found.entries \in [DOMAIN reads.items -> Answer]

(* Every variable of the batches has its type, and no array holds more     *)
(* than its capacity.                                                      *)
TypeOK == WriteTypeOK /\ ReadTypeOK

(* A flush that returns no error read everything: each result shows the    *)
(* record of its own key, and is as it was when there is none.  A flush    *)
(* returns an error when rocksdb reported one, anywhere in the batch       *)
(* (hc__db_core_read_flush, hc__db_store_read_flush).                      *)
FlushAnswers ==
  pc = "flushed" /\ err = "ok" =>
    /\ ~found.failed
    /\ \A i \in DOMAIN found.entries : ~found.entries[i].error
    /\ \A i \in DOMAIN results :
         LET k == OpAt(i).key IN
         /\ ~Present(k) => results[i] \in Before
         /\ Present(k) /\ (Decodes(k) \/ OpAt(i).type = "block") =>
              results[i] = k
         /\ Present(k) /\ ~Decodes(k) /\ OpAt(i).type # "block" =>
              results[i] =
                IF OpAt(i).type = "core" THEN "not_found" ELSE "partial"

(* No result is written at or after the first entry with an error; the     *)
(* results before it keep what they were given (the same functions).       *)
ErrorStopsResults ==
  \A i \in DOMAIN results : results[i] \notin Before =>
    /\ ~found.failed
    /\ \A j \in 1..i : ~found.entries[j].error

(* Every buffer that rocksdb allocated is freed, or is a block that its    *)
(* caller was given; the loop leaves none behind, with errors or without,  *)
(* and frees none that was given away (the same functions).                *)
BuffersOwned ==
  \A i \in DOMAIN buffers :
    /\ buffers[i] = "rocksdb" => pc = "loop" /\ i >= next
    /\ buffers[i] = "caller" <=>
         OpAt(i).type = "block" /\ results[i] = OpAt(i).key

(* Whatever fails, a core that is found has a record that decodes, its own *)
(* one (hc__db_store_read_get_core: "found is set to 0 on miss").          *)
FoundMeansRecord ==
  \A i \in DOMAIN results : OpAt(i).type = "core" =>
    \/ results[i] = "not_found"
    \/ /\ results[i] = OpAt(i).key
       /\ Present(OpAt(i).key) /\ Decodes(OpAt(i).key)

-----------------------------------------------------------------------------
(* What the loop leaves of each entry that it has passed, and of those it  *)
(* has not.                                                                *)
NoErrorUpTo(i) == ~found.failed /\ \A j \in 1..i : ~found.entries[j].error

Untouched(i) ==
  /\ results[i] \in Before
  /\ OpAt(i).type = "core" => results[i] = "not_found"

Answered(i) ==
  LET k == OpAt(i).key IN
  /\ OpAt(i).type = "block" => results[i] = k /\ buffers[i] = "caller"
  /\ OpAt(i).type # "block" => buffers[i] = "freed"
  /\ OpAt(i).type = "core" =>
       results[i] = IF Decodes(k) THEN k ELSE "not_found"
  /\ OpAt(i).type \in {"tree_node", "head"} => results[i] = Decoded(k)

Passed(i) ==
  \/ found.entries[i].value /\ NoErrorUpTo(i) /\ Answered(i)
  \/ /\ ~(found.entries[i].value /\ NoErrorUpTo(i))
     /\ Untouched(i)
     /\ buffers[i] \in {"none", "freed"}

Ahead(i) ==
  /\ Untouched(i)
  /\ buffers[i] = IF i \in DOMAIN found.entries /\ found.entries[i].value
                  THEN "rocksdb" ELSE "none"

(* The loop has an answer for each read, and the error of those it passed. *)
Reading ==
  /\ found \in [failed : BOOLEAN, entries : [DOMAIN reads.items -> Answer]]
  /\ \A i \in DOMAIN reads.items :
       found.entries[i] \in Answers(OpAt(i).key, found.failed)
  /\ err = "ok" <=> NoErrorUpTo(next - 1)

(* Why the results are what FlushAnswers and the others say.  This is      *)
(* inductive.                                                              *)
ReadInv ==
  /\ ReadType
  /\ \/ pc = "queue" /\ found = NotRead /\ next = 1 /\ err = "ok"
     \/ /\ pc = "flushed" /\ found = NotRead /\ next = 1
        /\ reads.items = <<>> \/ err = "error"
     \/ pc = "loop" /\ Reading
     \/ pc = "flushed" /\ Reading /\ next = Len(reads.items) + 1
  /\ \A i \in 1..next - 1 : Passed(i)
  /\ \A i \in next..Len(reads.items) : Ahead(i)

=============================================================================
