----------------------------- MODULE AtomicBatch ----------------------------
(***************************************************************************)
(* What a write batch promises: the calls only collect, and a flush makes  *)
(* what they collected durable all at once, or nothing of it.  For each    *)
(* key the last put counts; a key that is deleted is gone, whether it was  *)
(* put before or after; the head is written over both.                     *)
(***************************************************************************)
EXTENDS Functions

CONSTANTS
  Keys,    \* The keys of the records other than the head.
  HeadKey, \* The key of the head.
  Values,  \* The records.
  None     \* No head in the batch.

VARIABLES
  stored,  \* The durable records.
  puts,    \* The record of each key that will be put.
  dels,    \* The keys that will be deleted.
  top      \* The head that will be written, or None.

batchVars == <<stored, puts, dels, top>>

Nothing == [k \in {} |-> None]

Set(map, key, value) ==
  [k \in DOMAIN map \cup {key} |-> IF k = key THEN value ELSE map[k]]

BatchInit == stored = Nothing /\ puts = Nothing /\ dels = {} /\ top = None

CollectPut ==
  /\ UNCHANGED <<stored, dels, top>>
  /\ \E k \in Keys, v \in Values : puts' = Set(puts, k, v)

CollectDelete ==
  /\ UNCHANGED <<stored, puts, top>>
  /\ \E k \in Keys : dels' = dels \cup {k}

CollectHead ==
  /\ top' \in Values
  /\ UNCHANGED <<stored, puts, dels>>

Commit ==
  /\ LET put  == [k \in DOMAIN stored \cup DOMAIN puts |->
                    IF k \in DOMAIN puts THEN puts[k] ELSE stored[k]]
         kept == Restrict(put, DOMAIN put \ dels)
     IN  stored' = IF top = None THEN kept ELSE Set(kept, HeadKey, top)
  /\ UNCHANGED <<puts, dels, top>>

Discard ==
  /\ puts' = Nothing
  /\ dels' = {}
  /\ top' = None
  /\ UNCHANGED stored

BatchNext == CollectPut \/ CollectDelete \/ CollectHead \/ Commit \/ Discard

BatchSpec == BatchInit /\ [][BatchNext]_batchVars

=============================================================================
