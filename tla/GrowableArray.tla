---------------------------- MODULE GrowableArray ---------------------------
(***************************************************************************)
(* The growable arrays of include/hc/array.h, as the batches of include/   *)
(* hc/db.h use them.  realloc extends an array where it is, moves it, or   *)
(* fails and leaves it alone.  An entry that holds a pointer into itself   *)
(* (hc_small_key_t) points elsewhere once it has moved: the field here of  *)
(* an entry tells whether it is still where it was made.                   *)
(***************************************************************************)
EXTENDS Naturals, Sequences, FiniteSetsExt

CONSTANT
  InitialCapacity  \* The first capacity of an array, 8 in the code.

ASSUME FirstCapacityAssumption == InitialCapacity \in Nat \ {0}

EmptyArray == [items |-> <<>>, capacity |-> 0]

(* The capacity after growing: doubled until it holds min.                 *)
GrownCapacity(capacity, min) ==
  LET start == IF capacity = 0 THEN InitialCapacity ELSE 2 * capacity
  IN  Min({c \in {start * 2^k : k \in 0..min} : c >= min})

Moved(items) == [i \in DOMAIN items |-> [items[i] EXCEPT !.here = FALSE]]

(* What hc__array_grow can make of an array when it succeeds.              *)
Grown(array, min) ==
  IF array.capacity >= min
  THEN {array}
  ELSE {[items |-> items, capacity |-> GrownCapacity(array.capacity, min)] :
          items \in {array.items, Moved(array.items)}}

(* It fails only when it has to allocate.                                  *)
GrowCanFail(array, min) == array.capacity < min

(* The element that is written at the end, once there is room for it.      *)
Appended(array, item) == [array EXCEPT !.items = Append(@, item)]

=============================================================================
