------------------------------ MODULE KeySpace ------------------------------
(***************************************************************************)
(* The column family as the users of the keys see it.  Records are put     *)
(* under the keys of either encoder, and the store is cleared by its range *)
(* (src/encodings/keys.h: "store.clear range").  The column is a map from  *)
(* keys to the records last put there: it shows whether two records ever   *)
(* share a key, and what a scan of a range finds.                          *)
(***************************************************************************)
EXTENDS Keys, Functions, FiniteSets

CONSTANTS
  Records,    \* The names of the records that are put.
  MaxRecords  \* Bound: no more records at a time.

ASSUME RecordsAssumption == \A r \in Records : IsRecordName(r)

VARIABLES
  column,   \* What is stored: the record put last under each key.
  written,  \* The records put since the last clear.
  pass      \* The last two-pass call: bytes counted, and bytes written.

vars == <<column, written, pass>>

Init ==
  /\ column = [k \in {} |-> k]
  /\ written = {}
  /\ pass = [counted |-> 0, encoded |-> 0]

PutAt(key, r) ==
  /\ Cardinality(written \cup {r}) <= MaxRecords
  /\ column' = [k \in DOMAIN column \cup {key} |->
                  IF k = key THEN r ELSE column[k]]
  /\ written' = written \cup {r}

(* include/hc/db.h                                                         *)
PutSmall(r) ==
  /\ r.kind \in SmallKinds
  /\ PutAt(SmallKey(r), r)
  /\ UNCHANGED pass

(* preencode, allocate, encode.                                            *)
PutTwoPass(r) ==
  /\ PutAt(EncodeKey(r), r)
  /\ pass' = [counted |-> PreencodeKey(r), encoded |-> SizeOf(EncodeKey(r))]

KeysIn(range) == {k \in DOMAIN column : InRange(k, range)}

Clear ==
  /\ column' = Restrict(column, DOMAIN column \ KeysIn(ClearRange))
  /\ written' = {}
  /\ UNCHANGED pass

(* Both passes over one bound of a range.                                  *)
PassOver(key, counted) ==
  /\ pass' = [counted |-> counted, encoded |-> SizeOf(key)]
  /\ UNCHANGED <<column, written>>

PassOverRange(range, sizes) ==
  \E bound \in {"from", "to"} : PassOver(range[bound], sizes[bound])

BoundStore ==
  \/ PassOverRange(CoresRange, CoresRangeSizes)
  \/ PassOverRange(AllAliasesRange, AllAliasesRangeSizes)
  \/ PassOverRange(ClearRange, ClearRangeSizes)

BoundAliases(namespace) ==
  PassOverRange(AliasesRange(namespace), AliasesRangeSizes(namespace))

(* Only the ends have encoders.                                            *)
BoundCore(ptr) ==
  \/ PassOver(UserDataRange(ptr).to, UserDataEndSize(ptr))
  \/ PassOver(LocalRange(ptr).to, LocalEndSize(ptr))

Next ==
  \/ \E r \in Records : PutSmall(r) \/ PutTwoPass(r)
  \/ BoundStore
  \/ \E r \in Records : r.kind = "core_by_alias" /\ BoundAliases(r.args[1])
  \/ \E r \in Records : r.kind \notin StoreKinds /\ BoundCore(r.args[1])
  \/ Clear

Spec == Init /\ [][Next]_vars

-----------------------------------------------------------------------------
(* Every record is found again, by the key of either encoder, and nothing  *)
(* else is stored: no two records share a key, the two encoders agree, and *)
(* a clear leaves nothing (src/keys.c, src/encodings/keys.c).              *)
KeysNameRecords ==
  /\ DOMAIN column = {EncodeKey(r) : r \in written}
  /\ \A r \in written :
       /\ column[EncodeKey(r)] = r
       /\ r.kind \in SmallKinds => column[SmallKey(r)] = r

(* What a scan finds, as record names.                                     *)
Scan(range) == {column[k] : k \in KeysIn(range)}

OfKind(kind) == {r \in written : r.kind = kind}

(* A scan of each range finds exactly the records it is named for, of the  *)
(* namespace or the pointer it is made for (the *_start and *_end encoders *)
(* of src/encodings/keys.c).                                               *)
RangesExact ==
  /\ Scan(CoresRange) = OfKind("store_core")
  /\ Scan(AllAliasesRange) = OfKind("core_by_alias")
  /\ \A s \in Records :
       LET OfFirst(kind) == {r \in OfKind(kind) : r.args[1] = s.args[1]} IN
       /\ s.kind = "core_by_alias" =>
            Scan(AliasesRange(s.args[1])) = OfFirst("core_by_alias")
       /\ s.kind \in CoreKinds \cup DataKinds =>
            /\ Scan(UserDataRange(s.args[1])) = OfFirst("user_data")
            /\ Scan(LocalRange(s.args[1])) = OfFirst("local")

(* The first pass counts exactly the bytes that the second one writes, for *)
(* every record and for every bound of a range: a buffer of that size      *)
(* neither overflows nor keeps a tail (the preencode and encode functions  *)
(* of src/encodings/keys.c).                                               *)
PassesAgree == pass.counted = pass.encoded

(* Every small key, and every key without texts and raw bytes, fits the    *)
(* buffer it is encoded into, with the widest numbers (hc_small_key_t, and *)
(* what src/encodings/keys.h promises of HC_KEY_MAX_SIZE).                 *)
KeysFitBuffers ==
  \A r \in written :
    \/ r.kind \in {"core_by_alias", "user_data", "local"}
    \/ WidestSizeOf(EncodeKey(r)) <= KeyMaxSize

=============================================================================
