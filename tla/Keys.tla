-------------------------------- MODULE Keys --------------------------------
(***************************************************************************)
(* The names of the records (src/keys.c, src/encodings/keys.c): a record   *)
(* name is encoded as a key, and rocksdb keeps its records in the order of *)
(* their keys.  There are two encoders: small keys, used by include/hc/    *)
(* db.h, and two-pass encoders for every record of the format.             *)
(*                                                                         *)
(* A key is a sequence of fields: lexkey numbers, fixed 32 byte hashes,    *)
(* lexkey texts and raw bytes.  lexkey and compact are external: each      *)
(* encoding keeps the order, no encoding of a field is a proper prefix of  *)
(* another of its sort, and the first byte of a text is below 255.  So     *)
(* keys are compared field by field, by value, and a prefix comes first;   *)
(* a text is the number of its place in the order, below TextEnd.          *)
(***************************************************************************)
EXTENDS Sums

CONSTANTS
  WideFrom,  \* The first number whose encoding is longer than one byte.
  TextEnd    \* The place of the byte 255 among the texts, after all of them.

ASSUME WideFromAssumption == WideFrom \in Nat
ASSUME TextEndAssumption == TextEnd \in Nat

Field ==
  [sort : {"uint", "hash"}, value : Nat]
    \cup [sort : {"text"}, value : 0..TextEnd - 1]
    \cup [sort : {"byte"}, value : 0..255]

Uint(n) == [sort |-> "uint", value |-> n]
Hash(n) == [sort |-> "hash", value |-> n]
Text(n) == [sort |-> "text", value |-> n]
Byte(n) == [sort |-> "byte", value |-> n]

(* lexkey_encode_uint takes one to nine bytes.  A text takes its length    *)
(* and more; the model needs one number for it.                            *)
Width(field) ==
  CASE field.sort = "uint" -> IF field.value < WideFrom THEN 1 ELSE 9
    [] field.sort = "hash" -> 32
    [] field.sort = "text" -> 2
    [] field.sort = "byte" -> 1

WidestWidth(field) == IF field.sort = "uint" THEN 9 ELSE Width(field)

SizeOf(key) == Total([i \in DOMAIN key |-> Width(key[i])])
WidestSizeOf(key) == Total([i \in DOMAIN key |-> WidestWidth(key[i])])

(* The order of rocksdb, memcmp and then length.                           *)
Before(k, l) ==
  \E n \in 0..Len(k) :
    /\ n <= Len(l)
    /\ \A i \in 1..n : k[i].value = l[i].value
    /\ \/ n = Len(k) /\ n < Len(l)
       \/ n < Len(k) /\ n < Len(l) /\ k[n + 1].value < l[n + 1].value

(* The name of a record: its kind, and what its encoder is called with, as *)
(* fields.  For the records of a core the first of them is the pointer.    *)
StoreKinds == {"store_head", "store_core", "core_by_alias"}
CoreKinds == {"core", "auth", "sessions"}
DataKinds == {"data", "head", "dependency", "hints", "block", "tree",
              "bitfield", "user_data", "local", "mark"}
Kinds == StoreKinds \cup CoreKinds \cup DataKinds

(* The sorts of what an encoder is called with; a local key's raw bytes    *)
(* come after.                                                             *)
Sorts ==
  [store_head |-> <<>>, store_core |-> <<"hash">>,
   core_by_alias |-> <<"hash", "text">>,
   core |-> <<"uint">>, auth |-> <<"uint">>, sessions |-> <<"uint">>,
   data |-> <<"uint">>, head |-> <<"uint">>, dependency |-> <<"uint">>,
   hints |-> <<"uint">>, local |-> <<"uint">>,
   block |-> <<"uint", "uint">>, tree |-> <<"uint", "uint">>,
   mark |-> <<"uint", "uint">>, bitfield |-> <<"uint", "uint", "uint">>,
   user_data |-> <<"uint", "text">>]

IsRecordName(r) ==
  LET sorts == Sorts[r.kind] IN
  /\ r \in [kind : Kinds, args : Seq(Field)]
  /\ IF r.kind = "local" THEN Len(r.args) >= 1 ELSE Len(r.args) = Len(sorts)
  /\ \A i \in 1..Len(r.args) :
       r.args[i].sort = IF i <= Len(sorts) THEN sorts[i] ELSE "byte"

-----------------------------------------------------------------------------
(* The two-pass encoders.  The namespaces, with the end of all of them.    *)
Space ==
  [head |-> 0, core_by_dkey |-> 1, core_by_alias |-> 2, core |-> 3,
   data |-> 4, end |-> 5]

Subtype ==
  [auth |-> 0, sessions |-> 1,
   head |-> 0, dependency |-> 1, hints |-> 2, block |-> 3, tree |-> 4,
   bitfield |-> 5, user_data |-> 6, local |-> 7, mark |-> 8]

(* Fault: sized for a namespace and the records of a core.                 *)
KeyMaxSizeOfCores == 40

(* HC_KEY_MAX_SIZE, also the size of a small key's buffer.                 *)
KeyMaxSize == 64

StoreSpace ==
  [store_head |-> Space.head, store_core |-> Space.core_by_dkey,
   core_by_alias |-> Space.core_by_alias]

EncodeStoreKey(r) == <<Uint(StoreSpace[r.kind])>> \o r.args

(* encode_core_prefix and encode_core_subtype.                             *)
EncodeCorePrefix(tl, ptr) == <<Uint(tl), ptr>>
EncodeCoreSubtype(tl, ptr, subtype) ==
  EncodeCorePrefix(tl, ptr) \o <<Uint(subtype)>>

CoreSpace(kind) == IF kind \in CoreKinds THEN Space.core ELSE Space.data

EncodeCoreKey(r) ==
  LET tl == CoreSpace(r.kind) IN
  IF r.kind \in {"core", "data"}
  THEN EncodeCorePrefix(tl, r.args[1])
  ELSE EncodeCoreSubtype(tl, r.args[1], Subtype[r.kind]) \o Tail(r.args)

EncodeKey(r) ==
  IF r.kind \in StoreKinds THEN EncodeStoreKey(r) ELSE EncodeCoreKey(r)

(* The first pass only counts.                                             *)
PreencodeCorePrefix(tl, ptr) == Width(Uint(tl)) + Width(ptr)
PreencodeCoreSubtype(tl, ptr, subtype) ==
  PreencodeCorePrefix(tl, ptr) + Width(Uint(subtype))

(* Fault: the bytes of a local key are not counted.                        *)
PreencodeUnframed(r) ==
  LET tl == CoreSpace(r.kind) IN
  CASE r.kind \in StoreKinds ->
         Width(Uint(StoreSpace[r.kind])) + SizeOf(r.args)
    [] r.kind \in {"core", "data"} -> PreencodeCorePrefix(tl, r.args[1])
    [] r.kind = "local" ->
         PreencodeCoreSubtype(tl, r.args[1], Subtype[r.kind])
    [] OTHER ->
         PreencodeCoreSubtype(tl, r.args[1], Subtype[r.kind])
           + SizeOf(Tail(r.args))

PreencodeKey(r) ==
  LET tl == CoreSpace(r.kind) IN
  CASE r.kind \in StoreKinds ->
         Width(Uint(StoreSpace[r.kind])) + SizeOf(r.args)
    [] r.kind \in {"core", "data"} -> PreencodeCorePrefix(tl, r.args[1])
    [] r.kind = "local" ->
         PreencodeCoreSubtype(tl, r.args[1], Subtype[r.kind])
           + Len(Tail(r.args))
    [] OTHER ->
         PreencodeCoreSubtype(tl, r.args[1], Subtype[r.kind])
           + SizeOf(Tail(r.args))

-----------------------------------------------------------------------------
(* The small keys have namespaces and subtypes of their own header.        *)
SmallKinds ==
  {"store_head", "store_core", "core", "data", "auth", "sessions", "head",
   "dependency", "hints", "block", "tree", "mark"}

SmallSpace ==
  [head |-> 0, core_by_dkey |-> 1, core_by_alias |-> 2, core |-> 3, data |-> 4]

(* Fault: a header without the subtype of local records.                   *)
SmallSubtypeStale ==
  [auth |-> 0, sessions |-> 1,
   head |-> 0, dependency |-> 1, hints |-> 2, block |-> 3, tree |-> 4,
   bitfield |-> 5, user_data |-> 6, mark |-> 7]

SmallSubtype ==
  [auth |-> 0, sessions |-> 1,
   head |-> 0, dependency |-> 1, hints |-> 2, block |-> 3, tree |-> 4,
   bitfield |-> 5, user_data |-> 6, local |-> 7, mark |-> 8]

SmallStoreKey(r) ==
  IF r.kind = "store_head"
  THEN <<Uint(SmallSpace.head)>>
  ELSE <<Uint(SmallSpace.core_by_dkey), r.args[1]>>

(* encode_tl_ptr, encode_tl_ptr_subtype and encode_tl_ptr_subtype_index.   *)
TlPtr(tl, ptr) == <<Uint(tl), ptr>>
TlPtrSubtype(tl, ptr, subtype) == <<Uint(tl), ptr, Uint(subtype)>>
TlPtrSubtypeIndex(tl, ptr, subtype, index) ==
  <<Uint(tl), ptr, Uint(subtype), index>>

SmallCoreKey(r) ==
  LET tl  == IF r.kind \in CoreKinds THEN SmallSpace.core ELSE SmallSpace.data
      ptr == r.args[1]
  IN  CASE r.kind \in {"core", "data"} -> TlPtr(tl, ptr)
        [] r.kind \in {"block", "tree", "mark"} ->
             TlPtrSubtypeIndex(tl, ptr, SmallSubtype[r.kind], r.args[2])
        [] OTHER -> TlPtrSubtype(tl, ptr, SmallSubtype[r.kind])

SmallKey(r) ==
  IF r.kind \in StoreKinds THEN SmallStoreKey(r) ELSE SmallCoreKey(r)

-----------------------------------------------------------------------------
(* Ranges of keys, the start included and the end not.                     *)
InRange(key, range) == ~Before(key, range.from) /\ Before(key, range.to)

CoresRange ==
  [from |-> <<Uint(Space.core_by_dkey)>>,
   to   |-> <<Uint(Space.core_by_dkey + 1)>>]

AllAliasesRange ==
  [from |-> <<Uint(Space.core_by_alias)>>,
   to   |-> <<Uint(Space.core_by_alias + 1)>>]

(* Fault: the end has no sentinel.                                         *)
AliasesRangeOpen(namespace) ==
  [from |-> <<Uint(Space.core_by_alias), namespace>>,
   to   |-> <<Uint(Space.core_by_alias), namespace>>]

(* The end is the prefix and the byte 255, which is above every name.      *)
AliasesRange(namespace) ==
  [from |-> <<Uint(Space.core_by_alias), namespace>>,
   to   |-> <<Uint(Space.core_by_alias), namespace, Byte(TextEnd)>>]

ClearRange == [from |-> <<Uint(Space.head)>>, to |-> <<Uint(Space.end)>>]

(* These two only have an end; a caller starts at their prefix.            *)
UserDataRange(ptr) ==
  [from |-> EncodeCoreSubtype(Space.data, ptr, Subtype.user_data),
   to   |-> EncodeCoreSubtype(Space.data, ptr, Subtype.user_data + 1)]

LocalRange(ptr) ==
  [from |-> EncodeCoreSubtype(Space.data, ptr, Subtype.local),
   to   |-> EncodeCoreSubtype(Space.data, ptr, Subtype.local + 1)]

(* What the first pass over each of these bounds counts.                   *)
CoresRangeSizes ==
  [from |-> Width(Uint(Space.core_by_dkey)),
   to   |-> Width(Uint(Space.core_by_dkey + 1))]

AllAliasesRangeSizes ==
  [from |-> Width(Uint(Space.core_by_alias)),
   to   |-> Width(Uint(Space.core_by_alias + 1))]

AliasesRangeSizes(namespace) ==
  LET prefix == Width(Uint(Space.core_by_alias)) + Width(namespace)
  IN  [from |-> prefix, to |-> prefix + 1]

ClearRangeSizes ==
  [from |-> Width(Uint(Space.head)), to |-> Width(Uint(Space.end))]

UserDataEndSize(ptr) ==
  PreencodeCoreSubtype(Space.data, ptr, Subtype.user_data + 1)

LocalEndSize(ptr) == PreencodeCoreSubtype(Space.data, ptr, Subtype.local + 1)

=============================================================================
