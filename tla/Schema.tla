------------------------------- MODULE Schema -------------------------------
(***************************************************************************)
(* The records and their encodings (schema/hc_schema.c): each record is a  *)
(* sequence of compact fields.  Optional fields are announced by a field   *)
(* of flags, arrays by their count.                                        *)
(*                                                                         *)
(* compact is external: a uint takes 1, 3, 5 or 9 bytes, a fixed32 32, a   *)
(* uint64 8, a byte array its length as a uint and its bytes.  A record is *)
(* abstracted to what decides about its size and its fields: the width of  *)
(* its numbers, which optional fields it has, how many elements its arrays *)
(* have and how long its bytes (signature, user_data) are.                 *)
(***************************************************************************)
EXTENDS Sums

StoredKinds == {"tree_node", "head", "store_head", "store_core"}
Kinds == StoredKinds \cup {"manifest"}

Options ==
  [tree_node  |-> {},
   head       |-> {"timestamp"},
   store_head |-> {"seed", "default_discovery_key"},
   store_core |-> {},
   manifest   |-> {"allow_patch", "prologue", "linked", "user_data"}]

(* The records there are.                                                  *)
IsRecord(r) ==
  /\ r.kind \in Kinds
  /\ r.width \in {1, 3, 5, 9}
  /\ r.has \subseteq Options[r.kind]
  /\ r.signers \in Nat /\ r.linked \in Nat /\ r.bytes \in Nat
  /\ r.kind # "manifest" => r.signers = 0 /\ r.linked = 0

(* compact_preencode_uint                                                  *)
UintSize(n) ==
  IF n <= 252 THEN 1
  ELSE IF n <= 65535 THEN 3 ELSE IF n <= 2^32 - 1 THEN 5 ELSE 9
BytesSize(n) == UintSize(n) + n

(* The sizes that the preencode functions count.                           *)
If(condition, size) == IF condition THEN size ELSE 0

TreeNodeSize(r) == 2 * r.width + 32

HeadSize(r) ==
  2 * r.width + 32 + BytesSize(r.bytes) + 1 + If("timestamp" \in r.has, 8)

StoreHeadSize(r) ==
  3 * r.width + 1 + If("seed" \in r.has, 32)
    + If("default_discovery_key" \in r.has, 32)

StoreCoreSize(r) == 2 * r.width

SignerSize(r) == r.width + 32 + 32

PrologueSize(r) == 32 + r.width

(* Fault: the size of the prologue is left out.                            *)
ManifestSizeNoPrologue(r) ==
  3 * r.width + 1 + UintSize(r.signers) + r.signers * SignerSize(r)
    + If("linked" \in r.has, UintSize(r.linked) + r.linked * 32)
    + If("user_data" \in r.has, BytesSize(r.bytes))

ManifestSize(r) ==
  3 * r.width + 1 + UintSize(r.signers) + r.signers * SignerSize(r)
    + If("prologue" \in r.has, PrologueSize(r))
    + If("linked" \in r.has, UintSize(r.linked) + r.linked * 32)
    + If("user_data" \in r.has, BytesSize(r.bytes))

PreencodedSize(r) ==
  CASE r.kind = "tree_node"  -> TreeNodeSize(r)
    [] r.kind = "head"       -> HeadSize(r)
    [] r.kind = "store_head" -> StoreHeadSize(r)
    [] r.kind = "store_core" -> StoreCoreSize(r)
    [] r.kind = "manifest"   -> ManifestSize(r)

-----------------------------------------------------------------------------
(* The fields in the order of the encode functions.  A field that decides  *)
(* about others has its value.                                             *)
Field(name, size) == [name |-> name, size |-> size, value |-> 0]
Uint(r, name) == Field(name, r.width)
Fixed32(name) == Field(name, 32)
Count(name, n) == [name |-> name, size |-> UintSize(n), value |-> n]
Bytes(name, n) == [name |-> name, size |-> BytesSize(n), value |-> n]

Flags(has) == [name |-> "flags", size |-> 1, value |-> has]

Optional(condition, fields) == IF condition THEN fields ELSE <<>>

(* The fields n times over.                                                *)
Times(n, fields) ==
  [i \in 1..n * Len(fields) |-> fields[((i - 1) % Len(fields)) + 1]]

TreeNodeFields(r) == <<Uint(r, "index"), Uint(r, "size"), Fixed32("hash")>>

HeadFields(r) ==
  <<Uint(r, "fork"), Uint(r, "length"), Fixed32("root_hash"),
    Bytes("signature", r.bytes), Flags(r.has)>>
  \o Optional("timestamp" \in r.has, <<Field("timestamp", 8)>>)

StoreHeadFields(r) ==
  <<Uint(r, "cores"), Uint(r, "datas"), Uint(r, "groups"), Flags(r.has)>>
  \o Optional("seed" \in r.has, <<Fixed32("seed")>>)
  \o Optional("default_discovery_key" \in r.has,
              <<Fixed32("default_discovery_key")>>)

StoreCoreFields(r) == <<Uint(r, "core_ptr"), Uint(r, "data_ptr")>>

SignerFields(r) ==
  <<Uint(r, "signature"), Fixed32("namespace"), Fixed32("public_key")>>

PrologueFields(r) == <<Fixed32("hash"), Uint(r, "length")>>

ManifestFields(r) ==
  <<Uint(r, "version"), Flags(r.has), Uint(r, "hash"), Uint(r, "quorum"),
    Count("signers", r.signers)>>
  \o Times(r.signers, SignerFields(r))
  \o Optional("prologue" \in r.has, PrologueFields(r))
  \o Optional("linked" \in r.has,
              <<Count("linked", r.linked)>>
                \o Times(r.linked, <<Fixed32("link")>>))
  \o Optional("user_data" \in r.has, <<Bytes("user_data", r.bytes)>>)

Fields(r) ==
  CASE r.kind = "tree_node"  -> TreeNodeFields(r)
    [] r.kind = "head"       -> HeadFields(r)
    [] r.kind = "store_head" -> StoreHeadFields(r)
    [] r.kind = "store_core" -> StoreCoreFields(r)
    [] r.kind = "manifest"   -> ManifestFields(r)

-----------------------------------------------------------------------------
(* What the decode functions read, in their order: where a field goes is   *)
(* told by nothing but its place.                                          *)
TreeNodeNames == <<"index", "size", "hash">>

HeadNames(r) ==
  <<"fork", "length", "root_hash", "signature", "flags">>
  \o Optional("timestamp" \in r.has, <<"timestamp">>)

StoreHeadNames(r) ==
  <<"cores", "datas", "groups", "flags">>
  \o Optional("seed" \in r.has, <<"seed">>)
  \o Optional("default_discovery_key" \in r.has,
              <<"default_discovery_key">>)

StoreCoreNames == <<"core_ptr", "data_ptr">>

SignerNames == <<"signature", "namespace", "public_key">>

PrologueNames == <<"hash", "length">>

(* Fault: the decoder has the user data before the links.                  *)
ManifestNamesSwapped(r) ==
  <<"version", "flags", "hash", "quorum", "signers">>
  \o Times(r.signers, SignerNames)
  \o Optional("prologue" \in r.has, PrologueNames)
  \o Optional("user_data" \in r.has, <<"user_data">>)
  \o Optional("linked" \in r.has, <<"linked">> \o Times(r.linked, <<"link">>))

ManifestNames(r) ==
  <<"version", "flags", "hash", "quorum", "signers">>
  \o Times(r.signers, SignerNames)
  \o Optional("prologue" \in r.has, PrologueNames)
  \o Optional("linked" \in r.has, <<"linked">> \o Times(r.linked, <<"link">>))
  \o Optional("user_data" \in r.has, <<"user_data">>)

ReadOrder(r) ==
  CASE r.kind = "tree_node"  -> TreeNodeNames
    [] r.kind = "head"       -> HeadNames(r)
    [] r.kind = "store_head" -> StoreHeadNames(r)
    [] r.kind = "store_core" -> StoreCoreNames
    [] r.kind = "manifest"   -> ManifestNames(r)

-----------------------------------------------------------------------------
(* Fault: a buffer of a head without a timestamp.                          *)
BufferSizeTight ==
  [tree_node |-> 50, head |-> 116, store_head |-> 128, store_core |-> 32]

(* The buffers that include/hc/db.h encodes stored records into.           *)
BufferSize ==
  [tree_node |-> 50, head |-> 128, store_head |-> 128, store_core |-> 32]

(* The length of a signature that include/hc/head.h counts with.           *)
MaxSignature == 64

=============================================================================
