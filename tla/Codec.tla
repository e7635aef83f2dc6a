------------------------------- MODULE Codec --------------------------------
(***************************************************************************)
(* A record from its encoder to its decoder.  Stored records (tree nodes,  *)
(* heads, pointers) are encoded into a buffer of a fixed size, by code     *)
(* (include/hc/db.h) that looks at no error: it stores what was encoded.   *)
(* A manifest is measured, encoded into memory of that size, and hashed    *)
(* (hc_hashes_manifest).                                                   *)
(*                                                                         *)
(* Decoding a manifest allocates its arrays.  A failed decode frees them,  *)
(* so its result has to be zero before, as test/manifest.c makes it.  The  *)
(* heap is the set of the cells in use, each named for what it holds.      *)
(***************************************************************************)
EXTENDS Schema

CONSTANTS
  Records,  \* The records that are encoded.
  Null      \* The null pointer.

ASSUME RecordsAssumption == \A r \in Records : IsRecord(r)
ASSUME NullAssumption == Null \notin {"buf", "signers", "linked"}

VARIABLES
  record,    \* The record that is encoded.
  stored,    \* The fields that were written.
  whole,     \* The stored record is as its encoder left it.
  got,       \* What was decoded of it.
  manifest,  \* The pointers of the caller's hc_manifest_t.
  heap,      \* The cells in use.
  pc

vars == <<record, stored, whole, got, manifest, heap, pc>>

IsManifest == record.kind = "manifest"

ZeroRecord(kind) ==
  [kind |-> kind, width |-> 1, has |-> {}, signers |-> 0, linked |-> 0,
   bytes |-> 0]

NothingRead == [fields |-> 0, of |-> ZeroRecord("tree_node")]
ZeroManifest == [signers |-> Null, linked |-> Null]

SizeOf(fields) == Total([i \in DOMAIN fields |-> fields[i].size])

Init ==
  /\ record \in Records
  /\ stored = <<>>
  /\ whole = TRUE
  /\ got = NothingRead
  /\ manifest = ZeroManifest
  /\ heap = {}
  /\ pc = "idle"

-----------------------------------------------------------------------------
(* The records of include/hc/db.h are not measured before.                 *)
CallEncode ==
  /\ pc = "idle"
  /\ ~IsManifest
  /\ pc' = "encode"
  /\ UNCHANGED <<record, stored, whole, got, manifest, heap>>

(* hc_hashes_manifest measures its manifest and allocates that much.       *)
CallHash ==
  /\ pc = "idle"
  /\ IsManifest
  /\ heap' = heap \cup {"buf"}
  /\ pc' = "encode"
  /\ UNCHANGED <<record, stored, whole, got, manifest>>

HashFails ==
  /\ pc = "idle"
  /\ IsManifest
  /\ pc' = "failed"
  /\ UNCHANGED <<record, stored, whole, got, manifest, heap>>

Room == IF IsManifest THEN PreencodedSize(record) ELSE BufferSize[record.kind]
ToWrite == Fields(record)
Written == Len(stored)
HasRoom == SizeOf(stored) + ToWrite[Written + 1].size <= Room

EncodeField ==
  /\ pc = "encode"
  /\ Written < Len(ToWrite)
  /\ HasRoom
  /\ stored' = Append(stored, ToWrite[Written + 1])
  /\ UNCHANGED <<record, whole, got, manifest, heap, pc>>

(* No room for a field: its encoder stops with an error.  The code that    *)
(* stores a record does not look at it.                                    *)
EncodeStops ==
  /\ pc = "encode"
  /\ Written < Len(ToWrite)
  /\ ~HasRoom
  /\ pc' = IF IsManifest THEN "failed" ELSE "stored"
  /\ heap' = heap \ {"buf"}
  /\ UNCHANGED <<record, stored, whole, got, manifest>>

(* Complete; the buffer of a hash is freed.                                *)
EncodeReturns ==
  /\ pc = "encode"
  /\ Written = Len(ToWrite)
  /\ pc' = "stored"
  /\ heap' = heap \ {"buf"}
  /\ UNCHANGED <<record, stored, whole, got, manifest>>

(* External: the record is found cut, by a field or by all of them.        *)
Cut ==
  /\ pc = "stored"
  /\ whole
  /\ \E n \in 0..Written - 1 : stored' = SubSeq(stored, 1, n)
  /\ whole' = FALSE
  /\ UNCHANGED <<record, got, manifest, heap, pc>>

-----------------------------------------------------------------------------
CallDecode ==
  /\ pc = "stored"
  /\ manifest = ZeroManifest
  /\ got' = [fields |-> 0, of |-> ZeroRecord(record.kind)]
  /\ pc' = "decode"
  /\ UNCHANGED <<record, stored, whole, manifest, heap>>

(* What a decoder looks for next depends on what it has decoded: the flags *)
(* and the counts.                                                         *)
ToRead == ReadOrder(got.of)
AtField == pc = "decode" /\ got.fields < Len(ToRead)
Expected == ToRead[got.fields + 1]
Found == stored[got.fields + 1]

Learnt ==
  CASE Expected = "flags" -> [got.of EXCEPT !.has = Found.value]
    [] Expected = "signers" -> [got.of EXCEPT !.signers = Found.value]
    [] Expected = "linked" -> [got.of EXCEPT !.linked = Found.value]
    [] Expected = "user_data" \/ (Expected = "signature" /\ ~IsManifest) ->
         [got.of EXCEPT !.bytes = Found.value]
    [] OTHER -> got.of

Read ==
  /\ AtField
  /\ got.fields < Len(stored)
  /\ got' = [fields |-> got.fields + 1, of |-> Learnt]

DecodeField ==
  /\ Read
  /\ Expected \notin {"signers", "linked"}
  /\ UNCHANGED <<record, stored, whole, manifest, heap, pc>>

(* A count: calloc gives an array, or nothing when there are no elements.  *)
DecodeArray ==
  /\ Read
  /\ Expected \in {"signers", "linked"}
  /\ \E cell \in IF Found.value = 0 THEN {Expected, Null} ELSE {Expected} :
       /\ manifest' = [manifest EXCEPT ![Expected] = cell]
       /\ heap' = heap \cup ({cell} \ {Null})
  /\ UNCHANGED <<record, stored, whole, pc>>

DecodeReturns ==
  /\ pc = "decode"
  /\ got.fields = Len(ToRead)
  /\ pc' = "decoded"
  /\ UNCHANGED <<record, stored, whole, got, manifest, heap>>

(* Fault: only the signers are freed, as in a manifest without links.      *)
FreedSigners ==
  /\ heap' = heap \ {manifest.signers}
  /\ manifest' = ZeroManifest

(* hc_manifest_destroy                                                     *)
Freed ==
  /\ heap' = heap \ {manifest.signers, manifest.linked}
  /\ manifest' = ZeroManifest

(* The bytes end too early, or an array cannot be allocated: the fail      *)
(* label of a manifest destroys what there is of it.                       *)
DecodeFails ==
  /\ AtField
  /\ \/ got.fields = Len(stored)
     \/ /\ got.fields < Len(stored)
        /\ Expected \in {"signers", "linked"}
        /\ Found.value > 0
  /\ Freed
  /\ pc' = "failed"
  /\ UNCHANGED <<record, stored, whole, got>>

-----------------------------------------------------------------------------
(* hc_manifest_init_single_signer, for a manifest that is made, not read.  *)
InitSingleSigner ==
  /\ pc = "idle"
  /\ IsManifest
  /\ manifest = ZeroManifest
  /\ record' = [ZeroRecord("manifest") EXCEPT !.signers = 1]
  /\ manifest' = [manifest EXCEPT !.signers = "signers"]
  /\ heap' = heap \cup {"signers"}
  /\ UNCHANGED <<stored, whole, got, pc>>

(* The caller's, also after a failed decode, and more than once.           *)
ManifestDestroy ==
  /\ pc \in {"stored", "decoded", "failed"}
  /\ IsManifest
  /\ Freed
  /\ UNCHANGED <<record, stored, whole, got, pc>>

(* Another record.                                                         *)
Again ==
  /\ pc \in {"decoded", "failed"}
  /\ manifest = ZeroManifest
  /\ record' \in Records
  /\ stored' = <<>>
  /\ whole' = TRUE
  /\ got' = NothingRead
  /\ pc' = "idle"
  /\ UNCHANGED <<manifest, heap>>

Next ==
  \/ CallEncode
  \/ CallHash
  \/ HashFails
  \/ EncodeField
  \/ EncodeStops
  \/ EncodeReturns
  \/ Cut
  \/ CallDecode
  \/ DecodeField
  \/ DecodeArray
  \/ DecodeReturns
  \/ DecodeFails
  \/ InitSingleSigner
  \/ ManifestDestroy
  \/ Again

Spec == Init /\ [][Next]_vars

-----------------------------------------------------------------------------
(* Every record with a signature of at most 64 bytes fits its buffer, with *)
(* the widest numbers and every optional field: nothing is stored cut      *)
(* although no error is looked at (HC_HEAD_MAX_SIZE and the other sizes of *)
(* include/hc, hc__db_core_write_head, hc__db_store_write_set_head).       *)
RecordsFit ==
  pc = "stored" /\ whole /\ record.bytes <= MaxSignature =>
    stored = Fields(record)

(* What preencode counts is what encode writes: a manifest always fits    *)
(* the memory that it was measured for, and fills it (hc_hashes_manifest,  *)
(* hc_manifest_preencode, hc_manifest_encode).                             *)
SizesAgree ==
  /\ pc = "encode" /\ IsManifest /\ Written < Len(ToWrite) => HasRoom
  /\ pc = "stored" /\ whole /\ IsManifest =>
       SizeOf(stored) = PreencodedSize(record)

(* A decoder that returns no error has read all of the record, each field  *)
(* as the one it was encoded as, and knows its optional fields, its counts *)
(* and its lengths; a record that was cut, by a buffer that was too small  *)
(* or later, is refused (the decode functions of schema/hc_schema.c).      *)
DecodedIsEncoded ==
  pc = "decoded" =>
    /\ stored = Fields(record)
    /\ got.of.has = record.has
    /\ got.of.signers = record.signers
    /\ Fields([got.of EXCEPT !.width = record.width]) = stored
    /\ \A i \in DOMAIN stored : ToRead[i] = stored[i].name

(* The cells in use are the ones that the caller's manifest points to, and *)
(* none once the call that failed has returned: nothing leaks, and nothing *)
(* is freed that is still pointed to (hc_manifest_decode,                  *)
(* hc_manifest_destroy, hc_hashes_manifest).                               *)
HeapOwned ==
  /\ heap \ {"buf"} = {manifest.signers, manifest.linked} \ {Null}
  /\ "buf" \in heap => pc = "encode"

=============================================================================
