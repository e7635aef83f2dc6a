------------------------------- MODULE Hashes -------------------------------
(***************************************************************************)
(* The namespaces of hashes and what is hashed under them (src/init.c,     *)
(* src/hashes.c).  hc_init fills the process-wide namespaces once; what is *)
(* signed or hashed later begins with one of them, so that no statement    *)
(* can be taken for another.                                               *)
(*                                                                         *)
(* libsodium is external: two hashes are equal only if what was hashed and *)
(* the key are.                                                            *)
(***************************************************************************)
EXTENDS Integers, Sequences, FiniteSets

CONSTANTS
  Keys,        \* Public keys, manifest hashes, tree hashes, handshakes.
  Numbers,     \* Lengths and forks.
  ByteBits,    \* The bits of a byte, 8 in the code.
  MaxMade      \* Bound: no more statements.

ASSUME ByteAssumption == ByteBits \in Nat \ {0}
ASSUME NumbersAssumption == Numbers \subseteq 0..2^(8 * ByteBits) - 1

VARIABLES
  initialized,  \* The flag of src/init.c.
  hashes,       \* hc_hashes_t: the namespaces that are filled.
  made,         \* The statements made, with what each is signed or hashed as.
  result        \* What hc_init returned last.

hashesVars == <<initialized, hashes, made, result>>

Names == <<"tree", "replicate_initiator", "replicate_responder", "manifest",
           "default_namespace", "default_encryption">>

Digest(key, input) == [key |-> key, input |-> input]

(* namespace_hash: the hash of a hash of "hypercore" and the index.        *)
NamespaceHash(index) == Digest("none", <<Digest("none", "hypercore"), index>>)

HashesInit ==
  /\ initialized = 0
  /\ hashes = [name \in {} |-> NamespaceHash(0)]
  /\ made = {}
  /\ result = "none"

-----------------------------------------------------------------------------
(* hc__hashes_init                                                         *)
Filled ==
  [name \in {Names[i] : i \in 1..Len(Names)} |->
     LET i == CHOOSE j \in 1..Len(Names) : Names[j] = name
     IN  NamespaceHash(i - 1)]

HcInit ==
  /\ initialized = 0
  /\ hashes' = Filled
  /\ initialized' = 1
  /\ result' = "ok"
  /\ UNCHANGED made

(* Fault: the flag is set although sodium_init failed.                     *)
HcInitFailsMarked ==
  /\ initialized = 0
  /\ initialized' = 1
  /\ result' = "failed"
  /\ UNCHANGED <<hashes, made>>

(* sodium_init fails; the call may be repeated.                            *)
HcInitFails ==
  /\ initialized = 0
  /\ result' = "failed"
  /\ UNCHANGED <<initialized, hashes, made>>

HcInitAgain ==
  /\ initialized = 1
  /\ result' = "again"
  /\ UNCHANGED <<initialized, hashes, made>>

-----------------------------------------------------------------------------
(* The i-th byte of a number, from the lowest: a shift and a cast.         *)
ByteOf(v, i) == (v \div 2^((i - 1) * ByteBits)) % 2^ByteBits

(* Fault: the highest byte is not written.                                 *)
Uint64LeOf7(v) == [i \in 1..8 |-> IF i = 8 THEN 0 ELSE ByteOf(v, i)]

(* write_uint64_le                                                         *)
Uint64Le(v) == [i \in 1..8 |-> ByteOf(v, i)]

Signable(manifest_hash, tree_hash, length, fork) ==
  [bytes |-> <<hashes["tree"], manifest_hash, tree_hash>>
               \o Uint64Le(length) \o Uint64Le(fork)]

Replicate(is_initiator, key, handshake_hash) ==
  Digest(handshake_hash,
         <<IF is_initiator THEN hashes["replicate_initiator"]
                           ELSE hashes["replicate_responder"], key>>)

(* Of an encoded manifest, told apart by its only signer's key (Codec).    *)
ManifestHash(key) == Digest("none", <<hashes["manifest"], key>>)

Makes(statement, as) ==
  /\ initialized = 1
  /\ Cardinality(made) < MaxMade
  /\ made' = made \cup {[statement |-> statement, as |-> as]}
  /\ UNCHANGED <<initialized, hashes, result>>

HashesTreeSignable ==
  \E m, t \in Keys, length, fork \in Numbers :
    Makes(<<"tree", m, t, length, fork>>, Signable(m, t, length, fork))

HashesReplicate ==
  \E side \in BOOLEAN, key, handshake \in Keys :
    Makes(<<"replicate", side, key, handshake>>,
          Replicate(side, key, handshake))

HashesManifest ==
  \E key \in Keys : Makes(<<"manifest", key>>, ManifestHash(key))

HashesNext ==
  \/ HcInit
  \/ HcInitFails
  \/ HcInitAgain
  \/ HashesTreeSignable
  \/ HashesReplicate
  \/ HashesManifest

HashesSpec == HashesInit /\ [][HashesNext]_hashesVars

-----------------------------------------------------------------------------
(* A call of hc_init that did not fail leaves every namespace filled, and  *)
(* no two alike, after failures and however often it is called             *)
(* (src/init.c; include/hc/hashes.h: "safe to call multiple times").       *)
NamespacesReady ==
  result \in {"ok", "again"} =>
    /\ \A i \in 1..Len(Names) : Names[i] \in DOMAIN hashes
    /\ \A n, m \in DOMAIN hashes : hashes[n] = hashes[m] => n = m

(* Different statements are never signed or hashed as the same bytes: not  *)
(* two lengths or forks of a tree, not the two sides of a replication, not *)
(* a manifest as anything else (hc_hashes_tree_signable,                   *)
(* hc_hashes_replicate, hc_hashes_manifest).                               *)
StatementsSeparate ==
  \A a, b \in made : a.as = b.as => a.statement = b.statement

=============================================================================
