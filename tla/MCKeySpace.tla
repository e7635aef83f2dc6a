----------------------------- MODULE MCKeySpace -----------------------------
(***************************************************************************)
(* Values for TLC: of every kind of record, the names over two pointers,   *)
(* two indices, two hashes and two names, and local keys that begin with   *)
(* the lowest and the highest byte.                                        *)
(***************************************************************************)
EXTENDS KeySpace

Numbers == {Uint(0), Uint(10)}

LocalKeys == {<<>>, <<Byte(0)>>, <<Byte(0), Byte(255)>>, <<Byte(255)>>}

SomeRecords ==
  {[kind |-> "store_head", args |-> <<>>]}
  \cup {[kind |-> "store_core", args |-> <<Hash(d)>>] : d \in 0..1}
  \cup {[kind |-> "core_by_alias", args |-> <<Hash(n), Text(t)>>] :
          n \in 0..1, t \in {0, TextEnd - 1}}
  \cup {[kind |-> kind, args |-> <<ptr>>] : ptr \in Numbers,
          kind \in {"core", "data", "auth", "sessions", "head", "dependency",
                    "hints"}}
  \cup {[kind |-> kind, args |-> <<ptr, index>>] : ptr, index \in Numbers,
          kind \in {"block", "tree", "mark"}}
  \cup {[kind |-> "bitfield", args |-> <<ptr, index, Uint(0)>>] :
          ptr, index \in Numbers}
  \cup {[kind |-> "user_data", args |-> <<ptr, Text(t)>>] :
          ptr \in Numbers, t \in {0, TextEnd - 1}}
  \cup {[kind |-> "local", args |-> <<ptr>> \o bytes] :
          ptr \in Numbers, bytes \in LocalKeys}

=============================================================================
