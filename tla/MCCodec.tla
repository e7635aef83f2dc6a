------------------------------ MODULE MCCodec -------------------------------
(***************************************************************************)
(* Records for TLC: every kind, with the narrowest and the widest numbers, *)
(* every choice of optional fields, up to two elements, and bytes up to    *)
(* the signature a head counts with and beyond it.                         *)
(***************************************************************************)
EXTENDS Codec

SomeRecords ==
  UNION {
    [kind : {kind}, width : {1, 9}, has : SUBSET Options[kind],
     signers : IF kind = "manifest" THEN 0..2 ELSE {0},
     linked : IF kind = "manifest" THEN 0..2 ELSE {0},
     bytes : IF kind \in {"head", "manifest"} THEN {0, 64, 300} ELSE {0}] :
    kind \in Kinds}

=============================================================================
