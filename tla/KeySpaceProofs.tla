--------------------------- MODULE KeySpaceProofs ---------------------------
(***************************************************************************)
(* What TLAPS proves of KeySpace: keys name records, the two encoders and  *)
(* the two passes agree, every range is exact, and the buffers suffice.    *)
(***************************************************************************)
EXTENDS KeySpace, NumberProofs

AnyField == [sort : {"uint", "hash", "text", "byte"}, value : Nat]

LEMMA FieldType ==
  /\ Field \subseteq AnyField
  /\ \A n \in Nat : /\ Uint(n) \in AnyField /\ Uint(n).value = n
                    /\ Uint(n).sort = "uint"
                    /\ Byte(n) \in AnyField /\ Byte(n).value = n
  /\ \A f \in Field : /\ f.value \in Nat /\ f = [sort |-> f.sort, value |-> f.value]
                      /\ f.sort = "text" => f.value < TextEnd
<1>1. TextEnd \in Nat
  BY TextEndAssumption
<1>2. \A f \in Field : /\ f \in AnyField
                       /\ f.value \in Nat /\ f = [sort |-> f.sort, value |-> f.value]
                       /\ f.sort = "text" => f.value < TextEnd
  BY <1>1 DEF Field, AnyField
<1>3. \A n \in Nat : /\ Uint(n) \in AnyField /\ Uint(n).value = n
                     /\ Uint(n).sort = "uint"
                     /\ Byte(n) \in AnyField /\ Byte(n).value = n
  BY DEF AnyField, Uint, Byte
<1>4. QED
  BY <1>2, <1>3

(* The kinds by the length of what their encoders are called with.         *)
Short == {"core", "data"}
Subtyped == {"auth", "sessions", "head", "dependency", "hints", "block", "tree",
             "bitfield", "user_data", "local", "mark"}

(* A pointer is a number, a namespace a hash, a text below the sentinel.   *)
ArgsRight(r) ==
  /\ r.args \in Seq(AnyField) /\ Len(r.args) \in Nat
  /\ \A i \in 1..Len(r.args) : r.args[i] \in Field
  /\ r.kind = "store_head" => Len(r.args) = 0
  /\ r.kind = "store_core" => Len(r.args) = 1
  /\ r.kind = "core_by_alias" =>
       Len(r.args) = 2 /\ r.args[1].sort = "hash" /\ r.args[2].sort = "text"
  /\ r.kind \in Short => Len(r.args) = 1
  /\ r.kind \in {"auth", "sessions", "head", "dependency", "hints"} => Len(r.args) = 1
  /\ r.kind \in {"block", "tree", "mark", "user_data"} => Len(r.args) = 2
  /\ r.kind = "bitfield" => Len(r.args) = 3
  /\ r.kind \notin StoreKinds => Len(r.args) >= 1 /\ r.args[1].sort = "uint"
  /\ r.kind = "local" => \A i \in 2..Len(r.args) : r.args[i].sort = "byte"

LEMMA KindsAre ==
  ASSUME NEW r, IsRecordName(r)
  PROVE  /\ r = [kind |-> r.kind, args |-> r.args] /\ r.kind \in Kinds
         /\ r.kind \in StoreKinds \/ r.kind \in Short \/ r.kind \in Subtyped
         /\ r.kind \in StoreKinds => r.kind \notin Short /\ r.kind \notin Subtyped
         /\ r.kind \in Short => r.kind \notin Subtyped
<1>1. r \in [kind : Kinds, args : Seq(Field)]
  BY DEF IsRecordName
<1>2. r = [kind |-> r.kind, args |-> r.args] /\ r.kind \in Kinds
  BY <1>1
<1>3. QED
  BY <1>2 DEF Kinds, StoreKinds, CoreKinds, DataKinds, Short, Subtyped

LEMMA ArgsAre ==
  ASSUME NEW r, IsRecordName(r)
  PROVE  ArgsRight(r)
<1> DEFINE n == Len(r.args)
           sorts == Sorts[r.kind]
<1>1. r.args \in Seq(Field) /\ r.kind \in Kinds
  BY DEF IsRecordName
<1>2. n \in Nat /\ \A i \in 1..n : r.args[i] \in Field
  BY <1>1
<1>3. r.args \in Seq(AnyField)
  BY <1>1, FieldType
<1>4. /\ IF r.kind = "local" THEN n >= 1 ELSE n = Len(sorts)
      /\ \A i \in 1..n :
           r.args[i].sort = IF i <= Len(sorts) THEN sorts[i] ELSE "byte"
  BY DEF IsRecordName
<1>5. /\ r.kind = "store_head" => sorts = <<>>
      /\ r.kind = "store_core" => sorts = <<"hash">>
      /\ r.kind = "core_by_alias" => sorts = <<"hash", "text">>
      /\ r.kind \in Short \cup {"auth", "sessions", "head", "dependency", "hints", "local"}
           => sorts = <<"uint">>
      /\ r.kind \in {"block", "tree", "mark"} => sorts = <<"uint", "uint">>
      /\ r.kind = "user_data" => sorts = <<"uint", "text">>
      /\ r.kind = "bitfield" => sorts = <<"uint", "uint", "uint">>
  BY DEF Sorts, Short
<1> HIDE DEF n, sorts
<1>6. r.kind = "store_head" => n = 0
  BY <1>4, <1>5
<1>7. r.kind = "store_core" => n = 1
  BY <1>4, <1>5
<1>8. r.kind = "core_by_alias" =>
        n = 2 /\ r.args[1].sort = "hash" /\ r.args[2].sort = "text"
  <2>1. ASSUME r.kind = "core_by_alias"
        PROVE  n = 2 /\ r.args[1].sort = "hash" /\ r.args[2].sort = "text"
    <3>1. sorts = <<"hash", "text">>
      BY <1>5, <2>1
    <3>2. Len(sorts) = 2 /\ sorts[1] = "hash" /\ sorts[2] = "text"
      BY <3>1
    <3>3. n = 2
      BY <1>4, <2>1, <3>2
    <3>4. QED
      BY <1>4, <3>2, <3>3
  <2>2. QED
    BY <2>1
<1>9. r.kind \in Short \cup {"auth", "sessions", "head", "dependency", "hints"} =>
        n = 1 /\ r.args[1].sort = "uint"
  BY <1>4, <1>5 DEF Short
<1>10. r.kind \in {"block", "tree", "mark"} => n = 2 /\ r.args[1].sort = "uint"
  <2>1. ASSUME r.kind \in {"block", "tree", "mark"}
        PROVE  n = 2 /\ r.args[1].sort = "uint"
    <3>1. sorts = <<"uint", "uint">>
      BY <1>5, <2>1
    <3>2. Len(sorts) = 2 /\ sorts[1] = "uint"
      BY <3>1
    <3>3. n = 2
      BY <1>4, <2>1, <3>2
    <3>4. QED
      BY <1>4, <3>2, <3>3
  <2>2. QED
    BY <2>1
<1>11. r.kind = "user_data" => n = 2 /\ r.args[1].sort = "uint"
  <2>1. ASSUME r.kind = "user_data"
        PROVE  n = 2 /\ r.args[1].sort = "uint"
    <3>1. sorts = <<"uint", "text">>
      BY <1>5, <2>1
    <3>2. Len(sorts) = 2 /\ sorts[1] = "uint"
      BY <3>1
    <3>3. n = 2
      BY <1>4, <2>1, <3>2
    <3>4. QED
      BY <1>4, <3>2, <3>3
  <2>2. QED
    BY <2>1
<1>12. r.kind = "bitfield" => n = 3 /\ r.args[1].sort = "uint"
  <2>1. ASSUME r.kind = "bitfield"
        PROVE  n = 3 /\ r.args[1].sort = "uint"
    <3>1. sorts = <<"uint", "uint", "uint">>
      BY <1>5, <2>1
    <3>2. Len(sorts) = 3 /\ sorts[1] = "uint"
      BY <3>1
    <3>3. n = 3
      BY <1>4, <2>1, <3>2
    <3>4. QED
      BY <1>4, <3>2, <3>3
  <2>2. QED
    BY <2>1
<1>13. r.kind = "local" => /\ n >= 1 /\ r.args[1].sort = "uint"
                           /\ \A i \in 2..n : r.args[i].sort = "byte"
  <2>1. ASSUME r.kind = "local"
        PROVE  /\ n >= 1 /\ r.args[1].sort = "uint"
               /\ \A i \in 2..n : r.args[i].sort = "byte"
    <3>1. n >= 1 /\ Len(sorts) = 1 /\ sorts[1] = "uint"
      BY <1>4, <1>5, <2>1
    <3>2. QED
      BY <1>2, <1>4, <3>1
  <2>2. QED
    BY <2>1
<1>14. r.kind \notin StoreKinds => n >= 1 /\ r.args[1].sort = "uint"
  <2>1. r.kind \in Kinds
    BY <1>1
  <2>2. QED
    BY <1>9, <1>10, <1>11, <1>12, <1>13, <2>1
       DEF Kinds, StoreKinds, CoreKinds, DataKinds, Short
<1>15. QED
  BY <1>2, <1>3, <1>6, <1>7, <1>8, <1>9, <1>10, <1>11, <1>12, <1>13, <1>14
     DEF ArgsRight, n

(* Where the fields of a record are in its key.                            *)
SpaceOf(kind) == IF kind \in StoreKinds THEN StoreSpace[kind] ELSE CoreSpace(kind)

KeyRight(r, K) ==
  /\ K \in Seq(AnyField) /\ K[1] = Uint(SpaceOf(r.kind))
  /\ r.kind \in StoreKinds =>
       /\ Len(K) = Len(r.args) + 1
       /\ \A i \in 1..Len(r.args) : K[1 + i] = r.args[i]
  /\ r.kind \in Short => Len(K) = 2 /\ K[2] = r.args[1]
  /\ r.kind \in Subtyped =>
       /\ Len(K) = Len(r.args) + 2 /\ K[2] = r.args[1]
       /\ K[3] = Uint(Subtype[r.kind])
       /\ \A i \in 1..Len(r.args) - 1 : K[3 + i] = r.args[1 + i]

LEMMA SpacesAre ==
  ASSUME NEW r, IsRecordName(r)
  PROVE  /\ SpaceOf(r.kind) \in 0..4
         /\ r.kind = "store_head" <=> SpaceOf(r.kind) = 0
         /\ r.kind = "store_core" <=> SpaceOf(r.kind) = 1
         /\ r.kind = "core_by_alias" <=> SpaceOf(r.kind) = 2
         /\ r.kind \in CoreKinds <=> SpaceOf(r.kind) = 3
         /\ r.kind \in DataKinds <=> SpaceOf(r.kind) = 4
<1>1. r.kind \in StoreKinds \/ r.kind \in CoreKinds \/ r.kind \in DataKinds
  BY DEF IsRecordName, Kinds
<1>2. QED
  BY <1>1 DEF SpaceOf, StoreSpace, CoreSpace, Space, StoreKinds, CoreKinds, DataKinds

(* A subtype belongs to one kind of records of a namespace.                *)
LEMMA SubtypesAre ==
  ASSUME NEW k \in Subtyped
  PROVE  /\ Subtype[k] \in 0..8 /\ SmallSubtype[k] = Subtype[k]
         /\ \A l \in Subtyped :
              Subtype[k] = Subtype[l] /\ (k \in CoreKinds <=> l \in CoreKinds) => k = l
         /\ k \notin CoreKinds =>
              (Subtype[k] = 6 <=> k = "user_data") /\ (Subtype[k] = 7 <=> k = "local")
<1>1. Subtype[k] \in 0..8 /\ SmallSubtype[k] = Subtype[k]
  BY DEF Subtyped, Subtype, SmallSubtype
<1>2. ASSUME NEW l \in Subtyped, Subtype[k] = Subtype[l], k \in CoreKinds <=> l \in CoreKinds
      PROVE  k = l
  <2>1. CASE k \in CoreKinds
    BY <1>2, <2>1 DEF Subtyped, Subtype, CoreKinds
  <2>2. CASE k \notin CoreKinds
    BY <1>2, <2>2 DEF Subtyped, Subtype, CoreKinds
  <2>3. QED
    BY <2>1, <2>2
<1>3. k \notin CoreKinds =>
        (Subtype[k] = 6 <=> k = "user_data") /\ (Subtype[k] = 7 <=> k = "local")
  BY DEF Subtyped, Subtype, CoreKinds
<1>4. QED
  BY <1>1, <1>2, <1>3

LEMMA KeyIs ==
  ASSUME NEW r, IsRecordName(r)
  PROVE  KeyRight(r, EncodeKey(r))
<1> DEFINE a == r.args
           n == Len(a)
           space == Uint(SpaceOf(r.kind))
           K == EncodeKey(r)
<1>1. a \in Seq(AnyField) /\ n \in Nat
      /\ (r.kind \notin StoreKinds => n >= 1) /\ (r.kind \in Short => n = 1)
  BY ArgsAre DEF ArgsRight
<1>2. space \in AnyField
  <2>1. SpaceOf(r.kind) \in Nat
    BY SpacesAre
  <2>2. QED
    BY <2>1, FieldType
<1>3. CASE r.kind \in StoreKinds
  <2>1. K = <<space>> \o a
    BY <1>3 DEF EncodeKey, EncodeStoreKey, SpaceOf
  <2> HIDE DEF a, n, space, K
  <2>2. <<space>> \in Seq(AnyField) /\ Len(<<space>>) = 1 /\ <<space>>[1] = space
    BY <1>2
  <2>3. K \in Seq(AnyField) /\ InOrder(K, <<space>>, a, 1, n)
    BY <1>1, <2>1, <2>2, ConcatInOrder DEF n
  <2>4. Len(K) = n + 1 /\ K[1] = space /\ \A i \in 1..n : K[1 + i] = a[i]
    BY <1>1, <2>2, <2>3 DEF InOrder
  <2>5. r.kind \notin Short /\ r.kind \notin Subtyped
    BY <1>3, KindsAre
  <2>6. QED
    BY <2>3, <2>4, <2>5 DEF KeyRight, a, n, space, K
<1>4. CASE r.kind \in Short
  <2>1. r.kind \notin StoreKinds /\ r.kind \notin Subtyped
    BY <1>4, KindsAre
  <2>2. K = <<space, a[1]>>
    BY <1>4, <2>1 DEF EncodeKey, EncodeCoreKey, EncodeCorePrefix, SpaceOf, Short
  <2>3. a[1] \in AnyField
    BY <1>1, <1>4
  <2> HIDE DEF a, space, K
  <2>4. K \in Seq(AnyField) /\ Len(K) = 2 /\ K[1] = space /\ K[2] = a[1]
    BY <1>2, <2>2, <2>3
  <2>5. QED
    BY <2>1, <2>4 DEF KeyRight, a, space, K
<1>5. CASE r.kind \in Subtyped
  <2> DEFINE sub == Uint(Subtype[r.kind])
             d == <<space, a[1]>> \o <<sub>>
             t == Tail(a)
  <2>1. r.kind \notin StoreKinds /\ r.kind \notin Short
    BY <1>5, KindsAre
  <2>2. K = d \o t
    BY <2>1 DEF EncodeKey, EncodeCoreKey, EncodeCoreSubtype, EncodeCorePrefix,
                SpaceOf, Short
  <2>3. a[1] \in AnyField /\ n >= 1
    BY <1>1, <2>1
  <2>4. sub \in AnyField
    <3>1. Subtype[r.kind] \in Nat
      BY <1>5, SubtypesAre
    <3>2. QED
      BY <3>1, FieldType
  <2>5. t \in Seq(AnyField) /\ Len(t) = n - 1 /\ \A i \in 1..n - 1 : t[i] = a[1 + i]
    <3>1. a # <<>>
      BY <2>3
    <3> HIDE DEF a
    <3>2. t \in Seq(AnyField) /\ Len(t) = n - 1
      BY <1>1, <3>1
    <3>3. ASSUME NEW i \in 1..n - 1
          PROVE  t[i] = a[1 + i]
      <4>1. t[i] = a[i + 1]
        BY <1>1, <3>1
      <4>2. i + 1 = 1 + i
        BY <1>1
      <4>3. QED
        BY <4>1, <4>2
    <3>4. QED
      BY <3>2, <3>3
  <2> HIDE DEF a, n, space, K, t, sub
  <2> DEFINE p == <<space, a[1]>>
             q == <<sub>>
  <2>6. /\ p \in Seq(AnyField) /\ Len(p) = 2 /\ p[1] = space /\ p[2] = a[1]
        /\ q \in Seq(AnyField) /\ Len(q) = 1 /\ q[1] = sub
    BY <1>2, <2>3, <2>4
  <2> HIDE DEF p, q
  <2>7. d \in Seq(AnyField) /\ InOrder(d, p, q, 2, 1)
    BY <2>6, ConcatInOrder DEF p, q
  <2> HIDE DEF d
  <2>8. Len(d) = 3 /\ d[1] = space /\ d[2] = a[1] /\ d[3] = sub
    <3>1. d[2 + 1] = q[1] /\ d[1] = p[1] /\ d[2] = p[2] /\ Len(d) = 2 + 1
      BY <2>7 DEF InOrder
    <3>2. QED
      BY <2>6, <3>1
  <2>9. K \in Seq(AnyField) /\ InOrder(K, d, t, 3, n - 1)
    BY <2>2, <2>5, <2>7, <2>8, ConcatInOrder
  <2>10. /\ Len(K) = 3 + (n - 1) /\ K[1] = space /\ K[2] = a[1] /\ K[3] = sub
         /\ \A i \in 1..n - 1 : K[3 + i] = t[i]
    BY <2>8, <2>9 DEF InOrder
  <2>11. Len(K) = n + 2 /\ \A i \in 1..n - 1 : K[3 + i] = a[1 + i]
    <3>1. 3 + (n - 1) = n + 2
      BY <1>1
    <3>2. Len(K) = n + 2
      BY <2>10, <3>1
    <3>3. ASSUME NEW i \in 1..n - 1
          PROVE  K[3 + i] = a[1 + i]
      <4>1. K[3 + i] = t[i]
        BY <2>10
      <4>2. t[i] = a[1 + i]
        BY <2>5
      <4>3. QED
        BY <4>1, <4>2
    <3>4. QED
      BY <3>2, <3>3
  <2>12. QED
    BY <2>1, <2>9, <2>10, <2>11 DEF KeyRight, a, n, space, K, sub
<1>6. QED
  BY <1>3, <1>4, <1>5, KindsAre

(* No two records have the same key.                                       *)
LEMMA KeysSeparate ==
  ASSUME NEW r, IsRecordName(r), NEW s, IsRecordName(s),
         EncodeKey(r) = EncodeKey(s)
  PROVE  r = s
<1> DEFINE K == EncodeKey(r)
           a == r.args
           b == s.args
<1>1. KeyRight(r, K) /\ KeyRight(s, K)
  BY KeyIs
<1> HIDE DEF K
<1>2. a \in Seq(AnyField) /\ Len(a) \in Nat /\ ArgsRight(r)
      /\ b \in Seq(AnyField) /\ Len(b) \in Nat /\ ArgsRight(s)
  BY ArgsAre DEF ArgsRight
<1>3. SpaceOf(r.kind) \in 0..4 /\ SpaceOf(s.kind) \in 0..4
      /\ Uint(SpaceOf(r.kind)) = Uint(SpaceOf(s.kind))
  BY <1>1, SpacesAre DEF KeyRight
<1>4. SpaceOf(r.kind) = SpaceOf(s.kind)
  BY <1>3, FieldType
<1>5. r.kind = s.kind
  <2>1. CASE r.kind \in StoreKinds
    <3>1. r.kind \in {"store_head", "store_core", "core_by_alias"}
      BY <2>1 DEF StoreKinds
    <3>2. /\ r.kind = "store_head" <=> s.kind = "store_head"
          /\ r.kind = "store_core" <=> s.kind = "store_core"
          /\ r.kind = "core_by_alias" <=> s.kind = "core_by_alias"
      BY <1>4, SpacesAre
    <3>3. QED
      BY <3>1, <3>2
  <2>2. CASE r.kind \notin StoreKinds
    <3>1. r.kind \in CoreKinds <=> s.kind \in CoreKinds
      BY <1>4, SpacesAre
    <3>2. r.kind \in DataKinds <=> s.kind \in DataKinds
      BY <1>4, SpacesAre
    <3>3. r.kind \in CoreKinds \cup DataKinds
      BY <2>2 DEF IsRecordName, Kinds
    <3>4. s.kind \notin StoreKinds
      BY <3>1, <3>2, <3>3 DEF StoreKinds, CoreKinds, DataKinds
    <3>5. Len(a) >= 1 /\ Len(b) >= 1
      BY <1>2, <2>2, <3>4 DEF ArgsRight
    <3>6. /\ r.kind \in Short <=> Len(K) = 2
          /\ s.kind \in Short <=> Len(K) = 2
      BY <1>1, <1>2, <2>2, <3>4, <3>5, KindsAre DEF KeyRight
    <3>7. CASE r.kind \in Short
      BY <3>1, <3>6, <3>7 DEF Short, CoreKinds
    <3>8. CASE r.kind \notin Short
      <4>1. r.kind \in Subtyped /\ s.kind \in Subtyped
        BY <2>2, <3>4, <3>6, <3>8, KindsAre
      <4>2. Uint(Subtype[r.kind]) = Uint(Subtype[s.kind])
        BY <1>1, <4>1 DEF KeyRight
      <4>3. Subtype[r.kind] \in Nat /\ Subtype[s.kind] \in Nat
        BY <4>1, SubtypesAre
      <4>4. Subtype[r.kind] = Subtype[s.kind]
        BY <4>2, <4>3, FieldType
      <4>5. QED
        BY <3>1, <4>1, <4>4, SubtypesAre
    <3>9. QED
      BY <3>7, <3>8
  <2>3. QED
    BY <2>1, <2>2
<1>6. a = b
  <2>1. CASE r.kind \in StoreKinds
    <3>1. /\ Len(K) = Len(a) + 1 /\ Len(K) = Len(b) + 1
          /\ \A i \in 1..Len(a) : K[1 + i] = a[i]
          /\ \A i \in 1..Len(b) : K[1 + i] = b[i]
      BY <1>1, <1>5, <2>1 DEF KeyRight
    <3>2. Len(a) = Len(b)
      BY <1>2, <3>1
    <3>3. \A i \in 1..Len(b) : a[i] = b[i]
      BY <3>1, <3>2
    <3>4. QED
      BY <1>2, <3>2, <3>3, SameLists
  <2>2. CASE r.kind \in Short
    <3>1. Len(a) = 1 /\ Len(b) = 1 /\ a[1] = b[1]
      BY <1>1, <1>2, <1>5, <2>2 DEF KeyRight, ArgsRight
    <3>2. \A i \in 1..Len(b) : a[i] = b[i]
      BY <3>1
    <3>3. QED
      BY <1>2, <3>1, <3>2, SameLists
  <2>3. CASE r.kind \in Subtyped
    <3>1. /\ Len(K) = Len(a) + 2 /\ Len(K) = Len(b) + 2
          /\ K[2] = a[1] /\ K[2] = b[1]
          /\ \A i \in 1..Len(a) - 1 : K[3 + i] = a[1 + i]
          /\ \A i \in 1..Len(b) - 1 : K[3 + i] = b[1 + i]
      BY <1>1, <1>5, <2>3 DEF KeyRight
    <3>2. Len(a) = Len(b)
      BY <1>2, <3>1
    <3>3. ASSUME NEW i \in 1..Len(b)
          PROVE  a[i] = b[i]
      <4>1. CASE i = 1
        BY <3>1, <4>1
      <4>2. CASE i # 1
        <5>1. i - 1 \in 1..Len(b) - 1 /\ 1 + (i - 1) = i
          BY <1>2, <4>2
        <5>2. a[1 + (i - 1)] = b[1 + (i - 1)]
          BY <3>1, <3>2, <5>1
        <5>3. QED
          BY <5>1, <5>2
      <4>3. QED
        BY <4>1, <4>2
    <3>4. QED
      BY <1>2, <3>2, <3>3, SameLists
  <2>4. QED
    BY <2>1, <2>2, <2>3, KindsAre
<1>7. r = [kind |-> r.kind, args |-> a] /\ s = [kind |-> s.kind, args |-> b]
  BY KindsAre
<1> HIDE DEF a, b
<1>8. QED
  BY <1>5, <1>6, <1>7

(* The two encoders write the same keys.                                   *)
LEMMA SmallKeyIs ==
  ASSUME NEW r, IsRecordName(r), r.kind \in SmallKinds
  PROVE  SmallKey(r) = EncodeKey(r)
<1> DEFINE K == EncodeKey(r)
           L == SmallKey(r)
           a == r.args
<1>1. KeyRight(r, K) /\ K \in Seq(AnyField)
  BY KeyIs DEF KeyRight
<1>2. ArgsRight(r) /\ \A i \in 1..Len(a) : a[i] \in AnyField
  BY ArgsAre DEF ArgsRight
<1>3. Uint(SpaceOf(r.kind)) \in AnyField
  <2>1. SpaceOf(r.kind) \in Nat
    BY SpacesAre
  <2>2. QED
    BY <2>1, FieldType
<1> DEFINE space == Uint(SpaceOf(r.kind))
<1>4. CASE r.kind = "store_head"
  <2>1. L = <<space>>
    BY <1>4 DEF SmallKey, StoreKinds, SmallStoreKey, SmallSpace, SpaceOf, StoreSpace, Space
  <2>2. Len(K) = 1 /\ K[1] = space
    <3>1. Len(a) = 0
      BY <1>2, <1>4 DEF ArgsRight
    <3>2. Len(K) = Len(a) + 1 /\ K[1] = space
      BY <1>1, <1>4 DEF KeyRight, StoreKinds
    <3>3. QED
      BY <3>1, <3>2
  <2> HIDE DEF K, L, space
  <2>3. L \in Seq(AnyField) /\ Len(L) = 1 /\ L[1] = space
    BY <1>3, <2>1 DEF space
  <2>4. \A i \in 1..Len(K) : L[i] = K[i]
    BY <2>2, <2>3
  <2>5. L = K
    BY <1>1, <2>2, <2>3, <2>4, SameLists
  <2>6. QED
    BY <2>5 DEF K, L
<1>5. CASE r.kind \in {"store_core", "core", "data"}
  <2>1. L = <<space, a[1]>>
    BY <1>5 DEF SmallKey, StoreKinds, SmallStoreKey, SmallCoreKey, TlPtr, SmallSpace,
                SpaceOf, StoreSpace, CoreSpace, CoreKinds, Space
  <2>2. Len(a) = 1
    BY <1>2, <1>5 DEF ArgsRight, Short
  <2>3. Len(K) = 2 /\ K[1] = space /\ K[2] = a[1]
    <3>1. CASE r.kind = "store_core"
      <4>1. Len(K) = Len(a) + 1 /\ K[1] = space /\ \A i \in 1..Len(a) : K[1 + i] = a[i]
        BY <1>1, <3>1 DEF KeyRight, StoreKinds
      <4>2. 1 \in 1..Len(a) /\ 1 + 1 = 2 /\ Len(a) + 1 = 2
        BY <2>2
      <4>3. K[1 + 1] = a[1]
        BY <4>1, <4>2
      <4>4. QED
        BY <4>1, <4>2, <4>3
    <3>2. CASE r.kind \in {"core", "data"}
      BY <1>1, <3>2 DEF KeyRight, Short
    <3>3. QED
      BY <1>5, <3>1, <3>2
  <2>4. a[1] \in AnyField
    BY <1>2, <2>2
  <2> HIDE DEF K, L, space, a
  <2>5. L \in Seq(AnyField) /\ Len(L) = 2 /\ L[1] = space /\ L[2] = a[1]
    BY <1>3, <2>1, <2>4 DEF space
  <2>6. \A i \in 1..Len(K) : L[i] = K[i]
    BY <2>3, <2>5
  <2>7. L = K
    BY <1>1, <2>3, <2>5, <2>6, SameLists
  <2>8. QED
    BY <2>7 DEF K, L
<1>6. CASE r.kind \in {"auth", "sessions", "head", "dependency", "hints"}
  <2> DEFINE sub == Uint(Subtype[r.kind])
  <2>1. r.kind \in Subtyped /\ SmallSubtype[r.kind] = Subtype[r.kind]
        /\ sub \in AnyField
    <3>1. r.kind \in Subtyped
      BY <1>6 DEF Subtyped
    <3>2. SmallSubtype[r.kind] = Subtype[r.kind] /\ Subtype[r.kind] \in Nat
      BY <3>1, SubtypesAre
    <3>3. QED
      BY <3>1, <3>2, FieldType
  <2>2. L = <<space, a[1], sub>>
    BY <1>6, <2>1 DEF SmallKey, StoreKinds, SmallCoreKey, TlPtrSubtype, SmallSpace,
                      SpaceOf, CoreSpace, CoreKinds, Space
  <2>3. Len(a) = 1
    BY <1>2, <1>6 DEF ArgsRight
  <2>4. Len(K) = 3 /\ K[1] = space /\ K[2] = a[1] /\ K[3] = sub /\ a[1] \in AnyField
    BY <1>1, <1>2, <2>1, <2>3 DEF KeyRight
  <2> HIDE DEF K, L, space, a, sub
  <2>5. L \in Seq(AnyField) /\ Len(L) = 3 /\ L[1] = space /\ L[2] = a[1] /\ L[3] = sub
    BY <1>3, <2>1, <2>2, <2>4 DEF space
  <2>6. \A i \in 1..Len(K) : L[i] = K[i]
    BY <2>4, <2>5
  <2>7. L = K
    BY <1>1, <2>4, <2>5, <2>6, SameLists
  <2>8. QED
    BY <2>7 DEF K, L
<1>7. CASE r.kind \in {"block", "tree", "mark"}
  <2> DEFINE sub == Uint(Subtype[r.kind])
  <2>1. r.kind \in Subtyped /\ SmallSubtype[r.kind] = Subtype[r.kind]
        /\ sub \in AnyField
    <3>1. r.kind \in Subtyped
      BY <1>7 DEF Subtyped
    <3>2. SmallSubtype[r.kind] = Subtype[r.kind] /\ Subtype[r.kind] \in Nat
      BY <3>1, SubtypesAre
    <3>3. QED
      BY <3>1, <3>2, FieldType
  <2>2. L = <<space, a[1], sub, a[2]>>
    BY <1>7, <2>1 DEF SmallKey, StoreKinds, SmallCoreKey, TlPtrSubtypeIndex, SmallSpace,
                      SpaceOf, CoreSpace, CoreKinds, Space
  <2>3. Len(a) = 2
    BY <1>2, <1>7 DEF ArgsRight
  <2>4. /\ Len(K) = 4 /\ K[1] = space /\ K[2] = a[1] /\ K[3] = sub /\ K[4] = a[2]
        /\ a[1] \in AnyField /\ a[2] \in AnyField
    <3>1. /\ Len(K) = Len(a) + 2 /\ K[1] = space /\ K[2] = a[1] /\ K[3] = sub
          /\ \A i \in 1..Len(a) - 1 : K[3 + i] = a[1 + i]
      BY <1>1, <2>1 DEF KeyRight
    <3>2. 1 \in 1..Len(a) - 1 /\ 3 + 1 = 4 /\ 1 + 1 = 2 /\ Len(a) + 2 = 4
      BY <2>3
    <3>3. K[3 + 1] = a[1 + 1]
      BY <3>1, <3>2
    <3>4. QED
      BY <1>2, <2>3, <3>1, <3>2, <3>3
  <2> HIDE DEF K, L, space, a, sub
  <2>5. /\ L \in Seq(AnyField) /\ Len(L) = 4 /\ L[1] = space /\ L[2] = a[1]
        /\ L[3] = sub /\ L[4] = a[2]
    BY <1>3, <2>1, <2>2, <2>4 DEF space
  <2>6. \A i \in 1..Len(K) : L[i] = K[i]
    BY <2>4, <2>5
  <2>7. L = K
    BY <1>1, <2>4, <2>5, <2>6, SameLists
  <2>8. QED
    BY <2>7 DEF K, L
<1>8. QED
  BY <1>4, <1>5, <1>6, <1>7 DEF SmallKinds

-----------------------------------------------------------------------------
(* The order of two keys is decided at the first place where they differ.  *)
AgreeUpTo(k, l, n) == \A i \in 1..n : k[i].value = l[i].value

DiffersAt(k, l, n) ==
  /\ n <= Len(k) /\ n <= Len(l) /\ AgreeUpTo(k, l, n)
  /\ \/ n = Len(k) /\ n < Len(l)
     \/ n < Len(k) /\ n < Len(l) /\ k[n + 1].value < l[n + 1].value

LEMMA BeforePlaces ==
  ASSUME NEW k \in Seq(AnyField), NEW l \in Seq(AnyField)
  PROVE  Before(k, l) <=> \E n \in Nat : n < Len(l) /\ DiffersAt(k, l, n)
<1>1. Len(k) \in Nat /\ Len(l) \in Nat
  OBVIOUS
<1>2. ASSUME Before(k, l)
      PROVE  \E n \in Nat : n < Len(l) /\ DiffersAt(k, l, n)
  BY <1>1, <1>2 DEF Before, DiffersAt, AgreeUpTo
<1>3. ASSUME NEW n \in Nat, n < Len(l), DiffersAt(k, l, n)
      PROVE  Before(k, l)
  <2>1. n \in 0..Len(k)
    BY <1>1, <1>3 DEF DiffersAt
  <2>2. QED
    BY <1>3, <2>1 DEF Before, DiffersAt, AgreeUpTo
<1>4. QED
  BY <1>2, <1>3

LEMMA PlacesAgree ==
  ASSUME NEW k, NEW l
  PROVE  /\ AgreeUpTo(k, l, 0)
         /\ AgreeUpTo(k, l, 1) <=> k[1].value = l[1].value
         /\ AgreeUpTo(k, l, 2) <=> k[1].value = l[1].value /\ k[2].value = l[2].value
<1>1. 1..0 = {} /\ 1..1 = {1} /\ 1..2 = {1, 2}
  OBVIOUS
<1>2. QED
  BY <1>1 DEF AgreeUpTo

LEMMA DiffersIs ==
  ASSUME NEW k, NEW l, Len(k) \in Nat, Len(l) \in Nat,
         NEW n \in Nat, n < Len(l), NEW m, m = n + 1
  PROVE  DiffersAt(k, l, n) <=>
           /\ AgreeUpTo(k, l, n)
           /\ n = Len(k) \/ (n < Len(k) /\ k[m].value < l[m].value)
BY DEF DiffersAt

LEMMA BeforeOne ==
  ASSUME NEW k \in Seq(AnyField), NEW l \in Seq(AnyField), Len(k) >= 1, Len(l) = 1
  PROVE  Before(k, l) <=> k[1].value < l[1].value
<1>1. Before(k, l) <=> \E n \in Nat : n < 1 /\ DiffersAt(k, l, n)
  BY BeforePlaces
<1>2. Before(k, l) <=> DiffersAt(k, l, 0)
  <2>1. \A n \in Nat : n < 1 <=> n = 0
    OBVIOUS
  <2>2. QED
    BY <1>1, <2>1
<1>3. Len(k) \in Nat /\ Len(l) \in Nat /\ AgreeUpTo(k, l, 0)
  BY PlacesAgree
<1>4. QED
  BY <1>2, <1>3 DEF DiffersAt

LEMMA BeforeTwo ==
  ASSUME NEW k \in Seq(AnyField), NEW l \in Seq(AnyField), Len(k) >= 1, Len(l) = 2
  PROVE  Before(k, l) <=>
           \/ k[1].value < l[1].value
           \/ /\ k[1].value = l[1].value
              /\ Len(k) = 1 \/ k[2].value < l[2].value
<1>1. Before(k, l) <=> \E n \in Nat : n < 2 /\ DiffersAt(k, l, n)
  BY BeforePlaces
<1>2. Before(k, l) <=> DiffersAt(k, l, 0) \/ DiffersAt(k, l, 1)
  <2>1. \A n \in Nat : n < 2 <=> n = 0 \/ n = 1
    OBVIOUS
  <2>2. QED
    BY <1>1, <2>1
<1>3. /\ Len(k) \in Nat /\ Len(l) \in Nat /\ AgreeUpTo(k, l, 0)
      /\ AgreeUpTo(k, l, 1) <=> k[1].value = l[1].value
  BY PlacesAgree
<1>4. DiffersAt(k, l, 0) <=> k[1].value < l[1].value
  <2>1. 0 + 1 = 1 /\ 0 < Len(l)
    OBVIOUS
  <2>2. DiffersAt(k, l, 0) <=>
          /\ AgreeUpTo(k, l, 0)
          /\ 0 = Len(k) \/ (0 < Len(k) /\ k[1].value < l[1].value)
    BY <1>3, <2>1, DiffersIs
  <2>3. QED
    BY <1>3, <2>2
<1>5. DiffersAt(k, l, 1) <=> /\ k[1].value = l[1].value
                             /\ Len(k) = 1 \/ k[2].value < l[2].value
  <2>1. 1 + 1 = 2 /\ 1 < Len(l) /\ (1 = Len(k) \/ 1 < Len(k))
    <3>1. \A q \in Nat : q >= 1 => 1 = q \/ 1 < q
      OBVIOUS
    <3>2. 1 = Len(k) \/ 1 < Len(k)
      BY <1>3, <3>1
    <3>3. 1 + 1 = 2 /\ 1 < Len(l)
      OBVIOUS
    <3>4. QED
      BY <3>2, <3>3
  <2>2. DiffersAt(k, l, 1) <=>
          /\ AgreeUpTo(k, l, 1)
          /\ 1 = Len(k) \/ (1 < Len(k) /\ k[2].value < l[2].value)
    BY <1>3, <2>1, DiffersIs
  <2>3. QED
    BY <1>3, <2>1, <2>2
<1>6. QED
  BY <1>2, <1>4, <1>5

LEMMA BeforeThree ==
  ASSUME NEW k \in Seq(AnyField), NEW l \in Seq(AnyField), Len(k) >= 1, Len(l) = 3
  PROVE  Before(k, l) <=>
           \/ k[1].value < l[1].value
           \/ /\ k[1].value = l[1].value
              /\ Len(k) = 1 \/ k[2].value < l[2].value
           \/ /\ Len(k) >= 2
              /\ k[1].value = l[1].value /\ k[2].value = l[2].value
              /\ Len(k) = 2 \/ k[3].value < l[3].value
<1>1. Before(k, l) <=> \E n \in Nat : n < 3 /\ DiffersAt(k, l, n)
  BY BeforePlaces
<1>2. Before(k, l) <=> DiffersAt(k, l, 0) \/ DiffersAt(k, l, 1) \/ DiffersAt(k, l, 2)
  <2>1. \A n \in Nat : n < 3 <=> n = 0 \/ n = 1 \/ n = 2
    OBVIOUS
  <2>2. QED
    BY <1>1, <2>1
<1>3. /\ Len(k) \in Nat /\ Len(l) \in Nat /\ AgreeUpTo(k, l, 0)
      /\ AgreeUpTo(k, l, 1) <=> k[1].value = l[1].value
      /\ AgreeUpTo(k, l, 2) <=> k[1].value = l[1].value /\ k[2].value = l[2].value
  BY PlacesAgree
<1>4. DiffersAt(k, l, 0) <=> k[1].value < l[1].value
  <2>1. 0 + 1 = 1 /\ 0 < Len(l)
    OBVIOUS
  <2>2. DiffersAt(k, l, 0) <=>
          /\ AgreeUpTo(k, l, 0)
          /\ 0 = Len(k) \/ (0 < Len(k) /\ k[1].value < l[1].value)
    BY <1>3, <2>1, DiffersIs
  <2>3. QED
    BY <1>3, <2>2
<1>5. DiffersAt(k, l, 1) <=> /\ k[1].value = l[1].value
                             /\ Len(k) = 1 \/ k[2].value < l[2].value
  <2>1. 1 + 1 = 2 /\ 1 < Len(l) /\ (1 = Len(k) \/ 1 < Len(k))
    <3>1. \A q \in Nat : q >= 1 => 1 = q \/ 1 < q
      OBVIOUS
    <3>2. 1 = Len(k) \/ 1 < Len(k)
      BY <1>3, <3>1
    <3>3. 1 + 1 = 2 /\ 1 < Len(l)
      OBVIOUS
    <3>4. QED
      BY <3>2, <3>3
  <2>2. DiffersAt(k, l, 1) <=>
          /\ AgreeUpTo(k, l, 1)
          /\ 1 = Len(k) \/ (1 < Len(k) /\ k[2].value < l[2].value)
    BY <1>3, <2>1, DiffersIs
  <2>3. QED
    BY <1>3, <2>1, <2>2
<1>6. DiffersAt(k, l, 2) <=> /\ Len(k) >= 2
                             /\ k[1].value = l[1].value /\ k[2].value = l[2].value
                             /\ Len(k) = 2 \/ k[3].value < l[3].value
  <2>1. 2 + 1 = 3 /\ 2 < Len(l) /\ (Len(k) >= 2 <=> 2 = Len(k) \/ 2 < Len(k))
    <3>1. \A q \in Nat : q >= 2 <=> 2 = q \/ 2 < q
      OBVIOUS
    <3>2. Len(k) >= 2 <=> 2 = Len(k) \/ 2 < Len(k)
      BY <1>3, <3>1
    <3>3. 2 + 1 = 3 /\ 2 < Len(l)
      OBVIOUS
    <3>4. QED
      BY <3>2, <3>3
  <2>2. DiffersAt(k, l, 2) <=>
          /\ AgreeUpTo(k, l, 2)
          /\ 2 = Len(k) \/ (2 < Len(k) /\ k[3].value < l[3].value)
    BY <1>3, <2>1, DiffersIs
  <2>3. QED
    BY <1>3, <2>1, <2>2
<1>7. QED
  BY <1>2, <1>4, <1>5, <1>6

(* The values of a key's first fields.                                     *)
LEMMA KeyValues ==
  ASSUME NEW r, IsRecordName(r)
  PROVE  LET K == EncodeKey(r) IN
         /\ K \in Seq(AnyField) /\ Len(K) \in Nat /\ Len(K) >= 1
         /\ K[1].value = SpaceOf(r.kind) /\ SpaceOf(r.kind) \in 0..4
         /\ r.kind = "core_by_alias" =>
              /\ Len(K) = 3 /\ K[2].value = r.args[1].value
              /\ K[3].value < TextEnd /\ K[3].value \in Nat
         /\ r.kind \in Short => Len(K) = 2
         /\ r.kind \in Subtyped => /\ Len(K) >= 3 /\ K[2].value = r.args[1].value
                                   /\ K[3].value = Subtype[r.kind]
<1> DEFINE K == EncodeKey(r)
           a == r.args
<1>1. KeyRight(r, K) /\ ArgsRight(r)
  BY KeyIs, ArgsAre
<1>2. SpaceOf(r.kind) \in 0..4
  BY SpacesAre
<1>3. K \in Seq(AnyField) /\ Len(K) \in Nat
  BY <1>1 DEF KeyRight
<1> HIDE DEF K
<1>4. Uint(SpaceOf(r.kind)).value = SpaceOf(r.kind)
  BY <1>2, FieldType
<1>5. K[1].value = SpaceOf(r.kind)
  BY <1>1, <1>4 DEF KeyRight
<1>6. Len(a) \in Nat /\ (r.kind \notin StoreKinds => Len(a) >= 1)
  BY <1>1 DEF ArgsRight
<1>7. Len(K) >= 1
  BY <1>1, <1>6, KindsAre DEF KeyRight
<1>8. ASSUME r.kind = "core_by_alias"
      PROVE  /\ Len(K) = 3 /\ K[2].value = a[1].value
             /\ K[3].value < TextEnd /\ K[3].value \in Nat
  <2>1. Len(a) = 2 /\ a[2].sort = "text" /\ a[2] \in Field
    BY <1>1, <1>8 DEF ArgsRight
  <2>2. Len(K) = Len(a) + 1 /\ \A i \in 1..Len(a) : K[1 + i] = a[i]
    BY <1>1, <1>8 DEF KeyRight, StoreKinds
  <2>3. 1 \in 1..Len(a) /\ 2 \in 1..Len(a) /\ 1 + 1 = 2 /\ 1 + 2 = 3
    BY <2>1
  <2>4. K[1 + 1] = a[1] /\ K[1 + 2] = a[2]
    BY <2>2, <2>3
  <2>5. QED
    BY <2>1, <2>2, <2>3, <2>4, FieldType
<1>9. r.kind \in Short => Len(K) = 2
  BY <1>1 DEF KeyRight
<1>10. ASSUME r.kind \in Subtyped
       PROVE  /\ Len(K) >= 3 /\ K[2].value = a[1].value
              /\ K[3].value = Subtype[r.kind]
  <2>1. /\ Len(K) = Len(a) + 2 /\ K[2] = a[1] /\ K[3] = Uint(Subtype[r.kind])
    BY <1>1, <1>10 DEF KeyRight
  <2>2. r.kind \notin StoreKinds
    BY <1>10, KindsAre
  <2>3. Uint(Subtype[r.kind]).value = Subtype[r.kind]
    <3>1. Subtype[r.kind] \in Nat
      BY <1>10, SubtypesAre
    <3>2. QED
      BY <3>1, FieldType
  <2>4. QED
    BY <1>6, <2>1, <2>2, <2>3
<1>11. QED
  BY <1>2, <1>3, <1>5, <1>7, <1>8, <1>9, <1>10 DEF K

-----------------------------------------------------------------------------
(* Which keys are in a range of whole namespaces.                          *)
LEMMA InSpaces ==
  ASSUME NEW r, IsRecordName(r), NEW a \in Nat, NEW b \in Nat
  PROVE  InRange(EncodeKey(r), [from |-> <<Uint(a)>>, to |-> <<Uint(b)>>])
           <=> a <= SpaceOf(r.kind) /\ SpaceOf(r.kind) < b
<1> DEFINE K == EncodeKey(r)
           range == [from |-> <<Uint(a)>>, to |-> <<Uint(b)>>]
           p == <<Uint(a)>>
           q == <<Uint(b)>>
<1>1. range.from = p /\ range.to = q
  OBVIOUS
<1>2. /\ p \in Seq(AnyField) /\ Len(p) = 1 /\ p[1].value = a
      /\ q \in Seq(AnyField) /\ Len(q) = 1 /\ q[1].value = b
  BY FieldType
<1>3. /\ K \in Seq(AnyField) /\ Len(K) >= 1 /\ K[1].value = SpaceOf(r.kind)
      /\ SpaceOf(r.kind) \in 0..4
  BY KeyValues
<1> HIDE DEF K, range, p, q
<1>4. InRange(K, range) <=> ~Before(K, p) /\ Before(K, q)
  BY <1>1 DEF InRange
<1>5. (Before(K, p) <=> SpaceOf(r.kind) < a) /\ (Before(K, q) <=> SpaceOf(r.kind) < b)
  BY <1>2, <1>3, BeforeOne
<1>6. InRange(K, range) <=> a <= SpaceOf(r.kind) /\ SpaceOf(r.kind) < b
  BY <1>3, <1>4, <1>5
<1>7. QED
  BY <1>6 DEF K, range

LEMMA InWholeRanges ==
  ASSUME NEW r, IsRecordName(r)
  PROVE  /\ InRange(EncodeKey(r), CoresRange) <=> r.kind = "store_core"
         /\ InRange(EncodeKey(r), AllAliasesRange) <=> r.kind = "core_by_alias"
         /\ InRange(EncodeKey(r), ClearRange)
<1>1. SpaceOf(r.kind) \in 0..4
      /\ (r.kind = "store_core" <=> SpaceOf(r.kind) = 1)
      /\ (r.kind = "core_by_alias" <=> SpaceOf(r.kind) = 2)
  BY SpacesAre
<1>2. /\ CoresRange = [from |-> <<Uint(1)>>, to |-> <<Uint(2)>>]
      /\ AllAliasesRange = [from |-> <<Uint(2)>>, to |-> <<Uint(3)>>]
      /\ ClearRange = [from |-> <<Uint(0)>>, to |-> <<Uint(5)>>]
  BY DEF CoresRange, AllAliasesRange, ClearRange, Space
<1>3. InRange(EncodeKey(r), CoresRange) <=> 1 <= SpaceOf(r.kind) /\ SpaceOf(r.kind) < 2
  BY <1>2, InSpaces
<1>4. InRange(EncodeKey(r), AllAliasesRange) <=> 2 <= SpaceOf(r.kind) /\ SpaceOf(r.kind) < 3
  BY <1>2, InSpaces
<1>5. InRange(EncodeKey(r), ClearRange) <=> 0 <= SpaceOf(r.kind) /\ SpaceOf(r.kind) < 5
  BY <1>2, InSpaces
<1>6. QED
  BY <1>1, <1>3, <1>4, <1>5

(* Which keys are in the range of the aliases of a namespace.              *)
LEMMA InAliases ==
  ASSUME NEW r, IsRecordName(r), NEW h \in Field
  PROVE  InRange(EncodeKey(r), AliasesRange(h)) <=>
           r.kind = "core_by_alias" /\ r.args[1].value = h.value
<1> DEFINE K == EncodeKey(r)
           range == AliasesRange(h)
           p == <<Uint(2), h>>
           q == <<Uint(2), h, Byte(TextEnd)>>
<1>1. range.from = p /\ range.to = q
  BY DEF AliasesRange, Space
<1>2. /\ p \in Seq(AnyField) /\ Len(p) = 2 /\ p[1].value = 2 /\ p[2].value = h.value
      /\ q \in Seq(AnyField) /\ Len(q) = 3 /\ q[1].value = 2 /\ q[2].value = h.value
      /\ q[3].value = TextEnd
  <2>1. Uint(2) \in AnyField /\ Uint(2).value = 2 /\ h \in AnyField
        /\ Byte(TextEnd) \in AnyField /\ Byte(TextEnd).value = TextEnd
    BY FieldType, TextEndAssumption
  <2>2. QED
    BY <2>1
<1>3. /\ K \in Seq(AnyField) /\ Len(K) \in Nat /\ Len(K) >= 1
      /\ K[1].value = SpaceOf(r.kind) /\ SpaceOf(r.kind) \in 0..4
      /\ r.kind = "core_by_alias" =>
           /\ Len(K) = 3 /\ K[2].value = r.args[1].value
           /\ K[3].value < TextEnd /\ K[3].value \in Nat
  BY KeyValues
<1>4. r.kind = "core_by_alias" <=> SpaceOf(r.kind) = 2
  BY SpacesAre
<1>5. h.value \in Nat
  BY FieldType
<1> HIDE DEF K, range, p, q
<1>6. InRange(K, range) <=> ~Before(K, p) /\ Before(K, q)
  BY <1>1 DEF InRange
<1>7. Before(K, p) <=> \/ K[1].value < 2
                       \/ K[1].value = 2 /\ (Len(K) = 1 \/ K[2].value < h.value)
  BY <1>2, <1>3, BeforeTwo
<1>8. Before(K, q) <=>
        \/ K[1].value < 2
        \/ K[1].value = 2 /\ (Len(K) = 1 \/ K[2].value < h.value)
        \/ /\ Len(K) >= 2 /\ K[1].value = 2 /\ K[2].value = h.value
           /\ Len(K) = 2 \/ K[3].value < TextEnd
  BY <1>2, <1>3, BeforeThree
<1>9. CASE r.kind = "core_by_alias"
  <2>1. /\ K[1].value = 2 /\ Len(K) = 3 /\ K[2].value = r.args[1].value
        /\ K[3].value < TextEnd
    BY <1>3, <1>4, <1>9
  <2>2. /\ Before(K, p) <=> K[2].value < h.value
        /\ Before(K, q) <=> K[2].value < h.value \/ K[2].value = h.value
    BY <1>7, <1>8, <2>1
  <2>3. K[2].value \in Nat
    <3>1. K[2] \in AnyField
      <4>1. K \in Seq(AnyField) /\ Len(K) = 3
        BY <1>3, <2>1
      <4>2. 2 \in 1..Len(K)
        BY <4>1
      <4>3. QED
        BY <4>1, <4>2, ElementOfSeq
    <3>2. QED
      BY <3>1 DEF AnyField
  <2>4. QED
    BY <1>5, <1>6, <1>9, <2>1, <2>2, <2>3 DEF K, range
<1>10. CASE r.kind # "core_by_alias"
  <2>1. K[1].value \in 0..4 /\ K[1].value # 2
    BY <1>3, <1>4, <1>10
  <2>2. QED
    BY <1>6, <1>7, <1>8, <1>10, <2>1 DEF K, range
<1>11. QED
  BY <1>9, <1>10

(* Which keys are in the range of a subtype of a pointer's records.        *)
LEMMA InSubtype ==
  ASSUME NEW r, IsRecordName(r), NEW ptr \in Field, NEW sub \in Nat,
         NEW range,
         range = [from |-> EncodeCoreSubtype(Space.data, ptr, sub),
                  to   |-> EncodeCoreSubtype(Space.data, ptr, sub + 1)]
  PROVE  InRange(EncodeKey(r), range) <=>
           /\ r.kind \in Subtyped /\ r.kind \in DataKinds
           /\ r.args[1].value = ptr.value /\ Subtype[r.kind] = sub
<1> DEFINE K == EncodeKey(r)
           p == EncodeCoreSubtype(Space.data, ptr, sub)
           q == EncodeCoreSubtype(Space.data, ptr, sub + 1)
<1>1. range.from = p /\ range.to = q
  OBVIOUS
<1>2. ASSUME NEW n \in Nat, NEW l, l = EncodeCoreSubtype(Space.data, ptr, n)
      PROVE  /\ l \in Seq(AnyField) /\ Len(l) = 3
             /\ l[1].value = 4 /\ l[2].value = ptr.value /\ l[3].value = n
  <2> DEFINE s == <<Uint(4), ptr>>
             t == <<Uint(n)>>
  <2>1. l = s \o t
    BY <1>2 DEF EncodeCoreSubtype, EncodeCorePrefix, Space
  <2>2. /\ Uint(4) \in AnyField /\ Uint(4).value = 4 /\ ptr \in AnyField
        /\ Uint(n) \in AnyField /\ Uint(n).value = n
    BY FieldType
  <2>3. /\ s \in Seq(AnyField) /\ Len(s) = 2 /\ s[1].value = 4 /\ s[2].value = ptr.value
        /\ t \in Seq(AnyField) /\ Len(t) = 1 /\ t[1].value = n
    BY <2>2
  <2> HIDE DEF s, t
  <2>4. l \in Seq(AnyField) /\ InOrder(l, s, t, 2, 1)
    BY <2>1, <2>3, ConcatInOrder
  <2>5. Len(l) = 2 + 1 /\ l[1] = s[1] /\ l[2] = s[2] /\ l[2 + 1] = t[1]
    BY <2>4 DEF InOrder
  <2>6. QED
    BY <2>3, <2>4, <2>5
<1>3. /\ p \in Seq(AnyField) /\ Len(p) = 3
      /\ p[1].value = 4 /\ p[2].value = ptr.value /\ p[3].value = sub
  BY <1>2
<1>4. /\ q \in Seq(AnyField) /\ Len(q) = 3
      /\ q[1].value = 4 /\ q[2].value = ptr.value /\ q[3].value = sub + 1
  BY <1>2
<1>5. /\ K \in Seq(AnyField) /\ Len(K) \in Nat /\ Len(K) >= 1
      /\ K[1].value = SpaceOf(r.kind) /\ SpaceOf(r.kind) \in 0..4
      /\ r.kind \in Short => Len(K) = 2
      /\ r.kind \in Subtyped => /\ Len(K) >= 3 /\ K[2].value = r.args[1].value
                                /\ K[3].value = Subtype[r.kind]
  BY KeyValues
<1>6. r.kind \in DataKinds <=> SpaceOf(r.kind) = 4
  BY SpacesAre
<1> HIDE DEF K, p, q
<1>7. InRange(K, range) <=> ~Before(K, p) /\ Before(K, q)
  BY <1>1 DEF InRange
<1>8. Before(K, p) <=>
        \/ K[1].value < 4
        \/ K[1].value = 4 /\ (Len(K) = 1 \/ K[2].value < ptr.value)
        \/ /\ Len(K) >= 2 /\ K[1].value = 4 /\ K[2].value = ptr.value
           /\ Len(K) = 2 \/ K[3].value < sub
  BY <1>3, <1>5, BeforeThree
<1>9. Before(K, q) <=>
        \/ K[1].value < 4
        \/ K[1].value = 4 /\ (Len(K) = 1 \/ K[2].value < ptr.value)
        \/ /\ Len(K) >= 2 /\ K[1].value = 4 /\ K[2].value = ptr.value
           /\ Len(K) = 2 \/ K[3].value < sub + 1
  BY <1>4, <1>5, BeforeThree
<1>10. CASE r.kind \notin DataKinds
  <2>1. K[1].value \in 0..4 /\ K[1].value # 4
    BY <1>5, <1>6, <1>10
  <2>2. QED
    BY <1>7, <1>8, <1>10, <2>1 DEF K
<1>11. CASE r.kind \in DataKinds /\ r.kind \in Short
  <2>1. K[1].value = 4 /\ Len(K) = 2
    BY <1>5, <1>6, <1>11
  <2>2. Before(K, q) => Before(K, p)
    BY <1>8, <1>9, <2>1
  <2>3. r.kind \notin Subtyped
    BY <1>11, KindsAre
  <2>4. QED
    BY <1>7, <2>2, <2>3 DEF K
<1>12. CASE r.kind \in DataKinds /\ r.kind \in Subtyped
  <2>1. K[1].value = 4 /\ Len(K) >= 3
    BY <1>5, <1>6, <1>12
  <2>2. /\ Before(K, p) <=> \/ K[2].value < ptr.value
                            \/ K[2].value = ptr.value /\ K[3].value < sub
        /\ Before(K, q) <=> \/ K[2].value < ptr.value
                            \/ K[2].value = ptr.value /\ K[3].value < sub + 1
    <3>1. Len(K) # 1 /\ Len(K) # 2 /\ Len(K) >= 2 /\ ~(K[1].value < 4)
      <4>1. \A n \in Nat : n >= 3 => n # 1 /\ n # 2 /\ n >= 2
        OBVIOUS
      <4>2. Len(K) # 1 /\ Len(K) # 2 /\ Len(K) >= 2
        BY <1>5, <2>1, <4>1
      <4>3. ~(4 < 4)
        OBVIOUS
      <4>4. QED
        BY <2>1, <4>2, <4>3
    <3>2. /\ Before(K, p) <=> \/ K[2].value < ptr.value
                              \/ K[2].value = ptr.value /\ K[3].value < sub
      BY <1>8, <2>1, <3>1
    <3>3. /\ Before(K, q) <=> \/ K[2].value < ptr.value
                              \/ K[2].value = ptr.value /\ K[3].value < sub + 1
      BY <1>9, <2>1, <3>1
    <3>4. QED
      BY <3>2, <3>3
  <2>3. ptr.value \in Nat /\ Subtype[r.kind] \in Nat /\ K[3].value = Subtype[r.kind]
        /\ K[2].value = r.args[1].value
    <3>1. ptr.value \in Nat
      BY FieldType
    <3>2. Subtype[r.kind] \in Nat
      BY <1>12, SubtypesAre
    <3>3. K[3].value = Subtype[r.kind] /\ K[2].value = r.args[1].value
      BY <1>5, <1>12
    <3>4. QED
      BY <3>1, <3>2, <3>3
  <2>4. K[2].value \in Nat
    <3>1. 2 \in 1..Len(K)
      BY <1>5, <2>1
    <3>2. K[2] \in AnyField
      BY <1>5, <3>1, ElementOfSeq
    <3>3. QED
      BY <3>2 DEF AnyField
  <2>5. InRange(K, range) <=> K[2].value = ptr.value /\ K[3].value = sub
    BY <1>7, <2>2, <2>3, <2>4
  <2>6. QED
    BY <1>12, <2>3, <2>5 DEF K
<1>13. QED
  <2>1. r.kind \in DataKinds => r.kind \in Short \/ r.kind \in Subtyped
    BY DEF DataKinds, Short, Subtyped
  <2>2. QED
    BY <1>10, <1>11, <1>12, <2>1

-----------------------------------------------------------------------------
(* The total of sizes that are all the same, and of sizes with a bound.    *)
LEMMA TotalSame ==
  ASSUME NEW s \in Seq(Nat), \A i \in 1..Len(s) : s[i] = 1
  PROVE  Total(s) = Len(s)
<1> DEFINE wrong == {j \in Nat : \E t \in Seq(Nat) :
                       /\ Len(t) = j /\ \A i \in 1..j : t[i] = 1
                       /\ Total(t) # j}
<1>1. CASE wrong = {}
  BY <1>1
<1>2. CASE wrong # {}
  <2>1. PICK j \in wrong : j \in Nat /\ \A i \in Nat : i < j => i \notin wrong
    <3>1. wrong \subseteq Nat
      OBVIOUS
    <3> HIDE DEF wrong
    <3>2. QED
      BY <1>2, <3>1, FirstNumber
  <2>2. PICK t \in Seq(Nat) : /\ Len(t) = j /\ \A i \in 1..j : t[i] = 1
                              /\ Total(t) # j
    BY <2>1
  <2>3. t # <<>>
    BY <2>2, TotalEmpty
  <2>4. PICK u \in Seq(Nat), x \in Nat : t = Append(u, x)
    BY <2>3, SequenceEmptyOrAppend
  <2>5. Len(u) \in Nat /\ j = Len(u) + 1 /\ t[j] = x
        /\ \A i \in 1..Len(u) : t[i] = u[i]
    BY <2>2, <2>4
  <2>6. x = 1 /\ \A i \in 1..Len(u) : u[i] = 1
    <3>1. j \in 1..j /\ \A i \in 1..Len(u) : i \in 1..j
      BY <2>5
    <3>2. t[j] = 1 /\ \A i \in 1..Len(u) : t[i] = 1
      BY <2>2, <3>1
    <3>3. QED
      BY <2>5, <3>2
  <2>7. Total(u) = Len(u)
    <3>1. Len(u) \notin wrong
      <4>1. Len(u) < j
        BY <2>5
      <4> HIDE DEF wrong
      <4>2. QED
        BY <2>1, <2>5, <4>1
    <3>2. QED
      BY <2>5, <2>6, <3>1
  <2>8. Total(t) = Total(u) + x
    BY <2>4, TotalAppend
  <2>9. QED
    BY <2>2, <2>5, <2>6, <2>7, <2>8
<1>3. QED
  BY <1>1, <1>2

LEMMA TotalAtMost ==
  ASSUME NEW c \in Nat, NEW s \in Seq(Nat), \A i \in 1..Len(s) : s[i] <= c
  PROVE  Total(s) <= c * Len(s)
<1> DEFINE wrong == {j \in Nat : \E t \in Seq(Nat) :
                       /\ Len(t) = j /\ \A i \in 1..j : t[i] <= c
                       /\ ~(Total(t) <= c * j)}
<1>1. CASE wrong = {}
  BY <1>1
<1>2. CASE wrong # {}
  <2>1. PICK j \in wrong : j \in Nat /\ \A i \in Nat : i < j => i \notin wrong
    <3>1. wrong \subseteq Nat
      OBVIOUS
    <3> HIDE DEF wrong
    <3>2. QED
      BY <1>2, <3>1, FirstNumber
  <2>2. PICK t \in Seq(Nat) : /\ Len(t) = j /\ \A i \in 1..j : t[i] <= c
                              /\ ~(Total(t) <= c * j)
    BY <2>1
  <2>3. t # <<>>
    <3>1. c * 0 = 0
      OBVIOUS
    <3>2. QED
      BY <2>2, <3>1, TotalEmpty
  <2>4. PICK u \in Seq(Nat), x \in Nat : t = Append(u, x)
    BY <2>3, SequenceEmptyOrAppend
  <2>5. Len(u) \in Nat /\ j = Len(u) + 1 /\ t[j] = x
        /\ \A i \in 1..Len(u) : t[i] = u[i]
    BY <2>2, <2>4
  <2>6. x <= c /\ \A i \in 1..Len(u) : u[i] <= c
    <3>1. j \in 1..j /\ \A i \in 1..Len(u) : i \in 1..j
      BY <2>5
    <3>2. t[j] <= c /\ \A i \in 1..Len(u) : t[i] <= c
      BY <2>2, <3>1
    <3>3. x <= c
      BY <2>5, <3>2
    <3>4. ASSUME NEW i \in 1..Len(u)
          PROVE  u[i] <= c
      <4>1. t[i] <= c /\ t[i] = u[i]
        BY <2>5, <3>2
      <4>2. QED
        BY <4>1
    <3>5. QED
      BY <3>3, <3>4
  <2>7. Total(u) <= c * Len(u)
    <3>1. Len(u) \notin wrong
      <4>1. Len(u) < j
        BY <2>5
      <4> HIDE DEF wrong
      <4>2. QED
        BY <2>1, <2>5, <4>1
    <3>2. QED
      BY <2>5, <2>6, <3>1
  <2>8. Total(t) = Total(u) + x /\ Total(u) \in Nat
    BY <2>4, TotalAppend, TotalType
  <2>9. c * j = c * Len(u) + c /\ c * Len(u) \in Nat
    BY <2>5
  <2>10. QED
    BY <2>2, <2>6, <2>7, <2>8, <2>9
<1>3. QED
  BY <1>1, <1>2

-----------------------------------------------------------------------------
(* The widths of the fields of a key.                                      *)
Widths(key) == [i \in DOMAIN key |-> Width(key[i])]

LEMMA WidthsAre ==
  /\ \A f \in AnyField : /\ Width(f) \in Nat /\ WidestWidth(f) \in Nat
                         /\ WidestWidth(f) <= 32
                         /\ f.sort = "uint" => WidestWidth(f) = 9
                         /\ f.sort = "byte" => Width(f) = 1
BY WideFromAssumption DEF AnyField, Width, WidestWidth

LEMMA SizeIs ==
  ASSUME NEW K \in Seq(AnyField)
  PROVE  /\ Widths(K) \in Seq(Nat) /\ Len(Widths(K)) = Len(K) /\ Len(K) \in Nat
         /\ \A i \in 1..Len(K) : Widths(K)[i] = Width(K[i])
         /\ SizeOf(K) = Total(Widths(K)) /\ SizeOf(K) \in Nat
<1>1. Len(K) \in Nat /\ DOMAIN K = 1..Len(K)
  OBVIOUS
<1>2. \A i \in 1..Len(K) : Width(K[i]) \in Nat
  <2>1. \A i \in 1..Len(K) : K[i] \in AnyField
    OBVIOUS
  <2>2. QED
    BY <2>1, WidthsAre
<1>3. Widths(K) = [i \in 1..Len(K) |-> Width(K[i])]
  BY <1>1 DEF Widths
<1>4. Widths(K) \in Seq(Nat) /\ Len(Widths(K)) = Len(K)
  BY <1>1, <1>2, <1>3
<1>5. SizeOf(K) = Total(Widths(K))
  BY DEF SizeOf, Widths
<1>6. QED
  BY <1>1, <1>3, <1>4, <1>5, TotalType

LEMMA SizeOfConcat ==
  ASSUME NEW F \in Seq(AnyField), NEW G \in Seq(AnyField)
  PROVE  F \o G \in Seq(AnyField) /\ SizeOf(F \o G) = SizeOf(F) + SizeOf(G)
<1> DEFINE H == F \o G
           s == Widths(F)
           t == Widths(G)
           w == Widths(H)
           e == s \o t
<1>1. Len(F) \in Nat /\ Len(G) \in Nat
  OBVIOUS
<1>2. H \in Seq(AnyField) /\ InOrder(H, F, G, Len(F), Len(G))
  BY ConcatInOrder
<1> HIDE DEF H
<1>3. /\ s \in Seq(Nat) /\ Len(s) = Len(F) /\ SizeOf(F) = Total(s)
      /\ \A i \in 1..Len(F) : s[i] = Width(F[i])
  BY SizeIs
<1>4. /\ t \in Seq(Nat) /\ Len(t) = Len(G) /\ SizeOf(G) = Total(t)
      /\ \A i \in 1..Len(G) : t[i] = Width(G[i])
  BY SizeIs
<1>5. /\ w \in Seq(Nat) /\ Len(w) = Len(H) /\ SizeOf(H) = Total(w)
      /\ \A i \in 1..Len(H) : w[i] = Width(H[i])
  BY <1>2, SizeIs
<1> HIDE DEF s, t, w
<1>6. e \in Seq(Nat) /\ InOrder(e, s, t, Len(F), Len(G))
  BY <1>3, <1>4, ConcatInOrder
<1> HIDE DEF e
<1>7. Len(e) = Len(F) + Len(G) /\ Len(H) = Len(F) + Len(G)
  BY <1>2, <1>6 DEF InOrder
<1>8. ASSUME NEW i \in 1..Len(F) + Len(G)
      PROVE  w[i] = e[i]
  <2>1. CASE i <= Len(F)
    <3>1. i \in 1..Len(F)
      BY <1>1, <2>1
    <3>2. e[i] = s[i] /\ H[i] = F[i]
      BY <1>2, <1>6, <3>1 DEF InOrder
    <3>3. QED
      BY <1>3, <1>5, <1>7, <3>1, <3>2
  <2>2. CASE i > Len(F)
    <3>1. PICK j \in 1..Len(G) : i = Len(F) + j
      <4>1. i - Len(F) \in 1..Len(G) /\ i = Len(F) + (i - Len(F))
        BY <1>1, <2>2
      <4>2. QED
        BY <4>1
    <3>2. e[i] = t[j] /\ H[i] = G[j]
      BY <1>2, <1>6, <3>1 DEF InOrder
    <3>3. QED
      BY <1>4, <1>5, <1>7, <3>1, <3>2
  <2>3. QED
    BY <1>1, <2>1, <2>2
<1>9. w = e
  <2>1. Len(w) = Len(e)
    BY <1>5, <1>7
  <2>2. \A i \in 1..Len(e) : w[i] = e[i]
    BY <1>7, <1>8
  <2>3. QED
    BY <1>5, <1>6, <2>1, <2>2, SameLists
<1>10. SizeOf(H) = Total(s) + Total(t)
  BY <1>3, <1>4, <1>5, <1>9, TotalConcat DEF e
<1>11. QED
  BY <1>2, <1>3, <1>4, <1>10 DEF H

LEMMA SizeOfOne ==
  ASSUME NEW x \in AnyField
  PROVE  <<x>> \in Seq(AnyField) /\ SizeOf(<<x>>) = Width(x)
<1>1. [i \in DOMAIN <<x>> |-> Width(<<x>>[i])] = Append(<<>>, Width(x))
  OBVIOUS
<1>2. Width(x) \in Nat /\ <<>> \in Seq(Nat)
  BY WidthsAre
<1>3. Total(Append(<<>>, Width(x))) = 0 + Width(x)
  BY <1>2, TotalEmpty, TotalAppend
<1>4. QED
  BY <1>1, <1>2, <1>3 DEF SizeOf

LEMMA SizeOfTwo ==
  ASSUME NEW x \in AnyField, NEW y \in AnyField
  PROVE  <<x, y>> \in Seq(AnyField) /\ SizeOf(<<x, y>>) = Width(x) + Width(y)
<1> DEFINE F == <<x>>
           G == <<y>>
           H == <<x, y>>
<1>1. /\ F \in Seq(AnyField) /\ SizeOf(F) = Width(x) /\ Len(F) = 1 /\ F[1] = x
      /\ G \in Seq(AnyField) /\ SizeOf(G) = Width(y) /\ Len(G) = 1 /\ G[1] = y
  BY SizeOfOne
<1>2. H \in Seq(AnyField) /\ Len(H) = 2 /\ H[1] = x /\ H[2] = y
  OBVIOUS
<1> HIDE DEF F, G, H
<1>3. F \o G \in Seq(AnyField) /\ InOrder(F \o G, F, G, 1, 1)
  BY <1>1, ConcatInOrder
<1>4. Len(F \o G) = 1 + 1 /\ (F \o G)[1] = x /\ (F \o G)[1 + 1] = y
  BY <1>1, <1>3 DEF InOrder
<1>5. Len(F \o G) = Len(H) /\ \A i \in 1..Len(H) : (F \o G)[i] = H[i]
  BY <1>2, <1>4
<1>6. F \o G = H
  BY <1>2, <1>3, <1>5, SameLists
<1>7. SizeOf(F \o G) = SizeOf(F) + SizeOf(G)
  BY <1>1, SizeOfConcat
<1>8. SizeOf(H) = Width(x) + Width(y)
  BY <1>1, <1>6, <1>7
<1>9. QED
  BY <1>2, <1>8 DEF H

LEMMA SizeOfThree ==
  ASSUME NEW x \in AnyField, NEW y \in AnyField, NEW z \in AnyField
  PROVE  SizeOf(<<x, y, z>>) = (Width(x) + Width(y)) + Width(z)
<1> DEFINE F == <<x, y>>
           G == <<z>>
           H == <<x, y, z>>
<1>1. /\ F \in Seq(AnyField) /\ SizeOf(F) = Width(x) + Width(y)
      /\ Len(F) = 2 /\ F[1] = x /\ F[2] = y
      /\ G \in Seq(AnyField) /\ SizeOf(G) = Width(z) /\ Len(G) = 1 /\ G[1] = z
  BY SizeOfOne, SizeOfTwo
<1>2. /\ H \in Seq(AnyField) /\ Len(H) = 3
      /\ H[1] = x /\ H[2] = y /\ H[3] = z
  OBVIOUS
<1> HIDE DEF F, G, H
<1>3. F \o G \in Seq(AnyField) /\ InOrder(F \o G, F, G, 2, 1)
  BY <1>1, ConcatInOrder
<1>4. /\ Len(F \o G) = 2 + 1
      /\ (F \o G)[1] = x /\ (F \o G)[2] = y /\ (F \o G)[2 + 1] = z
  BY <1>1, <1>3 DEF InOrder
<1>5. Len(F \o G) = Len(H) /\ \A i \in 1..Len(H) : (F \o G)[i] = H[i]
  BY <1>2, <1>4
<1>6. F \o G = H
  BY <1>2, <1>3, <1>5, SameLists
<1>7. SizeOf(F \o G) = SizeOf(F) + SizeOf(G)
  BY <1>1, SizeOfConcat
<1>8. QED
  BY <1>1, <1>6, <1>7 DEF H

(* The bytes of a local key, one by one.                                   *)
LEMMA SizeOfBytes ==
  ASSUME NEW K \in Seq(AnyField), \A i \in 1..Len(K) : K[i].sort = "byte"
  PROVE  SizeOf(K) = Len(K)
<1>1. /\ Widths(K) \in Seq(Nat) /\ Len(Widths(K)) = Len(K)
      /\ SizeOf(K) = Total(Widths(K))
      /\ \A i \in 1..Len(K) : Widths(K)[i] = Width(K[i])
  BY SizeIs
<1>2. \A i \in 1..Len(K) : Width(K[i]) = 1
  <2>1. \A i \in 1..Len(K) : K[i] \in AnyField
    OBVIOUS
  <2>2. QED
    BY <2>1, WidthsAre
<1> DEFINE w == Widths(K)
<1> HIDE DEF w
<1>3. \A i \in 1..Len(w) : w[i] = 1
  BY <1>1, <1>2 DEF w
<1>4. Total(w) = Len(w)
  BY <1>1, <1>3, TotalSame DEF w
<1>5. QED
  BY <1>1, <1>4 DEF w

(* The first pass counts what the second one writes.                       *)
LEMMA PreencodeIs ==
  ASSUME NEW r, IsRecordName(r)
  PROVE  PreencodeKey(r) = SizeOf(EncodeKey(r)) /\ SizeOf(EncodeKey(r)) \in Nat
<1> DEFINE a == r.args
           n == Len(a)
           space == Uint(SpaceOf(r.kind))
           K == EncodeKey(r)
<1>1. a \in Seq(AnyField) /\ n \in Nat /\ ArgsRight(r)
      /\ (r.kind \notin StoreKinds => n >= 1) /\ (r.kind \in Short => n = 1)
  BY ArgsAre DEF ArgsRight
<1>2. space \in AnyField
  <2>1. SpaceOf(r.kind) \in Nat
    BY SpacesAre
  <2>2. QED
    BY <2>1, FieldType
<1>3. SizeOf(K) \in Nat
  <2>1. K \in Seq(AnyField)
    BY KeyIs DEF KeyRight
  <2>2. QED
    BY <2>1, SizeIs
<1>4. CASE r.kind \in StoreKinds
  <2>1. K = <<space>> \o a /\ PreencodeKey(r) = Width(space) + SizeOf(a)
    <3>1. space = Uint(StoreSpace[r.kind])
      BY <1>4 DEF SpaceOf
    <3>2. K = <<Uint(StoreSpace[r.kind])>> \o a
      BY <1>4 DEF EncodeKey, EncodeStoreKey
    <3>3. r.kind \notin {"core", "data"} /\ r.kind # "local"
      BY <1>4 DEF StoreKinds
    <3>4. PreencodeKey(r) = Width(Uint(StoreSpace[r.kind])) + SizeOf(a)
      BY <1>4, <3>3 DEF PreencodeKey
    <3> HIDE DEF a, K, space
    <3>5. QED
      BY <3>1, <3>2, <3>4
  <2> HIDE DEF a, n, space, K
  <2>2. <<space>> \in Seq(AnyField) /\ SizeOf(<<space>>) = Width(space)
    BY <1>2, SizeOfOne
  <2>3. SizeOf(K) = SizeOf(<<space>>) + SizeOf(a)
    BY <1>1, <2>1, <2>2, SizeOfConcat
  <2>4. QED
    BY <1>3, <2>1, <2>2, <2>3 DEF K
<1>5. CASE r.kind \in Short
  <2>1. r.kind \notin StoreKinds
    BY <1>5, KindsAre
  <2>2. K = <<space, a[1]>>
    BY <1>5, <2>1 DEF EncodeKey, EncodeCoreKey, EncodeCorePrefix, SpaceOf, Short
  <2>3. PreencodeKey(r) = Width(space) + Width(a[1])
    BY <1>5, <2>1 DEF PreencodeKey, PreencodeCorePrefix, SpaceOf, Short
  <2>4. a[1] \in AnyField
    BY <1>1, <1>5
  <2> HIDE DEF a, n, space, K
  <2>5. SizeOf(K) = Width(space) + Width(a[1])
    BY <1>2, <2>2, <2>4, SizeOfTwo
  <2>6. QED
    BY <1>3, <2>3, <2>5 DEF K
<1>6. CASE r.kind \in Subtyped
  <2> DEFINE sub == Uint(Subtype[r.kind])
             t == Tail(a)
  <2>1. r.kind \notin StoreKinds /\ r.kind \notin Short
    BY <1>6, KindsAre
  <2>2. K = (<<space, a[1]>> \o <<sub>>) \o t
    BY <2>1 DEF EncodeKey, EncodeCoreKey, EncodeCoreSubtype, EncodeCorePrefix,
                SpaceOf, Short
  <2>3. PreencodeKey(r) = ((Width(space) + Width(a[1])) + Width(sub))
                          + (IF r.kind = "local" THEN Len(t) ELSE SizeOf(t))
    <3>1. CASE r.kind = "local"
      BY <2>1, <3>1 DEF PreencodeKey, PreencodeCoreSubtype, PreencodeCorePrefix,
                        SpaceOf, Short
    <3>2. CASE r.kind # "local"
      BY <2>1, <3>2 DEF PreencodeKey, PreencodeCoreSubtype, PreencodeCorePrefix,
                        SpaceOf, Short
    <3>3. QED
      BY <3>1, <3>2
  <2>4. a[1] \in AnyField /\ n >= 1 /\ a # <<>>
    BY <1>1, <2>1
  <2>5. sub \in AnyField
    <3>1. Subtype[r.kind] \in Nat
      BY <1>6, SubtypesAre
    <3>2. QED
      BY <3>1, FieldType
  <2>6. r.kind = "local" => \A i \in 2..n : a[i].sort = "byte"
    BY <1>1 DEF ArgsRight
  <2> HIDE DEF a, space, K, sub
  <2>7. t \in Seq(AnyField) /\ Len(t) = n - 1 /\ \A i \in 1..n - 1 : t[i] = a[i + 1]
    BY <1>1, <2>4
  <2> HIDE DEF t, n
  <2>8. r.kind = "local" => SizeOf(t) = Len(t)
    <3>1. ASSUME r.kind = "local", NEW i \in 1..Len(t)
          PROVE  t[i].sort = "byte"
      <4>1. i + 1 \in 2..n /\ i \in 1..n - 1
        BY <1>1, <2>7
      <4>2. QED
        BY <2>6, <2>7, <3>1, <4>1
    <3>2. ASSUME r.kind = "local"
          PROVE  SizeOf(t) = Len(t)
      <4>1. \A i \in 1..Len(t) : t[i].sort = "byte"
        BY <3>1, <3>2
      <4>2. QED
        BY <2>7, <4>1, SizeOfBytes
    <3>3. QED
      BY <3>2
  <2> DEFINE p == <<space, a[1]>>
             q == <<sub>>
  <2>9. p \in Seq(AnyField) /\ SizeOf(p) = Width(space) + Width(a[1])
    BY <1>2, <2>4, SizeOfTwo
  <2>10. q \in Seq(AnyField) /\ SizeOf(q) = Width(sub)
    BY <2>5, SizeOfOne
  <2>11. K = (p \o q) \o t
    BY <2>2
  <2> HIDE DEF p, q
  <2>12. p \o q \in Seq(AnyField) /\ SizeOf(p \o q) = SizeOf(p) + SizeOf(q)
    BY <2>9, <2>10, SizeOfConcat
  <2> DEFINE d == p \o q
  <2> HIDE DEF d
  <2>13. SizeOf(d \o t) = SizeOf(d) + SizeOf(t)
    BY <2>7, <2>12, SizeOfConcat DEF d
  <2>14. SizeOf(K) = ((Width(space) + Width(a[1])) + Width(sub)) + SizeOf(t)
    BY <2>9, <2>10, <2>11, <2>12, <2>13 DEF d
  <2>15. PreencodeKey(r) = SizeOf(K)
    BY <2>3, <2>8, <2>14
  <2>16. QED
    BY <1>3, <2>15 DEF K
<1>7. QED
  BY <1>4, <1>5, <1>6, KindsAre

(* The first pass counts what the second one writes, for the bounds of the *)
(* ranges too: the sentinel after a namespace, and the next subtype.       *)
BoundsCounted(range, sizes) ==
  \A bound \in {"from", "to"} : sizes[bound] = SizeOf(range[bound])

LEMMA StoreBoundsCounted ==
  /\ BoundsCounted(CoresRange, CoresRangeSizes)
  /\ BoundsCounted(AllAliasesRange, AllAliasesRangeSizes)
  /\ BoundsCounted(ClearRange, ClearRangeSizes)
<1>1. \A n \in Nat : SizeOf(<<Uint(n)>>) = Width(Uint(n))
  BY FieldType, SizeOfOne
<1>2. /\ Space.core_by_dkey \in Nat /\ Space.core_by_dkey + 1 \in Nat
      /\ Space.core_by_alias \in Nat /\ Space.core_by_alias + 1 \in Nat
      /\ Space.head \in Nat /\ Space.end \in Nat
  BY DEF Space
<1>3. BoundsCounted(CoresRange, CoresRangeSizes)
  BY <1>1, <1>2 DEF BoundsCounted, CoresRange, CoresRangeSizes
<1>4. BoundsCounted(AllAliasesRange, AllAliasesRangeSizes)
  BY <1>1, <1>2 DEF BoundsCounted, AllAliasesRange, AllAliasesRangeSizes
<1>5. BoundsCounted(ClearRange, ClearRangeSizes)
  BY <1>1, <1>2 DEF BoundsCounted, ClearRange, ClearRangeSizes
<1>6. QED
  BY <1>3, <1>4, <1>5

LEMMA AliasBoundsCounted ==
  ASSUME NEW namespace \in AnyField
  PROVE  BoundsCounted(AliasesRange(namespace), AliasesRangeSizes(namespace))
<1> DEFINE space == Uint(Space.core_by_alias)
           last == Byte(TextEnd)
           range == AliasesRange(namespace)
           sizes == AliasesRangeSizes(namespace)
<1>1. space \in AnyField
  <2>1. Space.core_by_alias \in Nat
    BY DEF Space
  <2>2. QED
    BY <2>1, FieldType
<1>2. last \in AnyField /\ Width(last) = 1
  BY TextEndAssumption, FieldType DEF Byte, Width
<1>3. range.from = <<space, namespace>> /\ range.to = <<space, namespace, last>>
  BY DEF AliasesRange
<1>4. /\ sizes.from = Width(space) + Width(namespace)
      /\ sizes.to = (Width(space) + Width(namespace)) + 1
  BY DEF AliasesRangeSizes
<1> HIDE DEF space, last, range, sizes
<1>5. SizeOf(range.from) = sizes.from
  BY <1>1, <1>3, <1>4, SizeOfTwo
<1>6. SizeOf(range.to) = sizes.to
  BY <1>1, <1>2, <1>3, <1>4, SizeOfThree
<1>7. QED
  BY <1>5, <1>6 DEF BoundsCounted, range, sizes

LEMMA CoreBoundsCounted ==
  ASSUME NEW ptr \in AnyField
  PROVE  /\ UserDataEndSize(ptr) = SizeOf(UserDataRange(ptr).to)
         /\ LocalEndSize(ptr) = SizeOf(LocalRange(ptr).to)
<1>1. ASSUME NEW tl \in Nat, NEW sub \in Nat
      PROVE  PreencodeCoreSubtype(tl, ptr, sub) =
               SizeOf(EncodeCoreSubtype(tl, ptr, sub))
  <2> DEFINE F == <<Uint(tl), ptr>>
             G == <<Uint(sub)>>
  <2>1. Uint(tl) \in AnyField /\ Uint(sub) \in AnyField
    BY FieldType
  <2>2. F \in Seq(AnyField) /\ SizeOf(F) = Width(Uint(tl)) + Width(ptr)
    BY <2>1, SizeOfTwo
  <2>3. G \in Seq(AnyField) /\ SizeOf(G) = Width(Uint(sub))
    BY <2>1, SizeOfOne
  <2>4. EncodeCoreSubtype(tl, ptr, sub) = F \o G
    BY DEF EncodeCoreSubtype, EncodeCorePrefix
  <2> HIDE DEF F, G
  <2>5. SizeOf(F \o G) = SizeOf(F) + SizeOf(G)
    BY <2>2, <2>3, SizeOfConcat
  <2>6. QED
    BY <2>2, <2>3, <2>4, <2>5 DEF PreencodeCoreSubtype, PreencodeCorePrefix
<1>2. /\ Space.data \in Nat /\ Subtype.user_data + 1 \in Nat
      /\ Subtype.local + 1 \in Nat
  BY DEF Space, Subtype
<1>3. /\ UserDataRange(ptr).to =
           EncodeCoreSubtype(Space.data, ptr, Subtype.user_data + 1)
      /\ LocalRange(ptr).to =
           EncodeCoreSubtype(Space.data, ptr, Subtype.local + 1)
  BY DEF UserDataRange, LocalRange
<1>4. QED
  BY <1>1, <1>2, <1>3 DEF UserDataEndSize, LocalEndSize

LEMMA WidestIs ==
  ASSUME NEW K \in Seq(AnyField)
  PROVE  /\ WidestSizeOf(K) \in Nat /\ WidestSizeOf(K) <= 32 * Len(K)
         /\ (\A i \in 1..Len(K) : K[i].sort = "uint") => WidestSizeOf(K) <= 9 * Len(K)
<1> DEFINE w == [i \in DOMAIN K |-> WidestWidth(K[i])]
<1>1. Len(K) \in Nat /\ DOMAIN K = 1..Len(K) /\ \A i \in 1..Len(K) : K[i] \in AnyField
  OBVIOUS
<1>2. \A i \in 1..Len(K) : /\ WidestWidth(K[i]) \in Nat /\ WidestWidth(K[i]) <= 32
                           /\ K[i].sort = "uint" => WidestWidth(K[i]) = 9
  BY <1>1, WidthsAre
<1>3. w = [i \in 1..Len(K) |-> WidestWidth(K[i])]
  BY <1>1
<1>4. WidestSizeOf(K) = Total(w)
  BY DEF WidestSizeOf
<1> HIDE DEF w
<1>5. /\ w \in Seq(Nat) /\ Len(w) = Len(K)
      /\ \A i \in 1..Len(w) : w[i] = WidestWidth(K[i])
  BY <1>1, <1>2, <1>3
<1>6. Total(w) <= 32 * Len(w)
  <2>1. ASSUME NEW i \in 1..Len(w)
        PROVE  w[i] <= 32
    <3>1. i \in 1..Len(K) /\ w[i] = WidestWidth(K[i])
      BY <1>5
    <3>2. QED
      BY <1>2, <3>1
  <2>2. QED
    BY <1>5, <2>1, TotalAtMost
<1>7. ASSUME \A i \in 1..Len(K) : K[i].sort = "uint"
      PROVE  Total(w) <= 9 * Len(w)
  <2>1. ASSUME NEW i \in 1..Len(w)
        PROVE  w[i] <= 9
    <3>1. i \in 1..Len(K) /\ w[i] = WidestWidth(K[i])
      BY <1>5
    <3>2. WidestWidth(K[i]) = 9
      BY <1>2, <1>7, <3>1
    <3>3. QED
      BY <3>1, <3>2
  <2>2. QED
    BY <1>5, <2>1, TotalAtMost
<1>8. QED
  BY <1>4, <1>5, <1>6, <1>7, TotalType

(* The records of a data pointer, but for those with a text or raw bytes,  *)
(* are named by numbers.                                                   *)
LEMMA NumbersOnly ==
  ASSUME NEW r, IsRecordName(r), r.kind \in Subtyped \ {"user_data", "local"}
  PROVE  Len(r.args) <= 3 /\ \A i \in 1..Len(r.args) : r.args[i].sort = "uint"
<1> DEFINE n == Len(r.args)
           sorts == Sorts[r.kind]
<1>1. n \in Nat
  BY ArgsAre DEF ArgsRight
<1>2. /\ n = Len(sorts)
      /\ \A i \in 1..n :
           r.args[i].sort = IF i <= Len(sorts) THEN sorts[i] ELSE "byte"
  BY DEF IsRecordName
<1>3. \/ sorts = <<"uint">> \/ sorts = <<"uint", "uint">>
      \/ sorts = <<"uint", "uint", "uint">>
  BY DEF Sorts, Subtyped
<1> HIDE DEF sorts
<1>4. Len(sorts) <= 3 /\ Len(sorts) \in Nat /\ \A i \in 1..Len(sorts) : sorts[i] = "uint"
  <2>1. CASE sorts = <<"uint">>
    BY <2>1
  <2>2. CASE sorts = <<"uint", "uint">>
    BY <2>2
  <2>3. CASE sorts = <<"uint", "uint", "uint">>
    <3>1. Len(sorts) = 3
      BY <2>3
    <3>2. sorts[1] = "uint" /\ sorts[2] = "uint" /\ sorts[3] = "uint"
      BY <2>3
    <3>3. QED
      BY <3>1, <3>2
  <2>4. QED
    BY <1>3, <2>1, <2>2, <2>3
<1> HIDE DEF n
<1>5. \A i \in 1..n : r.args[i].sort = "uint"
  BY <1>1, <1>2, <1>4
<1>6. QED
  BY <1>2, <1>4, <1>5 DEF n

LEMMA KeyFits ==
  ASSUME NEW r, IsRecordName(r), r.kind \notin {"core_by_alias", "user_data", "local"}
  PROVE  WidestSizeOf(EncodeKey(r)) <= KeyMaxSize
<1> DEFINE K == EncodeKey(r)
           a == r.args
<1>1. KeyRight(r, K) /\ ArgsRight(r) /\ K \in Seq(AnyField)
  BY KeyIs, ArgsAre DEF KeyRight
<1>2. /\ WidestSizeOf(K) \in Nat /\ WidestSizeOf(K) <= 32 * Len(K)
      /\ (\A i \in 1..Len(K) : K[i].sort = "uint") => WidestSizeOf(K) <= 9 * Len(K)
  BY <1>1, WidestIs
<1> HIDE DEF K
<1>3. CASE r.kind \in StoreKinds \cup Short
  <2>1. Len(K) = 1 \/ Len(K) = 2
    <3>1. CASE r.kind \in Short
      BY <1>1, <3>1 DEF KeyRight
    <3>2. CASE r.kind \in StoreKinds
      <4>1. Len(K) = Len(a) + 1
        BY <1>1, <3>2 DEF KeyRight
      <4>2. Len(a) = 0 \/ Len(a) = 1
        BY <1>1, <3>2 DEF ArgsRight, StoreKinds
      <4>3. 0 + 1 = 1 /\ 1 + 1 = 2
        OBVIOUS
      <4>4. QED
        BY <4>1, <4>2, <4>3
    <3>3. QED
      BY <1>3, <3>1, <3>2
  <2>2. WidestSizeOf(K) <= 64
    <3>1. \A w, n \in Nat : (n = 1 \/ n = 2) /\ w <= 32 * n => w <= 64
      OBVIOUS
    <3>2. Len(K) \in Nat
      BY <2>1
    <3>3. QED
      BY <1>2, <2>1, <3>1, <3>2
  <2>3. QED
    BY <2>2 DEF KeyMaxSize, K
<1>4. CASE r.kind \in Subtyped
  <2>1. /\ Len(K) = Len(a) + 2 /\ K[1] = Uint(SpaceOf(r.kind)) /\ K[2] = a[1]
        /\ K[3] = Uint(Subtype[r.kind])
        /\ \A i \in 1..Len(a) - 1 : K[3 + i] = a[1 + i]
    BY <1>1, <1>4 DEF KeyRight
  <2>2. Len(a) <= 3 /\ \A i \in 1..Len(a) : a[i].sort = "uint"
    BY <1>4, NumbersOnly
  <2>3. r.kind \notin StoreKinds
    BY <1>4, KindsAre
  <2>4. Len(a) \in Nat /\ Len(a) >= 1
    BY <1>1, <2>3 DEF ArgsRight
  <2>5. Uint(SpaceOf(r.kind)).sort = "uint" /\ Uint(Subtype[r.kind]).sort = "uint"
    BY DEF Uint
  <2>6. ASSUME NEW i \in 1..Len(K)
        PROVE  K[i].sort = "uint"
    <3>1. CASE i \in 1..3
      <4>1. 1 \in 1..Len(a) /\ (i = 1 \/ i = 2 \/ i = 3)
        BY <2>4, <3>1
      <4>2. a[1].sort = "uint"
        BY <2>2, <4>1
      <4>3. QED
        BY <2>1, <2>5, <4>1, <4>2
    <3>2. CASE i \notin 1..3
      <4>1. PICK j \in 1..Len(a) - 1 : i = 3 + j
        <5>1. i - 3 \in 1..Len(a) - 1 /\ i = 3 + (i - 3)
          BY <2>1, <2>4, <3>2
        <5>2. QED
          BY <5>1
      <4>2. 1 + j \in 1..Len(a)
        BY <2>4
      <4>3. QED
        BY <2>1, <2>2, <4>1, <4>2
    <3>3. QED
      BY <3>1, <3>2
  <2>7. WidestSizeOf(K) <= 9 * Len(K)
    BY <1>2, <2>6
  <2>8. Len(K) \in Nat /\ Len(K) <= 5
    BY <2>1, <2>2, <2>4
  <2>9. WidestSizeOf(K) <= 64
    BY <1>2, <2>7, <2>8
  <2>10. QED
    BY <2>9 DEF KeyMaxSize, K
<1>5. QED
  BY <1>3, <1>4, KindsAre

-----------------------------------------------------------------------------
(* The column is what was written, each record under its own key.          *)
ColumnOf(c, w) ==
  /\ w \subseteq Records
  /\ DOMAIN c = {EncodeKey(r) : r \in w}
  /\ \A r \in w : c[EncodeKey(r)] = r

KeySpaceInv == ColumnOf(column, written) /\ pass.counted = pass.encoded

LEMMA PutStep ==
  ASSUME NEW r \in Records, ColumnOf(column, written), PutAt(EncodeKey(r), r)
  PROVE  ColumnOf(column', written')
<1> DEFINE key == EncodeKey(r)
<1>1. /\ column' = [k \in DOMAIN column \cup {key} |-> IF k = key THEN r ELSE column[k]]
      /\ written' = written \cup {r}
  BY DEF PutAt
<1>2. written' \subseteq Records
  BY <1>1 DEF ColumnOf
<1>3. DOMAIN column' = {EncodeKey(s) : s \in written'}
  BY <1>1 DEF ColumnOf
<1>4. ASSUME NEW s \in written'
      PROVE  column'[EncodeKey(s)] = s
  <2>1. IsRecordName(r) /\ IsRecordName(s)
    BY <1>2, RecordsAssumption
  <2>2. EncodeKey(s) \in DOMAIN column \cup {key}
    BY <1>1, <1>3
  <2>3. column'[EncodeKey(s)] = IF EncodeKey(s) = key THEN r ELSE column[EncodeKey(s)]
    BY <1>1, <2>2
  <2>4. CASE EncodeKey(s) = key
    <3>1. s = r
      BY <2>1, <2>4, KeysSeparate
    <3>2. QED
      BY <2>3, <2>4, <3>1
  <2>5. CASE EncodeKey(s) # key
    <3>1. s \in written
      BY <1>1, <2>5
    <3>2. column[EncodeKey(s)] = s
      BY <3>1 DEF ColumnOf
    <3>3. QED
      BY <2>3, <2>5, <3>2
  <2>6. QED
    BY <2>4, <2>5
<1>5. QED
  BY <1>2, <1>3, <1>4 DEF ColumnOf

(* A clear leaves nothing: every key is in its range.                      *)
LEMMA ClearStep ==
  ASSUME ColumnOf(column, written), Clear
  PROVE  ColumnOf(column', written')
<1>1. ASSUME NEW k \in DOMAIN column
      PROVE  InRange(k, ClearRange)
  <2>1. PICK r \in written : k = EncodeKey(r)
    BY DEF ColumnOf
  <2>2. IsRecordName(r)
    BY RecordsAssumption DEF ColumnOf
  <2>3. QED
    BY <2>1, <2>2, InWholeRanges
<1>2. DOMAIN column \ KeysIn(ClearRange) = {}
  BY <1>1 DEF KeysIn
<1>3. DOMAIN column' = {} /\ written' = {}
  BY <1>2 DEF Clear, Restrict
<1>4. QED
  BY <1>3 DEF ColumnOf

LEMMA KeySpaceInvInit == Init => KeySpaceInv
<1> SUFFICES ASSUME Init
             PROVE  KeySpaceInv
  OBVIOUS
<1>1. DOMAIN column = {} /\ written = {} /\ pass.counted = pass.encoded
  BY DEF Init
<1>2. QED
  BY <1>1 DEF KeySpaceInv, ColumnOf

LEMMA KeySpaceInvStep == KeySpaceInv /\ [Next]_vars => KeySpaceInv'
<1> SUFFICES ASSUME KeySpaceInv, [Next]_vars
             PROVE  KeySpaceInv'
  OBVIOUS
<1>1. ColumnOf(column, written) /\ pass.counted = pass.encoded
  BY DEF KeySpaceInv
<1>2. ASSUME NEW r \in Records, PutSmall(r)
      PROVE  KeySpaceInv'
  <2>1. r.kind \in SmallKinds /\ PutAt(SmallKey(r), r) /\ pass' = pass
    BY <1>2 DEF PutSmall
  <2>2. SmallKey(r) = EncodeKey(r)
    BY <2>1, RecordsAssumption, SmallKeyIs
  <2>3. ColumnOf(column', written')
    BY <1>1, <2>1, <2>2, PutStep
  <2>4. QED
    BY <1>1, <2>1, <2>3 DEF KeySpaceInv
<1>3. ASSUME NEW r \in Records, PutTwoPass(r)
      PROVE  KeySpaceInv'
  <2>1. ColumnOf(column', written')
    BY <1>1, <1>3, PutStep DEF PutTwoPass
  <2>2. PreencodeKey(r) = SizeOf(EncodeKey(r))
    BY RecordsAssumption, PreencodeIs
  <2>3. pass'.counted = pass'.encoded
    BY <1>3, <2>2 DEF PutTwoPass
  <2>4. QED
    BY <2>1, <2>3 DEF KeySpaceInv
<1>4. ASSUME Clear
      PROVE  KeySpaceInv'
  <2>1. ColumnOf(column', written')
    BY <1>1, <1>4, ClearStep
  <2>2. QED
    BY <1>1, <1>4, <2>1 DEF KeySpaceInv, Clear
<1>5. ASSUME NEW key, PassOver(key, SizeOf(key))
      PROVE  KeySpaceInv'
  <2>1. pass'.counted = pass'.encoded /\ UNCHANGED <<column, written>>
    BY <1>5 DEF PassOver
  <2>2. QED
    BY <1>1, <2>1 DEF KeySpaceInv
<1>6. ASSUME NEW range, NEW sizes, BoundsCounted(range, sizes),
             PassOverRange(range, sizes)
      PROVE  KeySpaceInv'
  BY <1>5, <1>6 DEF PassOverRange, BoundsCounted
<1>7. ASSUME BoundStore
      PROVE  KeySpaceInv'
  BY <1>6, <1>7, StoreBoundsCounted DEF BoundStore
<1>8. ASSUME NEW r \in Records, r.kind = "core_by_alias",
             BoundAliases(r.args[1])
      PROVE  KeySpaceInv'
  <2>1. r.args[1] \in AnyField
    <3>1. ArgsRight(r)
      BY RecordsAssumption, ArgsAre
    <3>2. QED
      BY <1>8, <3>1, FieldType DEF ArgsRight
  <2>2. QED
    BY <1>6, <1>8, <2>1, AliasBoundsCounted DEF BoundAliases
<1>9. ASSUME NEW r \in Records, r.kind \notin StoreKinds,
             BoundCore(r.args[1])
      PROVE  KeySpaceInv'
  <2>1. r.args[1] \in AnyField
    <3>1. ArgsRight(r)
      BY RecordsAssumption, ArgsAre
    <3>2. QED
      BY <1>9, <3>1, FieldType DEF ArgsRight
  <2>2. QED
    BY <1>5, <1>9, <2>1, CoreBoundsCounted DEF BoundCore
<1>10. ASSUME UNCHANGED vars
       PROVE  KeySpaceInv'
  BY <1>1, <1>10 DEF KeySpaceInv, vars
<1>11. QED
  BY <1>2, <1>3, <1>4, <1>7, <1>8, <1>9, <1>10 DEF Next

(* The column always is what was written since the last clear.             *)
THEOREM KeySpaceSafe == Spec => []KeySpaceInv
BY KeySpaceInvInit, KeySpaceInvStep, PTL DEF Spec

(* No two records of the format share a key, by whichever encoder, and     *)
(* each is found again.                                                    *)
THEOREM KeysAlwaysName == Spec => []KeysNameRecords
<1>1. ASSUME KeySpaceInv
      PROVE  KeysNameRecords
  <2>1. ColumnOf(column, written)
    BY <1>1 DEF KeySpaceInv
  <2>2. ASSUME NEW r \in written, r.kind \in SmallKinds
        PROVE  column[SmallKey(r)] = r
    <3>1. IsRecordName(r)
      BY <2>1, RecordsAssumption DEF ColumnOf
    <3>2. SmallKey(r) = EncodeKey(r)
      BY <2>2, <3>1, SmallKeyIs
    <3>3. QED
      BY <2>1, <3>2 DEF ColumnOf
  <2>3. QED
    BY <2>1, <2>2 DEF KeysNameRecords, ColumnOf
<1>2. QED
  BY <1>1, KeySpaceSafe, PTL

(* The first pass counts exactly the bytes that the second writes, of any  *)
(* record and of any bound of a range.                                     *)
THEOREM PassesAlwaysAgree == Spec => []PassesAgree
<1>1. KeySpaceInv => PassesAgree
  BY DEF KeySpaceInv, PassesAgree
<1>2. QED
  BY <1>1, KeySpaceSafe, PTL

(* No key without texts and raw bytes exceeds the buffer of a small key.   *)
THEOREM KeysAlwaysFit == Spec => []KeysFitBuffers
<1>1. ASSUME KeySpaceInv
      PROVE  KeysFitBuffers
  <2>1. \A r \in written : IsRecordName(r)
    BY <1>1, RecordsAssumption DEF KeySpaceInv, ColumnOf
  <2>2. QED
    BY <2>1, KeyFits DEF KeysFitBuffers
<1>2. QED
  BY <1>1, KeySpaceSafe, PTL

(* A scan finds the records with a key in its range.                       *)
LEMMA ScanIs ==
  ASSUME ColumnOf(column, written), NEW range
  PROVE  Scan(range) = {r \in written : InRange(EncodeKey(r), range)}
<1>1. ASSUME NEW r \in Scan(range)
      PROVE  r \in written /\ InRange(EncodeKey(r), range)
  <2>1. PICK k \in DOMAIN column : InRange(k, range) /\ r = column[k]
    BY DEF Scan, KeysIn
  <2>2. PICK s \in written : k = EncodeKey(s)
    BY DEF ColumnOf
  <2>3. r = s
    BY <2>1, <2>2 DEF ColumnOf
  <2>4. QED
    BY <2>1, <2>2, <2>3
<1>2. ASSUME NEW r \in written, InRange(EncodeKey(r), range)
      PROVE  r \in Scan(range)
  <2>1. EncodeKey(r) \in DOMAIN column /\ column[EncodeKey(r)] = r
    BY DEF ColumnOf
  <2>2. QED
    BY <1>2, <2>1 DEF Scan, KeysIn
<1>3. QED
  BY <1>1, <1>2

(* Records whose first arguments have the same sort and value.             *)
LEMMA SameFirst ==
  ASSUME NEW r, IsRecordName(r), NEW s, IsRecordName(s),
         \/ r.kind = "core_by_alias" /\ s.kind = "core_by_alias"
         \/ r.kind \notin StoreKinds /\ s.kind \notin StoreKinds
  PROVE  /\ s.args[1] \in Field
         /\ r.args[1].value = s.args[1].value <=> r.args[1] = s.args[1]
<1>1. ArgsRight(r) /\ ArgsRight(s)
  BY ArgsAre
<1>2. 1 \in 1..Len(r.args) /\ 1 \in 1..Len(s.args)
  <2>1. Len(r.args) \in Nat /\ Len(s.args) \in Nat
        /\ Len(r.args) >= 1 /\ Len(s.args) >= 1
    BY <1>1 DEF ArgsRight
  <2>2. QED
    BY <2>1
<1>3. r.args[1] \in Field /\ s.args[1] \in Field /\ r.args[1].sort = s.args[1].sort
  BY <1>1, <1>2 DEF ArgsRight
<1> DEFINE f == r.args[1]
           g == s.args[1]
<1> HIDE DEF f, g
<1>4. f = [sort |-> f.sort, value |-> f.value] /\ g = [sort |-> g.sort, value |-> g.value]
  BY <1>3, FieldType DEF f, g
<1>5. f.sort = g.sort
  BY <1>3 DEF f, g
<1>6. f.value = g.value <=> f = g
  BY <1>4, <1>5
<1>7. QED
  BY <1>3, <1>6 DEF f, g

(* A scan of each range finds exactly its records, whatever is stored.     *)
THEOREM RangesAlwaysExact == Spec => []RangesExact
<1>1. ASSUME KeySpaceInv
      PROVE  RangesExact
  <2>1. ColumnOf(column, written) /\ \A r \in written : IsRecordName(r)
    BY <1>1, RecordsAssumption DEF KeySpaceInv, ColumnOf
  <2>2. Scan(CoresRange) = OfKind("store_core")
    <3>1. Scan(CoresRange) = {r \in written : InRange(EncodeKey(r), CoresRange)}
      BY <2>1, ScanIs
    <3>2. \A r \in written : InRange(EncodeKey(r), CoresRange) <=> r.kind = "store_core"
      BY <2>1, InWholeRanges
    <3>3. QED
      BY <3>1, <3>2 DEF OfKind
  <2>3. Scan(AllAliasesRange) = OfKind("core_by_alias")
    <3>1. Scan(AllAliasesRange) = {r \in written : InRange(EncodeKey(r), AllAliasesRange)}
      BY <2>1, ScanIs
    <3>2. \A r \in written :
            InRange(EncodeKey(r), AllAliasesRange) <=> r.kind = "core_by_alias"
      BY <2>1, InWholeRanges
    <3>3. QED
      BY <3>1, <3>2 DEF OfKind
  <2>4. ASSUME NEW s \in Records, s.kind = "core_by_alias"
        PROVE  Scan(AliasesRange(s.args[1])) =
                 {r \in OfKind("core_by_alias") : r.args[1] = s.args[1]}
    <3> DEFINE h == s.args[1]
    <3>1. IsRecordName(s)
      BY RecordsAssumption
    <3>2. h \in Field
      BY <2>4, <3>1, SameFirst
    <3> HIDE DEF h
    <3>3. Scan(AliasesRange(h)) = {r \in written : InRange(EncodeKey(r), AliasesRange(h))}
      BY <2>1, ScanIs
    <3>4. ASSUME NEW r \in written
          PROVE  InRange(EncodeKey(r), AliasesRange(h)) <=>
                   r.kind = "core_by_alias" /\ r.args[1] = h
      <4>1. IsRecordName(r)
        BY <2>1
      <4>2. InRange(EncodeKey(r), AliasesRange(h)) <=>
              r.kind = "core_by_alias" /\ r.args[1].value = h.value
        BY <3>2, <4>1, InAliases
      <4>3. r.kind = "core_by_alias" => (r.args[1].value = h.value <=> r.args[1] = h)
        BY <2>4, <3>1, <4>1, SameFirst DEF h
      <4>4. QED
        BY <4>2, <4>3
    <3>5. Scan(AliasesRange(h)) = {r \in OfKind("core_by_alias") : r.args[1] = h}
      BY <3>3, <3>4 DEF OfKind
    <3>6. QED
      BY <3>5 DEF h
  <2>5. ASSUME NEW s \in Records, s.kind \in CoreKinds \cup DataKinds,
               NEW kind, kind \in Subtyped, kind \in DataKinds,
               NEW sub \in Nat,
               \A r \in written :
                 r.kind \in Subtyped /\ r.kind \in DataKinds =>
                   (Subtype[r.kind] = sub <=> r.kind = kind),
               NEW range,
               range = [from |-> EncodeCoreSubtype(Space.data, s.args[1], sub),
                        to   |-> EncodeCoreSubtype(Space.data, s.args[1], sub + 1)]
        PROVE  Scan(range) = {r \in OfKind(kind) : r.args[1] = s.args[1]}
    <3> DEFINE ptr == s.args[1]
    <3>1. IsRecordName(s) /\ s.kind \notin StoreKinds
      BY <2>5, RecordsAssumption DEF StoreKinds, CoreKinds, DataKinds
    <3>2. ptr \in Field
      BY <3>1, SameFirst
    <3>3. Scan(range) = {r \in written : InRange(EncodeKey(r), range)}
      BY <2>1, ScanIs
    <3>4. ASSUME NEW r \in written
          PROVE  InRange(EncodeKey(r), range) <=> r.kind = kind /\ r.args[1] = ptr
      <4>1. IsRecordName(r)
        BY <2>1
      <4>2. InRange(EncodeKey(r), range) <=>
              /\ r.kind \in Subtyped /\ r.kind \in DataKinds
              /\ r.args[1].value = ptr.value /\ Subtype[r.kind] = sub
        BY <2>5, <3>2, <4>1, InSubtype
      <4>3. r.kind = kind => r.kind \notin StoreKinds
        BY <2>5, <4>1, KindsAre
      <4>4. r.kind = kind => (r.args[1].value = ptr.value <=> r.args[1] = ptr)
        BY <3>1, <4>1, <4>3, SameFirst
      <4> HIDE DEF ptr
      <4>5. QED
        BY <2>5, <4>2, <4>4
    <3> HIDE DEF ptr
    <3>5. Scan(range) = {r \in OfKind(kind) : r.args[1] = ptr}
      BY <3>3, <3>4 DEF OfKind
    <3>6. QED
      BY <3>5 DEF ptr
  <2>6. ASSUME NEW s \in Records, s.kind \in CoreKinds \cup DataKinds
        PROVE  /\ Scan(UserDataRange(s.args[1])) =
                    {r \in OfKind("user_data") : r.args[1] = s.args[1]}
               /\ Scan(LocalRange(s.args[1])) =
                    {r \in OfKind("local") : r.args[1] = s.args[1]}
    <3>1. /\ "user_data" \in Subtyped /\ "user_data" \in DataKinds
          /\ "local" \in Subtyped /\ "local" \in DataKinds
          /\ Subtype.user_data = 6 /\ Subtype.local = 7
      BY DEF Subtyped, DataKinds, Subtype
    <3>2. \A r \in written :
            r.kind \in Subtyped /\ r.kind \in DataKinds =>
              (Subtype[r.kind] = 6 <=> r.kind = "user_data")
              /\ (Subtype[r.kind] = 7 <=> r.kind = "local")
      <4>1. \A k \in Subtyped : k \in DataKinds => k \notin CoreKinds
        BY DEF Subtyped, DataKinds, CoreKinds
      <4>2. QED
        BY <4>1, SubtypesAre
    <3>3. UserDataRange(s.args[1]) =
            [from |-> EncodeCoreSubtype(Space.data, s.args[1], 6),
             to   |-> EncodeCoreSubtype(Space.data, s.args[1], 6 + 1)]
      BY <3>1 DEF UserDataRange
    <3>4. LocalRange(s.args[1]) =
            [from |-> EncodeCoreSubtype(Space.data, s.args[1], 7),
             to   |-> EncodeCoreSubtype(Space.data, s.args[1], 7 + 1)]
      BY <3>1 DEF LocalRange
    <3>5. Scan(UserDataRange(s.args[1])) =
            {r \in OfKind("user_data") : r.args[1] = s.args[1]}
      BY <2>5, <2>6, <3>1, <3>2, <3>3
    <3>6. Scan(LocalRange(s.args[1])) =
            {r \in OfKind("local") : r.args[1] = s.args[1]}
      BY <2>5, <2>6, <3>1, <3>2, <3>4
    <3>7. QED
      BY <3>5, <3>6
  <2>7. QED
    BY <2>2, <2>3, <2>4, <2>6 DEF RangesExact
<1>2. QED
  BY <1>1, KeySpaceSafe, PTL

=============================================================================
