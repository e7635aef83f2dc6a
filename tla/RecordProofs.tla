---------------------------- MODULE RecordProofs ----------------------------
(***************************************************************************)
(* What TLAPS proves of Hashes and of Codec: that no two statements are    *)
(* signed or hashed as the same bytes; and that every record fits the      *)
(* memory it is encoded into and is decoded as what was encoded, or not at *)
(* all, with no cell of the heap leaked.                                   *)
(***************************************************************************)
EXTENDS Hashes, Codec, NumberProofs

(* A number is divided by a power by dividing again and again.             *)
LEMMA DivAgain ==
  ASSUME NEW v \in Nat, NEW a \in Nat, NEW b \in Nat
  PROVE  (v \div 2^a) \div 2^b = v \div 2^(a + b)
<1> DEFINE p == 2^a
           q == 2^b
<1>1. p \in Nat /\ p > 0 /\ q \in Nat /\ q > 0 /\ 2^(a + b) = p * q
  BY PowerGrows, PowerAdds
<1>2. 2^(a + b) = p * q
  BY <1>1
<1> DEFINE x == v \div p
           y == x \div q
           r == v % p
           t == x % q
<1> HIDE DEF p, q
<1>3. x \in Nat /\ r \in Nat /\ r < p /\ v = x * p + r
  BY <1>1, DivRest
<1> HIDE DEF x, r
<1>4. y \in Nat /\ t \in Nat /\ t < q /\ x = y * q + t
  BY <1>1, <1>3, DivRest
<1> HIDE DEF y, t
<1>5. v = y * (p * q) + (t * p + r)
  <2>1. v = (y * q + t) * p + r
    BY <1>3, <1>4
  <2>2. (y * q + t) * p = y * (p * q) + t * p
    BY <1>1, <1>3, <1>4
  <2>3. t * p \in Nat /\ y * (p * q) \in Nat
    BY <1>1, <1>3, <1>4
  <2>4. QED
    BY <1>3, <2>1, <2>2, <2>3
<1>6. t * p + r \in Nat /\ t * p + r < p * q
  <2>1. t * p + p <= q * p
    <3>1. q - (t + 1) \in Nat
      BY <1>1, <1>4
    <3>2. (q - (t + 1)) * p \in Nat
      BY <1>1, <3>1
    <3>3. (q - (t + 1)) * p = q * p - (t * p + p)
      BY <1>1, <1>4
    <3>4. q * p \in Nat /\ t * p \in Nat
      BY <1>1, <1>4
    <3>5. QED
      BY <1>1, <3>2, <3>3, <3>4
  <2>2. t * p \in Nat /\ q * p = p * q /\ p * q \in Nat
    BY <1>1, <1>4
  <2>3. QED
    BY <1>1, <1>3, <2>1, <2>2
<1>7. p * q \in Nat /\ p * q > 0
  BY <1>1, <1>6
<1> DEFINE w == p * q
           rest == t * p + r
<1> HIDE DEF w, rest
<1>8. v \div w = y
  <2>1. w \in Nat /\ w > 0 /\ rest \in Nat /\ rest < w /\ v = y * w + rest
    BY <1>5, <1>6, <1>7 DEF w, rest
  <2>2. QED
    BY <1>4, <2>1, DivIs
<1>9. QED
  BY <1>2, <1>8 DEF x, y, p, q, w

-----------------------------------------------------------------------------
(* Numbers of eight bytes are told apart by their bytes.                   *)
Rest(v, i) == v \div 2^(i * ByteBits)

LEMMA RestIs ==
  ASSUME NEW v \in Nat, NEW i \in 0..7
  PROVE  /\ Rest(v, i + 1) \in Nat /\ ByteOf(v, i + 1) \in Nat
         /\ Rest(v, i) = Rest(v, i + 1) * 2^ByteBits + ByteOf(v, i + 1)
<1> DEFINE a == i * ByteBits
           w == 2^ByteBits
<1>1. ByteBits \in Nat /\ a \in Nat /\ a + ByteBits = (i + 1) * ByteBits
  BY ByteAssumption
<1>2. w \in Nat /\ w > 0 /\ 2^a \in Nat /\ 2^a > 0
  BY <1>1, PowerGrows
<1>3. Rest(v, i) = v \div 2^a /\ Rest(v, i) \in Nat
  <2>1. Rest(v, i) = v \div 2^a
    BY DEF Rest
  <2> HIDE DEF a
  <2>2. v \div 2^a \in Nat
    BY <1>2, DivRest
  <2>3. QED
    BY <2>1, <2>2
<1>4. (v \div 2^a) \div w = v \div 2^(a + ByteBits)
  <2> HIDE DEF a
  <2>1. QED
    BY <1>1, DivAgain
<1>5. Rest(v, i + 1) = Rest(v, i) \div w
  BY <1>1, <1>3, <1>4 DEF Rest
<1>6. ByteOf(v, i + 1) = Rest(v, i) % w
  <2>1. (i + 1) - 1 = i
    OBVIOUS
  <2>2. QED
    BY <2>1 DEF ByteOf, Rest
<1> HIDE DEF w
<1>7. QED
  BY <1>2, <1>3, <1>5, <1>6, DivRest DEF w

LEMMA BytesSeparate ==
  ASSUME NEW v \in 0..2^(8 * ByteBits) - 1, NEW w \in 0..2^(8 * ByteBits) - 1,
         Uint64Le(v) = Uint64Le(w)
  PROVE  v = w
<1> DEFINE top == 2^(8 * ByteBits)
<1>1. v \in Nat /\ w \in Nat /\ top \in Nat /\ v < top /\ w < top
  <2>1. 8 * ByteBits \in Nat
    BY ByteAssumption
  <2>2. top \in Nat
    BY <2>1, PowerGrows
  <2> HIDE DEF top
  <2>3. v \in 0..top - 1 /\ w \in 0..top - 1
    BY DEF top
  <2>4. QED
    BY <2>2, <2>3
<1>2. ASSUME NEW i \in 0..7, Rest(v, i + 1) = Rest(w, i + 1)
      PROVE  Rest(v, i) = Rest(w, i)
  <2>1. i + 1 \in 1..8
    OBVIOUS
  <2>2. ByteOf(v, i + 1) = ByteOf(w, i + 1)
    BY <2>1 DEF Uint64Le
  <2> DEFINE p == 2^ByteBits
  <2>3. /\ Rest(v, i) = Rest(v, i + 1) * p + ByteOf(v, i + 1)
        /\ Rest(w, i) = Rest(w, i + 1) * p + ByteOf(w, i + 1)
    BY <1>1, RestIs
  <2> HIDE DEF p
  <2>4. QED
    BY <1>2, <2>2, <2>3
<1>3. Rest(v, 8) = 0 /\ Rest(w, 8) = 0
  <2>1. Rest(v, 8) = v \div top /\ Rest(w, 8) = w \div top
    BY DEF Rest
  <2> HIDE DEF top
  <2>2. top > 0 /\ v = 0 * top + v /\ w = 0 * top + w
    BY <1>1
  <2>3. v \div top = 0 /\ w \div top = 0
    BY <1>1, <2>2, DivIs
  <2>4. QED
    BY <2>1, <2>3
<1>4. Rest(v, 0) = v /\ Rest(w, 0) = w
  <2>1. 0 * ByteBits = 0
    BY ByteAssumption
  <2>2. 2^(0 * ByteBits) = 1
    BY <2>1, PowerZero
  <2>3. v \div 1 = v /\ w \div 1 = w
    BY <1>1
  <2>4. QED
    BY <2>2, <2>3 DEF Rest
<1>5. Rest(v, 7) = Rest(w, 7)
  <2>1. 7 \in 0..7 /\ 7 + 1 = 8
    OBVIOUS
  <2>2. QED
    BY <1>2, <1>3, <2>1
<1>6. Rest(v, 6) = Rest(w, 6)
  <2>1. 6 \in 0..7 /\ 6 + 1 = 7
    OBVIOUS
  <2>2. QED
    BY <1>2, <1>5, <2>1
<1>7. Rest(v, 5) = Rest(w, 5)
  <2>1. 5 \in 0..7 /\ 5 + 1 = 6
    OBVIOUS
  <2>2. QED
    BY <1>2, <1>6, <2>1
<1>8. Rest(v, 4) = Rest(w, 4)
  <2>1. 4 \in 0..7 /\ 4 + 1 = 5
    OBVIOUS
  <2>2. QED
    BY <1>2, <1>7, <2>1
<1>9. Rest(v, 3) = Rest(w, 3)
  <2>1. 3 \in 0..7 /\ 3 + 1 = 4
    OBVIOUS
  <2>2. QED
    BY <1>2, <1>8, <2>1
<1>10. Rest(v, 2) = Rest(w, 2)
  <2>1. 2 \in 0..7 /\ 2 + 1 = 3
    OBVIOUS
  <2>2. QED
    BY <1>2, <1>9, <2>1
<1>11. Rest(v, 1) = Rest(w, 1)
  <2>1. 1 \in 0..7 /\ 1 + 1 = 2
    OBVIOUS
  <2>2. QED
    BY <1>2, <1>10, <2>1
<1>12. Rest(v, 0) = Rest(w, 0)
  <2>1. 0 \in 0..7 /\ 0 + 1 = 1
    OBVIOUS
  <2>2. QED
    BY <1>2, <1>11, <2>1
<1>13. QED
  BY <1>4, <1>12

(* A list of three lists, of 3, 8 and 8 elements.                          *)
ThreeInOrder(e, a, b, c) ==
  /\ e[2] = a[2] /\ e[3] = a[3]
  /\ \A i \in 1..8 : e[3 + i] = b[i] /\ e[11 + i] = c[i]

LEMMA ThreeParts ==
  ASSUME NEW S, NEW a \in Seq(S), NEW b \in Seq(S), NEW c \in Seq(S),
         Len(a) = 3, Len(b) = 8, Len(c) = 8
  PROVE  ThreeInOrder((a \o b) \o c, a, b, c)
<1> DEFINE d == a \o b
           e == d \o c
<1>1. d \in Seq(S) /\ InOrder(d, a, b, 3, 8)
  BY ConcatInOrder
<1> HIDE DEF d
<1>2. /\ d[2] = a[2] /\ d[3] = a[3] /\ Len(d) = 11
      /\ \A i \in 1..8 : d[3 + i] = b[i]
  BY <1>1 DEF InOrder
<1>3. InOrder(e, d, c, 11, 8)
  BY <1>1, <1>2, ConcatInOrder
<1> HIDE DEF e
<1>4. /\ \A i \in 1..8 : e[3 + i] = d[3 + i] /\ e[11 + i] = c[i]
      /\ e[2] = d[2] /\ e[3] = d[3]
  BY <1>3 DEF InOrder
<1>5. QED
  BY <1>2, <1>4 DEF d, e, ThreeInOrder

(* A signable is its three hashes and the bytes of its two numbers.        *)
LEMMA SignableParts ==
  ASSUME NEW m, NEW t, NEW l \in Numbers, NEW f \in Numbers
  PROVE  LET bytes == Signable(m, t, l, f).bytes IN
         /\ bytes[2] = m /\ bytes[3] = t
         /\ \A i \in 1..8 : /\ bytes[3 + i] = Uint64Le(l)[i]
                             /\ bytes[11 + i] = Uint64Le(f)[i]
<1> DEFINE a == <<hashes["tree"], m, t>>
           b == Uint64Le(l)
           c == Uint64Le(f)
           S == {hashes["tree"], m, t} \cup {ByteOf(v, i) : v \in Numbers, i \in 1..8}
<1>1. a \in Seq(S) /\ Len(a) = 3 /\ a[2] = m /\ a[3] = t
  OBVIOUS
<1>2. ASSUME NEW v \in Numbers
      PROVE  Uint64Le(v) \in Seq(S) /\ Len(Uint64Le(v)) = 8
  <2>1. Uint64Le(v) = [i \in 1..8 |-> ByteOf(v, i)]
    BY DEF Uint64Le
  <2>2. \A i \in 1..8 : ByteOf(v, i) \in S
    OBVIOUS
  <2>3. 8 \in Nat
    OBVIOUS
  <2> HIDE DEF S
  <2>4. QED
    BY <2>1, <2>2, <2>3
<1>3. b \in Seq(S) /\ Len(b) = 8 /\ c \in Seq(S) /\ Len(c) = 8
  BY <1>2
<1>4. Signable(m, t, l, f).bytes = (a \o b) \o c
  BY DEF Signable
<1> HIDE DEF a, b, c, S
<1> DEFINE e == (a \o b) \o c
<1>5. ThreeInOrder(e, a, b, c)
  BY <1>1, <1>3, ThreeParts
<1> HIDE DEF e
<1>6. QED
  BY <1>1, <1>4, <1>5 DEF b, c, e, ThreeInOrder

LEMMA SignablesSeparate ==
  ASSUME NEW m, NEW t, NEW l \in Numbers, NEW f \in Numbers,
         NEW n, NEW u, NEW k \in Numbers, NEW g \in Numbers,
         Signable(m, t, l, f) = Signable(n, u, k, g)
  PROVE  m = n /\ t = u /\ l = k /\ f = g
<1> DEFINE bytes == Signable(m, t, l, f).bytes
<1>1. bytes = Signable(n, u, k, g).bytes
  OBVIOUS
<1>2. /\ bytes[2] = m /\ bytes[3] = t
      /\ \A i \in 1..8 : bytes[3 + i] = Uint64Le(l)[i] /\ bytes[11 + i] = Uint64Le(f)[i]
  BY SignableParts
<1>3. /\ bytes[2] = n /\ bytes[3] = u
      /\ \A i \in 1..8 : bytes[3 + i] = Uint64Le(k)[i] /\ bytes[11 + i] = Uint64Le(g)[i]
  BY <1>1, SignableParts
<1> HIDE DEF bytes
<1>4. Uint64Le(l) = Uint64Le(k) /\ Uint64Le(f) = Uint64Le(g)
  BY <1>2, <1>3 DEF Uint64Le
<1>5. QED
  BY <1>2, <1>3, <1>4, NumbersAssumption, BytesSeparate

-----------------------------------------------------------------------------
(* The namespaces are the hashes of six different indices.                 *)
LEMMA FilledIs ==
  /\ DOMAIN Filled = {Names[i] : i \in 1..6} /\ Len(Names) = 6
  /\ \A i \in 1..6 : Filled[Names[i]] = NamespaceHash(i - 1)
<1>1. Len(Names) = 6
  BY DEF Names
<1>2. \A i, j \in 1..6 : Names[i] = Names[j] => i = j
  BY DEF Names
<1>3. DOMAIN Filled = {Names[i] : i \in 1..6}
  BY <1>1 DEF Filled
<1>4. ASSUME NEW i \in 1..6
      PROVE  Filled[Names[i]] = NamespaceHash(i - 1)
  <2> DEFINE j == CHOOSE k \in 1..6 : Names[k] = Names[i]
  <2>1. j \in 1..6 /\ Names[j] = Names[i]
    OBVIOUS
  <2>2. j = i
    BY <1>2, <2>1
  <2>3. Filled[Names[i]] = NamespaceHash(j - 1)
    BY <1>1, <1>3 DEF Filled
  <2> HIDE DEF j
  <2>4. QED
    BY <2>2, <2>3
<1>5. QED
  BY <1>1, <1>3, <1>4

LEMMA NamespaceHashesSeparate ==
  ASSUME NEW a, NEW b, NamespaceHash(a) = NamespaceHash(b)
  PROVE  a = b
BY DEF NamespaceHash, Digest

LEMMA FilledSeparate ==
  ASSUME NEW n \in DOMAIN Filled, NEW m \in DOMAIN Filled, Filled[n] = Filled[m]
  PROVE  n = m
<1>1. PICK i \in 1..6 : n = Names[i]
  BY FilledIs
<1>2. PICK j \in 1..6 : m = Names[j]
  BY FilledIs
<1>3. NamespaceHash(i - 1) = NamespaceHash(j - 1)
  BY <1>1, <1>2, FilledIs
<1>4. i - 1 = j - 1
  BY <1>3, NamespaceHashesSeparate
<1>5. QED
  BY <1>1, <1>2, <1>4
-----------------------------------------------------------------------------
(* What a statement is signed or hashed as, once the namespaces are filled.*)
MadeTree(x) ==
  \E m, t \in Keys, l, f \in Numbers :
    x = [statement |-> <<"tree", m, t, l, f>>, as |-> Signable(m, t, l, f)]

MadeReplicate(x) ==
  \E side \in BOOLEAN, key, handshake \in Keys :
    x = [statement |-> <<"replicate", side, key, handshake>>,
         as |-> Replicate(side, key, handshake)]

MadeManifest(x) ==
  \E key \in Keys :
    x = [statement |-> <<"manifest", key>>, as |-> ManifestHash(key)]

MadeRight(x) == MadeTree(x) \/ MadeReplicate(x) \/ MadeManifest(x)

HashesInv ==
  /\ initialized \in {0, 1}
  /\ initialized = 0 => made = {} /\ result \notin {"ok", "again"}
  /\ initialized = 1 => hashes = Filled /\ \A x \in made : MadeRight(x)

LEMMA HashesInvInit == HashesInit => HashesInv
BY DEF HashesInit, HashesInv

LEMMA MadeKept ==
  ASSUME hashes' = hashes, NEW x, MadeRight(x)
  PROVE  MadeRight(x)'
BY DEF MadeRight, MadeTree, MadeReplicate, MadeManifest, Signable, Replicate, ManifestHash

LEMMA MakesStep ==
  ASSUME HashesInv, NEW statement, NEW as, Makes(statement, as),
         MadeRight([statement |-> statement, as |-> as])
  PROVE  HashesInv'
<1>1. /\ initialized' = 1 /\ hashes' = hashes /\ hashes' = Filled
      /\ \A x \in made : MadeRight(x)
  BY DEF HashesInv, Makes
<1>2. ASSUME NEW x \in made'
      PROVE  MadeRight(x)'
  <2>1. x \in made \/ x = [statement |-> statement, as |-> as]
    BY DEF Makes
  <2>2. MadeRight(x)
    BY <1>1, <2>1
  <2>3. QED
    BY <1>1, <2>2, MadeKept
<1>3. QED
  BY <1>1, <1>2 DEF HashesInv

LEMMA HashesInvStep == HashesInv /\ [HashesNext]_hashesVars => HashesInv'
<1> SUFFICES ASSUME HashesInv, [HashesNext]_hashesVars
             PROVE  HashesInv'
  OBVIOUS
<1>1. CASE HcInit
  BY <1>1 DEF HashesInv, HcInit
<1>2. CASE HcInitFails
  BY <1>2 DEF HashesInv, HcInitFails
<1>3. ASSUME HcInitAgain \/ UNCHANGED hashesVars
      PROVE  HashesInv'
  <2>1. hashes' = hashes /\ made' = made /\ initialized' = initialized
    BY <1>3 DEF HcInitAgain, hashesVars
  <2>2. initialized = 0 => result' = result
    BY <1>3 DEF HcInitAgain, hashesVars
  <2>3. ASSUME initialized = 1
        PROVE  \A x \in made' : MadeRight(x)'
    BY <2>1, <2>3, MadeKept DEF HashesInv
  <2>4. QED
    BY <2>1, <2>2, <2>3 DEF HashesInv
<1>4. CASE HashesTreeSignable
  <2>1. PICK m, t \in Keys, l, f \in Numbers :
          Makes(<<"tree", m, t, l, f>>, Signable(m, t, l, f))
    BY <1>4 DEF HashesTreeSignable
  <2>2. MadeRight([statement |-> <<"tree", m, t, l, f>>, as |-> Signable(m, t, l, f)])
    BY DEF MadeRight, MadeTree
  <2>3. QED
    BY <2>1, <2>2, MakesStep
<1>5. CASE HashesReplicate
  <2>1. PICK side \in BOOLEAN, key, handshake \in Keys :
          Makes(<<"replicate", side, key, handshake>>,
                Replicate(side, key, handshake))
    BY <1>5 DEF HashesReplicate
  <2>2. MadeRight([statement |-> <<"replicate", side, key, handshake>>,
                as |-> Replicate(side, key, handshake)])
    BY DEF MadeRight, MadeReplicate
  <2>3. QED
    BY <2>1, <2>2, MakesStep
<1>6. CASE HashesManifest
  <2>1. PICK key \in Keys : Makes(<<"manifest", key>>, ManifestHash(key))
    BY <1>6 DEF HashesManifest
  <2>2. MadeRight([statement |-> <<"manifest", key>>, as |-> ManifestHash(key)])
    BY DEF MadeRight, MadeManifest
  <2>3. QED
    BY <2>1, <2>2, MakesStep
<1>7. QED
  BY <1>1, <1>2, <1>3, <1>4, <1>5, <1>6 DEF HashesNext

(* The namespaces are filled exactly once, and what is made is made with   *)
(* them (src/init.c, src/hashes.c).                                        *)
THEOREM HashesAlwaysFilled == HashesSpec => []HashesInv
BY HashesInvInit, HashesInvStep, PTL DEF HashesSpec

-----------------------------------------------------------------------------
(* A call of hc_init that did not fail leaves every namespace filled, and  *)
(* no two alike, after failures and however often it is called.            *)
THEOREM NamespacesAlwaysReady == HashesSpec => []NamespacesReady
<1>1. HashesInv => NamespacesReady
  <2> SUFFICES ASSUME HashesInv, result \in {"ok", "again"}
               PROVE  /\ \A i \in 1..Len(Names) : Names[i] \in DOMAIN hashes
                      /\ \A n, m \in DOMAIN hashes :
                           hashes[n] = hashes[m] => n = m
    BY DEF NamespacesReady
  <2>1. hashes = Filled
    BY DEF HashesInv
  <2>2. \A i \in 1..Len(Names) : Names[i] \in DOMAIN Filled
    BY FilledIs
  <2>3. QED
    BY <2>1, <2>2, FilledSeparate
<1>2. QED
  BY <1>1, HashesAlwaysFilled, PTL

(* The name spaces a replication and a manifest begin with.                *)
LEMMA NamesFilled ==
  {"replicate_initiator", "replicate_responder", "manifest"} \subseteq DOMAIN Filled
<1>1. Names[2] = "replicate_initiator" /\ Names[3] = "replicate_responder"
      /\ Names[4] = "manifest"
  BY DEF Names
<1>2. QED
  BY <1>1, FilledIs

LEMMA ReplicatesSeparate ==
  ASSUME hashes = Filled, NEW s \in BOOLEAN, NEW k, NEW h,
         NEW r \in BOOLEAN, NEW l, NEW g,
         Replicate(s, k, h) = Replicate(r, l, g)
  PROVE  s = r /\ k = l /\ h = g
<1> DEFINE n == IF s THEN "replicate_initiator" ELSE "replicate_responder"
           m == IF r THEN "replicate_initiator" ELSE "replicate_responder"
<1>1. /\ Replicate(s, k, h) = [key |-> h, input |-> <<Filled[n], k>>]
      /\ Replicate(r, l, g) = [key |-> g, input |-> <<Filled[m], l>>]
  BY DEF Replicate, Digest
<1> DEFINE p == <<Filled[n], k>>
           q == <<Filled[m], l>>
<1>2. h = g /\ p = q
  <2> HIDE DEF p, q
  <2>1. [key |-> h, input |-> p] = [key |-> g, input |-> q]
    BY <1>1 DEF p, q
  <2>2. QED
    BY <2>1
<1>3. Filled[n] = Filled[m] /\ k = l
  BY <1>2
<1>4. n \in DOMAIN Filled /\ m \in DOMAIN Filled
  BY NamesFilled
<1>5. n = m
  BY <1>3, <1>4, FilledSeparate
<1>6. QED
  BY <1>2, <1>3, <1>5

LEMMA ManifestNoReplicate ==
  ASSUME hashes = Filled, NEW s \in BOOLEAN, NEW k, NEW h, NEW l
  PROVE  Replicate(s, k, h) # ManifestHash(l)
<1> DEFINE n == IF s THEN "replicate_initiator" ELSE "replicate_responder"
<1>1. SUFFICES ASSUME Replicate(s, k, h) = ManifestHash(l)
               PROVE  FALSE
  OBVIOUS
<1>2. /\ Replicate(s, k, h) = [key |-> h, input |-> <<Filled[n], k>>]
      /\ ManifestHash(l) = [key |-> "none", input |-> <<Filled["manifest"], l>>]
  BY DEF Replicate, ManifestHash, Digest
<1> DEFINE p == <<Filled[n], k>>
           q == <<Filled["manifest"], l>>
<1>3. p = q
  <2> HIDE DEF p, q
  <2>1. [key |-> h, input |-> p] = [key |-> "none", input |-> q]
    BY <1>1, <1>2 DEF p, q
  <2>2. QED
    BY <2>1
<1>4. Filled[n] = Filled["manifest"]
  BY <1>3
<1>5. n \in DOMAIN Filled /\ "manifest" \in DOMAIN Filled
  BY NamesFilled
<1>6. n = "manifest"
  BY <1>4, <1>5, FilledSeparate
<1>7. QED
  BY <1>6

(* A signable is bytes that are signed, the others are digests.            *)
LEMMA SignableNoDigest ==
  ASSUME NEW m, NEW t, NEW l, NEW f
  PROVE  /\ \A s, k, h : Signable(m, t, l, f) # Replicate(s, k, h)
         /\ \A k : Signable(m, t, l, f) # ManifestHash(k)
<1>1. DOMAIN Signable(m, t, l, f) = {"bytes"}
  BY DEF Signable
<1>2. \A k, x : DOMAIN Digest(k, x) = {"key", "input"}
  BY DEF Digest
<1>3. \A s, k, h : DOMAIN Replicate(s, k, h) = {"key", "input"}
  BY <1>2 DEF Replicate
<1>4. \A k : DOMAIN ManifestHash(k) = {"key", "input"}
  BY <1>2 DEF ManifestHash
<1>5. {"bytes"} # {"key", "input"}
  OBVIOUS
<1>6. QED
  BY <1>1, <1>3, <1>4, <1>5, Zenon

(* Two statements made alike are of one kind, and the same.                *)
LEMMA TreesSeparate ==
  ASSUME NEW a, NEW b, MadeTree(a), MadeTree(b), a.as = b.as
  PROVE  a.statement = b.statement
<1>1. PICK m, t \in Keys, l, f \in Numbers :
        a = [statement |-> <<"tree", m, t, l, f>>, as |-> Signable(m, t, l, f)]
  BY DEF MadeTree
<1>2. PICK n, u \in Keys, k, g \in Numbers :
        b = [statement |-> <<"tree", n, u, k, g>>, as |-> Signable(n, u, k, g)]
  BY DEF MadeTree
<1>3. Signable(m, t, l, f) = Signable(n, u, k, g)
  BY <1>1, <1>2
<1>4. m = n /\ t = u /\ l = k /\ f = g
  BY <1>3, SignablesSeparate
<1>5. QED
  BY <1>1, <1>2, <1>4

LEMMA ReplicationsSeparate ==
  ASSUME hashes = Filled, NEW a, NEW b, MadeReplicate(a), MadeReplicate(b), a.as = b.as
  PROVE  a.statement = b.statement
<1>1. PICK s \in BOOLEAN, k, h \in Keys :
        a = [statement |-> <<"replicate", s, k, h>>, as |-> Replicate(s, k, h)]
  BY DEF MadeReplicate
<1>2. PICK r \in BOOLEAN, l, g \in Keys :
        b = [statement |-> <<"replicate", r, l, g>>, as |-> Replicate(r, l, g)]
  BY DEF MadeReplicate
<1>3. Replicate(s, k, h) = Replicate(r, l, g)
  BY <1>1, <1>2
<1>4. s = r /\ k = l /\ h = g
  BY <1>3, ReplicatesSeparate
<1>5. QED
  BY <1>1, <1>2, <1>4

LEMMA ManifestsSeparate ==
  ASSUME NEW a, NEW b, MadeManifest(a), MadeManifest(b), a.as = b.as
  PROVE  a.statement = b.statement
<1>1. PICK k \in Keys : a = [statement |-> <<"manifest", k>>, as |-> ManifestHash(k)]
  BY DEF MadeManifest
<1>2. PICK l \in Keys : b = [statement |-> <<"manifest", l>>, as |-> ManifestHash(l)]
  BY DEF MadeManifest
<1> DEFINE p == <<hashes["manifest"], k>>
           q == <<hashes["manifest"], l>>
<1>3. p = q
  <2>1. ManifestHash(k) = [key |-> "none", input |-> p]
        /\ ManifestHash(l) = [key |-> "none", input |-> q]
    BY DEF ManifestHash, Digest
  <2>2. ManifestHash(k) = ManifestHash(l)
    BY <1>1, <1>2
  <2> HIDE DEF p, q
  <2>3. [key |-> "none", input |-> p] = [key |-> "none", input |-> q]
    BY <2>1, <2>2
  <2>4. QED
    BY <2>3
<1>4. k = l
  BY <1>3
<1>5. QED
  BY <1>1, <1>2, <1>4

LEMMA KindsSeparate ==
  ASSUME hashes = Filled, NEW a, NEW b, a.as = b.as
  PROVE  /\ ~(MadeTree(a) /\ MadeReplicate(b)) /\ ~(MadeTree(a) /\ MadeManifest(b))
         /\ ~(MadeReplicate(a) /\ MadeManifest(b))
<1>1. MadeTree(a) => \E m, t, l, f : a.as = Signable(m, t, l, f)
  BY DEF MadeTree
<1>2. \A x : MadeReplicate(x) => \E k, h : \E s \in BOOLEAN : x.as = Replicate(s, k, h)
  BY DEF MadeReplicate
<1>3. MadeManifest(b) => \E k : b.as = ManifestHash(k)
  BY DEF MadeManifest
<1>4. ~(MadeTree(a) /\ MadeReplicate(b))
  BY <1>1, <1>2, SignableNoDigest
<1>5. ~(MadeTree(a) /\ MadeManifest(b))
  BY <1>1, <1>3, SignableNoDigest
<1>6. ~(MadeReplicate(a) /\ MadeManifest(b))
  BY <1>2, <1>3, ManifestNoReplicate
<1>7. QED
  BY <1>4, <1>5, <1>6

(* Different statements are never signed or hashed as the same bytes: not  *)
(* two lengths or forks of a tree, not the two sides of a replication, not *)
(* a manifest as anything else (src/hashes.c).                             *)
THEOREM StatementsAlwaysSeparate == HashesSpec => []StatementsSeparate
<1>1. HashesInv => StatementsSeparate
  <2> SUFFICES ASSUME HashesInv, NEW a \in made, NEW b \in made, a.as = b.as
               PROVE  a.statement = b.statement
    BY DEF StatementsSeparate
  <2>1. hashes = Filled /\ MadeRight(a) /\ MadeRight(b)
    BY DEF HashesInv
  <2>2. b.as = a.as
    OBVIOUS
  <2>3. /\ ~(MadeTree(a) /\ MadeReplicate(b)) /\ ~(MadeTree(a) /\ MadeManifest(b))
        /\ ~(MadeReplicate(a) /\ MadeManifest(b))
    BY <2>1, KindsSeparate
  <2>4. /\ ~(MadeTree(b) /\ MadeReplicate(a)) /\ ~(MadeTree(b) /\ MadeManifest(a))
        /\ ~(MadeReplicate(b) /\ MadeManifest(a))
    BY <2>1, <2>2, KindsSeparate
  <2>5. \/ MadeTree(a) /\ MadeTree(b)
        \/ MadeReplicate(a) /\ MadeReplicate(b)
        \/ MadeManifest(a) /\ MadeManifest(b)
    BY <2>1, <2>3, <2>4 DEF MadeRight
  <2>6. QED
    BY <2>1, <2>5, TreesSeparate, ReplicationsSeparate, ManifestsSeparate
<1>2. QED
  BY <1>1, HashesAlwaysFilled, PTL

-----------------------------------------------------------------------------
(* The first elements of a list and the next are no more than the total.   *)
LEMMA PrefixFits ==
  ASSUME NEW t \in Seq(Nat), NEW n \in Nat, n < Len(t),
         NEW s, s = [i \in 1..n |-> t[i]]
  PROVE  Total(s) + t[n + 1] <= Total(t)
<1>1. s \in Seq(Nat) /\ Len(s) = n /\ t[n + 1] \in Nat /\ Len(t) \in Nat
  OBVIOUS
<1> DEFINE u == Append(s, t[n + 1])
           v == [i \in 1..Len(t) - (n + 1) |-> t[n + 1 + i]]
<1>2. u \in Seq(Nat) /\ Len(u) = n + 1
  BY <1>1
<1>3. v \in Seq(Nat) /\ Len(v) = Len(t) - (n + 1)
  <2>1. Len(t) - (n + 1) \in Nat
    BY <1>1
  <2>2. \A i \in 1..Len(t) - (n + 1) : t[n + 1 + i] \in Nat
    BY <1>1
  <2>3. QED
    BY <2>1, <2>2
<1>4. \A i \in 1..n + 1 : u[i] = t[i]
  BY <1>1
<1>5. \A i \in 1..Len(t) - (n + 1) : v[i] = t[n + 1 + i]
  OBVIOUS
<1> HIDE DEF u, v
<1>6. u \o v = t
  <2>1. u \o v \in Seq(Nat) /\ InOrder(u \o v, u, v, Len(u), Len(v))
    BY <1>2, <1>3, ConcatInOrder
  <2> DEFINE e == u \o v
  <2> HIDE DEF e
  <2>2. Len(e) = Len(t) /\ e \in Seq(Nat)
    BY <1>1, <1>2, <1>3, <2>1 DEF InOrder, e
  <2>3. ASSUME NEW i \in 1..Len(t)
        PROVE  e[i] = t[i]
    <3>1. CASE i <= n + 1
      <4>1. i \in 1..n + 1
        BY <3>1
      <4>2. QED
        BY <1>2, <1>4, <2>1, <4>1 DEF InOrder, e
    <3>2. CASE i > n + 1
      <4>1. i - (n + 1) \in 1..Len(t) - (n + 1) /\ n + 1 + (i - (n + 1)) = i
        BY <1>1, <3>2
      <4>2. e[n + 1 + (i - (n + 1))] = v[i - (n + 1)]
        BY <1>2, <1>3, <2>1, <4>1 DEF InOrder, e
      <4>3. QED
        BY <1>5, <4>1, <4>2
    <3>3. QED
      BY <3>1, <3>2
  <2>4. e = t
    BY <2>2, <2>3, SameLists
  <2>5. QED
    BY <2>4 DEF e
<1>7. Total(t) = Total(u) + Total(v) /\ Total(v) \in Nat
  BY <1>2, <1>3, <1>6, TotalConcat, TotalType
<1>8. Total(u) = Total(s) + t[n + 1] /\ Total(s) \in Nat
  BY <1>1, TotalAppend, TotalType DEF u
<1>9. QED
  BY <1>1, <1>7, <1>8

-----------------------------------------------------------------------------
(* The sizes of fields.                                                    *)
OptionNames == UNION {Options[k] : k \in Kinds}
FieldNames ==
  {"index", "size", "hash", "fork", "length", "root_hash", "signature", "flags",
   "timestamp", "cores", "datas", "groups", "seed", "default_discovery_key",
   "core_ptr", "data_ptr", "namespace", "public_key", "version", "quorum",
   "signers", "linked", "link", "user_data"}
FieldSet ==
  [name : FieldNames, size : Nat, value : Nat \cup SUBSET OptionNames]
Sizes(F) == [i \in DOMAIN F |-> F[i].size]

LEMMA SizesAre ==
  ASSUME NEW F \in Seq(FieldSet)
  PROVE  /\ Sizes(F) \in Seq(Nat) /\ Len(Sizes(F)) = Len(F)
         /\ SizeOf(F) = Total(Sizes(F)) /\ SizeOf(F) \in Nat
<1>1. Len(F) \in Nat /\ DOMAIN F = 1..Len(F)
  OBVIOUS
<1>2. \A i \in 1..Len(F) : F[i].size \in Nat
  <2>1. \A i \in 1..Len(F) : F[i] \in FieldSet
    OBVIOUS
  <2>2. QED
    BY <2>1 DEF FieldSet
<1>3. Sizes(F) = [i \in 1..Len(F) |-> F[i].size]
  BY <1>1 DEF Sizes
<1>4. Sizes(F) \in Seq(Nat) /\ Len(Sizes(F)) = Len(F)
  BY <1>1, <1>2, <1>3
<1>5. SizeOf(F) = Total(Sizes(F))
  BY DEF SizeOf, Sizes
<1>6. QED
  BY <1>4, <1>5, TotalType

LEMMA SizesConcat ==
  ASSUME NEW F \in Seq(FieldSet), NEW G \in Seq(FieldSet)
  PROVE  /\ F \o G \in Seq(FieldSet)
         /\ SizeOf(F \o G) = SizeOf(F) + SizeOf(G)
<1> DEFINE H == F \o G
           s == Sizes(F)
           t == Sizes(G)
           e == s \o t
<1>1. Len(F) \in Nat /\ Len(G) \in Nat
  OBVIOUS
<1>2. H \in Seq(FieldSet) /\ InOrder(H, F, G, Len(F), Len(G))
  BY ConcatInOrder
<1>3. /\ s \in Seq(Nat) /\ Len(s) = Len(F) /\ SizeOf(F) = Total(s)
      /\ t \in Seq(Nat) /\ Len(t) = Len(G) /\ SizeOf(G) = Total(t)
  BY SizesAre
<1> HIDE DEF H
<1>4. /\ Sizes(H) \in Seq(Nat) /\ Len(Sizes(H)) = Len(H)
      /\ SizeOf(H) = Total(Sizes(H))
  BY <1>2, SizesAre
<1>5. \A i \in 1..Len(F) : s[i] = F[i].size
  BY DEF Sizes
<1>6. \A i \in 1..Len(G) : t[i] = G[i].size
  BY DEF Sizes
<1>7. Len(H) \in Nat /\ \A i \in 1..Len(H) : Sizes(H)[i] = H[i].size
  BY <1>2 DEF Sizes
<1> HIDE DEF s, t
<1>8. e \in Seq(Nat) /\ InOrder(e, s, t, Len(F), Len(G))
  BY <1>3, ConcatInOrder
<1> HIDE DEF e
<1>9. Len(e) = Len(F) + Len(G) /\ Len(H) = Len(F) + Len(G)
  BY <1>2, <1>8 DEF InOrder
<1>10. ASSUME NEW i \in 1..Len(F) + Len(G)
       PROVE  Sizes(H)[i] = e[i]
  <2>1. CASE i <= Len(F)
    <3>1. i \in 1..Len(F)
      BY <1>1, <2>1
    <3>2. e[i] = s[i] /\ H[i] = F[i]
      BY <1>2, <1>8, <3>1 DEF InOrder
    <3>3. QED
      BY <1>5, <1>7, <1>9, <3>1, <3>2
  <2>2. CASE i > Len(F)
    <3>1. PICK j \in 1..Len(G) : i = Len(F) + j
      <4>1. i - Len(F) \in 1..Len(G) /\ i = Len(F) + (i - Len(F))
        BY <1>1, <2>2
      <4>2. QED
        BY <4>1
    <3>2. e[i] = t[j] /\ H[i] = G[j]
      BY <1>2, <1>8, <3>1 DEF InOrder
    <3>3. QED
      BY <1>6, <1>7, <1>9, <3>1, <3>2
  <2>3. QED
    BY <1>1, <2>1, <2>2
<1>11. Sizes(H) = e
  <2>1. Len(Sizes(H)) = Len(e) /\ Len(e) \in Nat
    BY <1>1, <1>4, <1>9
  <2>2. \A i \in 1..Len(e) : Sizes(H)[i] = e[i]
    BY <1>9, <1>10
  <2> DEFINE q == Sizes(H)
  <2> HIDE DEF q
  <2>3. QED
    BY <1>4, <1>8, <2>1, <2>2 DEF q
<1>12. SizeOf(H) = Total(s) + Total(t)
  BY <1>3, <1>4, <1>11, TotalConcat DEF e
<1>13. QED
  BY <1>2, <1>3, <1>12 DEF H

LEMMA SizeEmpty == SizeOf(<<>>) = 0
<1>1. [i \in DOMAIN <<>> |-> <<>>[i].size] = <<>>
  OBVIOUS
<1>2. QED
  BY <1>1, TotalEmpty DEF SizeOf

LEMMA SizeOne ==
  ASSUME NEW x \in FieldSet
  PROVE  <<x>> \in Seq(FieldSet) /\ SizeOf(<<x>>) = x.size
<1>1. [i \in DOMAIN <<x>> |-> <<x>>[i].size] = Append(<<>>, x.size)
  OBVIOUS
<1>2. x.size \in Nat /\ <<>> \in Seq(Nat)
  BY DEF FieldSet
<1>3. Total(Append(<<>>, x.size)) = 0 + x.size
  BY <1>2, TotalEmpty, TotalAppend
<1>4. QED
  BY <1>1, <1>2, <1>3 DEF SizeOf

LEMMA SizeGrows ==
  ASSUME NEW F \in Seq(FieldSet), NEW H \in Seq(FieldSet), NEW n \in Nat,
         Len(F) = n, Len(H) = n + 1, \A i \in 1..n : H[i] = F[i]
  PROVE  SizeOf(H) = SizeOf(F) + H[n + 1].size
<1> DEFINE G == <<H[n + 1]>>
<1>1. H[n + 1] \in FieldSet
  OBVIOUS
<1>2. G \in Seq(FieldSet) /\ SizeOf(G) = H[n + 1].size
  BY <1>1, SizeOne
<1>3. Len(G) = 1 /\ G[1] = H[n + 1]
  OBVIOUS
<1> HIDE DEF G
<1>4. F \o G \in Seq(FieldSet) /\ InOrder(F \o G, F, G, n, 1)
  BY <1>2, <1>3, ConcatInOrder
<1>5. Len(F \o G) = Len(H) /\ \A i \in 1..Len(H) : (F \o G)[i] = H[i]
  <2>1. Len(F \o G) = n + 1 /\ (F \o G)[n + 1] = G[1]
        /\ \A i \in 1..n : (F \o G)[i] = F[i]
    BY <1>4 DEF InOrder
  <2>2. ASSUME NEW i \in 1..Len(H)
        PROVE  (F \o G)[i] = H[i]
    <3>1. i \in 1..n \/ i = n + 1
      OBVIOUS
    <3>2. QED
      BY <1>3, <2>1, <3>1
  <2>3. QED
    BY <2>1, <2>2
<1>6. F \o G = H
  BY <1>4, <1>5, SameLists
<1>7. SizeOf(F \o G) = SizeOf(F) + SizeOf(G)
  BY <1>2, SizesConcat
<1>8. QED
  BY <1>2, <1>6, <1>7

(* The sizes of a few fields.                                              *)
LEMMA SizeTwo ==
  ASSUME NEW a \in FieldSet, NEW b \in FieldSet
  PROVE  /\ <<a, b>> \in Seq(FieldSet)
         /\ SizeOf(<<a, b>>) = a.size + b.size
<1> DEFINE F == <<a>>
           H == <<a, b>>
<1>1. F \in Seq(FieldSet) /\ SizeOf(F) = a.size
  BY SizeOne
<1>2. H \in Seq(FieldSet) /\ Len(F) = 1 /\ Len(H) = 1 + 1 /\ H[1 + 1] = b
  OBVIOUS
<1>3. \A i \in 1..1 : H[i] = F[i]
  OBVIOUS
<1> HIDE DEF F, H
<1>4. SizeOf(H) = SizeOf(F) + H[1 + 1].size
  BY <1>1, <1>2, <1>3, SizeGrows
<1>5. QED
  BY <1>1, <1>2, <1>4 DEF F, H

LEMMA SizeThree ==
  ASSUME NEW a \in FieldSet, NEW b \in FieldSet, NEW c \in FieldSet
  PROVE  /\ <<a, b, c>> \in Seq(FieldSet)
         /\ SizeOf(<<a, b, c>>) = a.size + b.size + c.size
<1> DEFINE F == <<a, b>>
           H == <<a, b, c>>
<1>1. F \in Seq(FieldSet) /\ SizeOf(F) = a.size + b.size
  BY SizeTwo
<1>2. H \in Seq(FieldSet) /\ Len(F) = 2 /\ Len(H) = 2 + 1 /\ H[2 + 1] = c
  OBVIOUS
<1>3. \A i \in 1..2 : H[i] = F[i]
  OBVIOUS
<1> HIDE DEF F, H
<1>4. SizeOf(H) = SizeOf(F) + H[2 + 1].size
  BY <1>1, <1>2, <1>3, SizeGrows
<1>5. QED
  BY <1>1, <1>2, <1>4 DEF F, H

LEMMA SizeFour ==
  ASSUME NEW a \in FieldSet, NEW b \in FieldSet, NEW c \in FieldSet, NEW d \in FieldSet
  PROVE  /\ <<a, b, c, d>> \in Seq(FieldSet)
         /\ SizeOf(<<a, b, c, d>>) = a.size + b.size + c.size + d.size
<1> DEFINE F == <<a, b, c>>
           H == <<a, b, c, d>>
<1>1. F \in Seq(FieldSet) /\ SizeOf(F) = a.size + b.size + c.size
  BY SizeThree
<1>2. H \in Seq(FieldSet) /\ Len(F) = 3 /\ Len(H) = 3 + 1 /\ H[3 + 1] = d
  OBVIOUS
<1>3. \A i \in 1..3 : H[i] = F[i]
  OBVIOUS
<1> HIDE DEF F, H
<1>4. SizeOf(H) = SizeOf(F) + H[3 + 1].size
  BY <1>1, <1>2, <1>3, SizeGrows
<1>5. QED
  BY <1>1, <1>2, <1>4 DEF F, H

LEMMA SizeFive ==
  ASSUME NEW a \in FieldSet, NEW b \in FieldSet, NEW c \in FieldSet, NEW d \in FieldSet, NEW e \in FieldSet
  PROVE  /\ <<a, b, c, d, e>> \in Seq(FieldSet)
         /\ SizeOf(<<a, b, c, d, e>>) = a.size + b.size + c.size + d.size + e.size
<1> DEFINE F == <<a, b, c, d>>
           H == <<a, b, c, d, e>>
<1>1. F \in Seq(FieldSet) /\ SizeOf(F) = a.size + b.size + c.size + d.size
  BY SizeFour
<1>2. H \in Seq(FieldSet) /\ Len(F) = 4 /\ Len(H) = 4 + 1 /\ H[4 + 1] = e
  OBVIOUS
<1>3. \A i \in 1..4 : H[i] = F[i]
  OBVIOUS
<1> HIDE DEF F, H
<1>4. SizeOf(H) = SizeOf(F) + H[4 + 1].size
  BY <1>1, <1>2, <1>3, SizeGrows
<1>5. QED
  BY <1>1, <1>2, <1>4 DEF F, H

(* The first fields and the next take no more than all of them.            *)
LEMMA SizesPrefix ==
  ASSUME NEW F \in Seq(FieldSet), NEW n \in Nat, n < Len(F),
         NEW s, s = [i \in 1..n |-> F[i]]
  PROVE  SizeOf(s) + F[n + 1].size <= SizeOf(F)
<1> DEFINE t == Sizes(F)
           u == [i \in 1..n |-> t[i]]
<1>1. t \in Seq(Nat) /\ Len(t) = Len(F) /\ SizeOf(F) = Total(t)
  BY SizesAre
<1>2. \A i \in 1..Len(F) : t[i] = F[i].size
  BY DEF Sizes
<1> HIDE DEF t
<1>3. Total(u) + t[n + 1] <= Total(t)
  BY <1>1, PrefixFits
<1>4. DOMAIN s = 1..n
  OBVIOUS
<1>5. \A i \in 1..n : i \in 1..Len(F)
  OBVIOUS
<1>6. [i \in DOMAIN s |-> s[i].size] = u
  BY <1>2, <1>4, <1>5
<1>7. n + 1 \in 1..Len(F)
  OBVIOUS
<1>8. SizeOf(s) = Total(u)
  BY <1>6 DEF SizeOf
<1>9. QED
  BY <1>1, <1>2, <1>3, <1>7, <1>8

-----------------------------------------------------------------------------
(* Fields n times over.                                                    *)
LEMMA PlacesOfTimes ==
  ASSUME NEW S, NEW F \in Seq(S), Len(F) > 0, NEW n \in Nat
  PROVE  /\ Times(n, F) \in Seq(S) /\ Len(Times(n, F)) = n * Len(F)
         /\ \A i \in 1..n * Len(F) :
              /\ ((i - 1) % Len(F)) + 1 \in 1..Len(F)
              /\ Times(n, F)[i] = F[((i - 1) % Len(F)) + 1]
<1> DEFINE w == Len(F)
<1>1. w \in Nat /\ w > 0 /\ \A j \in 1..w : F[j] \in S
  OBVIOUS
<1>2. Times(n, F) = [i \in 1..n * w |-> F[((i - 1) % w) + 1]]
  BY DEF Times
<1> HIDE DEF w
<1>3. ASSUME NEW i \in 1..n * w
      PROVE  ((i - 1) % w) + 1 \in 1..w
  <2>1. i - 1 \in Nat
    OBVIOUS
  <2>2. (i - 1) % w \in Nat /\ (i - 1) % w < w
    BY <1>1, <2>1, DivRest
  <2>3. QED
    BY <1>1, <2>2
<1>4. n * w \in Nat
  BY <1>1
<1>5. \A i \in 1..n * w : F[((i - 1) % w) + 1] \in S
  BY <1>1, <1>3
<1> DEFINE k == n * w
<1> HIDE DEF k
<1>6. Times(n, F) \in Seq(S) /\ Len(Times(n, F)) = n * w
  <2>1. Times(n, F) = [i \in 1..k |-> F[((i - 1) % w) + 1]]
    BY <1>2 DEF k
  <2>2. k \in Nat /\ \A i \in 1..k : F[((i - 1) % w) + 1] \in S
    BY <1>4, <1>5 DEF k
  <2>3. Times(n, F) \in Seq(S) /\ Len(Times(n, F)) = k
    BY <2>1, <2>2
  <2>4. QED
    BY <2>3 DEF k
<1>7. \A i \in 1..n * w : Times(n, F)[i] = F[((i - 1) % w) + 1]
  BY <1>2
<1>8. QED
  BY <1>3, <1>6, <1>7 DEF w

LEMMA TimesPlaces ==
  ASSUME NEW F \in Seq(FieldSet), Len(F) > 0, NEW n \in Nat
  PROVE  /\ Times(n, F) \in Seq(FieldSet) /\ Len(Times(n, F)) = n * Len(F)
         /\ \A i \in 1..n * Len(F) :
              /\ ((i - 1) % Len(F)) + 1 \in 1..Len(F)
              /\ Times(n, F)[i] = F[((i - 1) % Len(F)) + 1]
BY PlacesOfTimes

LEMMA TimesMore ==
  ASSUME NEW F \in Seq(FieldSet), Len(F) > 0, NEW n \in Nat
  PROVE  Times(n + 1, F) = Times(n, F) \o F
<1> DEFINE w == Len(F)
           S == Times(n, F)
           T == Times(n + 1, F)
           H == S \o F
<1>1. /\ w \in Nat /\ w > 0 /\ n * w \in Nat /\ (n + 1) * w = n * w + w
  OBVIOUS
<1>2. /\ S \in Seq(FieldSet) /\ Len(S) = n * w
      /\ \A i \in 1..n * w : S[i] = F[((i - 1) % w) + 1]
  BY TimesPlaces
<1>3. /\ T \in Seq(FieldSet) /\ Len(T) = (n + 1) * w
      /\ \A i \in 1..(n + 1) * w : T[i] = F[((i - 1) % w) + 1]
  <2>1. n + 1 \in Nat
    OBVIOUS
  <2>2. QED
    BY <2>1, TimesPlaces
<1> HIDE DEF S, T
<1>4. H \in Seq(FieldSet) /\ InOrder(H, S, F, n * w, w)
  BY <1>2, ConcatInOrder
<1> HIDE DEF H, w
<1> DEFINE k == n * w
<1> HIDE DEF k
<1>5. ASSUME NEW i \in 1..k + w
      PROVE  T[i] = H[i]
  <2>1. T[i] = F[((i - 1) % w) + 1]
    BY <1>1, <1>3 DEF k
  <2>2. CASE i <= k
    <3>1. i \in 1..k
      BY <1>1, <2>2 DEF k
    <3>2. S[i] = F[((i - 1) % w) + 1] /\ H[i] = S[i]
      BY <1>2, <1>4, <3>1 DEF InOrder, k
    <3>3. QED
      BY <2>1, <3>2
  <2>3. CASE i > k
    <3>1. PICK j \in 1..w : i = k + j
      <4>1. i - k \in 1..w /\ i = k + (i - k)
        BY <1>1, <2>3 DEF k
      <4>2. QED
        BY <4>1
    <3>2. H[i] = F[j]
      BY <1>4, <3>1 DEF InOrder, k
    <3>3. i - 1 = n * w + (j - 1) /\ i - 1 \in Nat /\ j - 1 \in Nat /\ j - 1 < w
      BY <1>1, <3>1 DEF k
    <3>4. (i - 1) % w = j - 1
      <4>1. PICK a, r : a = i - 1 /\ r = j - 1
        OBVIOUS
      <4>2. a \in Nat /\ r \in Nat /\ r < w /\ a = n * w + r
        BY <3>3, <4>1
      <4>3. a % w = r
        BY <1>1, <4>2, DivIs
      <4>4. QED
        BY <4>1, <4>3
    <3>5. (j - 1) + 1 = j
      BY <1>1, <3>1
    <3>6. QED
      BY <2>1, <3>2, <3>4, <3>5
  <2>4. QED
    BY <1>1, <2>2, <2>3 DEF k
<1>6. Len(T) = k + w /\ Len(H) = k + w /\ k + w \in Nat
  BY <1>1, <1>3, <1>4 DEF InOrder, k
<1>7. T = H
  BY <1>3, <1>4, <1>5, <1>6
<1>8. QED
  BY <1>7 DEF T, H, S

LEMMA TimesNone ==
  ASSUME NEW F \in Seq(FieldSet), Len(F) > 0
  PROVE  Times(0, F) = <<>>
<1>1. 0 * Len(F) = 0
  OBVIOUS
<1>2. Times(0, F) \in Seq(FieldSet) /\ Len(Times(0, F)) = 0
  BY <1>1, TimesPlaces
<1>3. QED
  BY <1>2

LEMMA SizeTimes ==
  ASSUME NEW F \in Seq(FieldSet), Len(F) > 0, NEW n \in Nat
  PROVE  SizeOf(Times(n, F)) = n * SizeOf(F)
<1> DEFINE wrong == {m \in Nat : SizeOf(Times(m, F)) # m * SizeOf(F)}
<1>0. SizeOf(F) \in Nat
  BY SizesAre
<1>1. CASE wrong = {}
  BY <1>1
<1>2. CASE wrong # {}
  <2>1. PICK m \in wrong : m \in Nat /\ \A y \in Nat : y < m => y \notin wrong
    <3>1. wrong \subseteq Nat
      OBVIOUS
    <3>2. QED
      BY <1>2, <3>1, FirstNumber
  <2>2. CASE m = 0
    <3>1. Times(0, F) = <<>>
      BY TimesNone
    <3>2. SizeOf(Times(m, F)) = 0 /\ m * SizeOf(F) = 0
      BY <1>0, <2>2, <3>1, SizeEmpty
    <3>3. QED
      BY <2>1, <3>2
  <2>3. CASE m # 0
    <3>1. PICK k \in Nat : m = k + 1
      <4>1. m - 1 \in Nat /\ m = (m - 1) + 1
        BY <2>1, <2>3
      <4>2. QED
        BY <4>1
    <3>2. SizeOf(Times(k, F)) = k * SizeOf(F)
      BY <2>1, <3>1
    <3>3. Times(m, F) = Times(k, F) \o F
      BY <3>1, TimesMore
    <3>4. Times(k, F) \in Seq(FieldSet)
      BY <3>1, TimesPlaces
    <3>5. SizeOf(Times(k, F) \o F) = SizeOf(Times(k, F)) + SizeOf(F)
      BY <3>4, SizesConcat
    <3>6. m * SizeOf(F) = k * SizeOf(F) + SizeOf(F)
      BY <1>0, <3>1
    <3>7. SizeOf(Times(m, F)) = m * SizeOf(F)
      BY <3>2, <3>3, <3>5, <3>6
    <3>8. QED
      BY <2>1, <3>7
  <2>4. QED
    BY <2>2, <2>3
<1>3. QED
  BY <1>1, <1>2

-----------------------------------------------------------------------------
(* The parts of a manifest.                                                *)
ManifestHead(r) ==
  <<Uint(r, "version"), Flags(r.has), Uint(r, "hash"), Uint(r, "quorum"),
    Count("signers", r.signers)>>
ManifestSigners(r) == Times(r.signers, SignerFields(r))
ManifestPrologue(r) == Optional("prologue" \in r.has, PrologueFields(r))
ManifestLinked(r) ==
  Optional("linked" \in r.has,
           <<Count("linked", r.linked)>> \o Times(r.linked, <<Fixed32("link")>>))
ManifestUser(r) == Optional("user_data" \in r.has, <<Bytes("user_data", r.bytes)>>)

LEMMA ManifestInParts ==
  ASSUME NEW r
  PROVE  ManifestFields(r) =
           (((ManifestHead(r) \o ManifestSigners(r)) \o ManifestPrologue(r))
             \o ManifestLinked(r)) \o ManifestUser(r)
BY DEF ManifestFields, ManifestHead, ManifestSigners, ManifestPrologue,
       ManifestLinked, ManifestUser

LEMMA UintSizes ==
  ASSUME NEW n
  PROVE  UintSize(n) \in {1, 3, 5, 9}
BY DEF UintSize

LEMMA FieldType ==
  ASSUME NEW name \in FieldNames, NEW k \in Nat
  PROVE  /\ Field(name, k) \in FieldSet
         /\ Field(name, k).name = name /\ Field(name, k).size = k
BY DEF Field, FieldSet

LEMMA UintType ==
  ASSUME NEW r, IsRecord(r), NEW name \in FieldNames
  PROVE  /\ Uint(r, name) \in FieldSet /\ r.width \in Nat
         /\ Uint(r, name).name = name /\ Uint(r, name).size = r.width
<1>1. r.width \in Nat
  BY DEF IsRecord
<1>2. QED
  BY <1>1, FieldType DEF Uint

LEMMA Fixed32Type ==
  ASSUME NEW name \in FieldNames
  PROVE  /\ Fixed32(name) \in FieldSet
         /\ Fixed32(name).name = name /\ Fixed32(name).size = 32
BY FieldType DEF Fixed32

LEMMA CountType ==
  ASSUME NEW name \in FieldNames, NEW n \in Nat
  PROVE  /\ Count(name, n) \in FieldSet /\ Count(name, n).name = name
         /\ Count(name, n).size = UintSize(n) /\ Count(name, n).value = n
<1>1. UintSize(n) \in Nat
  BY UintSizes
<1>2. QED
  BY <1>1 DEF Count, FieldSet

LEMMA BytesType ==
  ASSUME NEW name \in FieldNames, NEW n \in Nat
  PROVE  /\ Bytes(name, n) \in FieldSet /\ Bytes(name, n).name = name
         /\ Bytes(name, n).size = BytesSize(n) /\ Bytes(name, n).value = n
<1>1. UintSize(n) \in Nat
  BY UintSizes
<1>2. BytesSize(n) \in Nat
  BY <1>1 DEF BytesSize
<1>3. QED
  BY <1>2 DEF Bytes, FieldSet

LEMMA FlagsType ==
  ASSUME NEW r, IsRecord(r)
  PROVE  /\ Flags(r.has) \in FieldSet /\ Flags(r.has).name = "flags"
         /\ Flags(r.has).size = 1 /\ Flags(r.has).value = r.has
<1>1. r.has \in SUBSET OptionNames
  BY DEF IsRecord, OptionNames
<1>2. "flags" \in FieldNames
  BY DEF FieldNames
<1>3. QED
  BY <1>1, <1>2 DEF Flags, FieldSet

LEMMA SignersAre ==
  ASSUME NEW r, IsRecord(r)
  PROVE  /\ SignerFields(r) \in Seq(FieldSet) /\ Len(SignerFields(r)) = 3
         /\ SizeOf(SignerFields(r)) = SignerSize(r)
<1> DEFINE a == Uint(r, "signature")
           b == Fixed32("namespace")
           c == Fixed32("public_key")
<1>1. "signature" \in FieldNames /\ "namespace" \in FieldNames
      /\ "public_key" \in FieldNames
  BY DEF FieldNames
<1>2. /\ a \in FieldSet /\ a.size = r.width /\ b \in FieldSet /\ b.size = 32
      /\ c \in FieldSet /\ c.size = 32
  BY <1>1, UintType, Fixed32Type
<1>3. SignerFields(r) = <<a, b, c>>
  BY DEF SignerFields
<1> HIDE DEF a, b, c
<1>4. <<a, b, c>> \in Seq(FieldSet) /\ SizeOf(<<a, b, c>>) = a.size + b.size + c.size
  BY <1>2, SizeThree
<1>5. Len(<<a, b, c>>) = 3
  OBVIOUS
<1>6. QED
  BY <1>2, <1>3, <1>4, <1>5 DEF SignerSize

(* The fields that tell a decoder what comes next.                         *)
Telling == {"flags", "signers", "linked", "user_data"}

(* No field outside T tells.                                               *)
Quiet(F, T) == \A i \in 1..Len(F) : i \notin T => F[i].name \notin Telling

LEMMA QuietConcat ==
  ASSUME NEW F \in Seq(FieldSet), NEW G \in Seq(FieldSet), NEW n \in Nat,
         Len(F) = n, NEW T, NEW U, NEW V, Quiet(F, T), Quiet(G, U),
         T \subseteq V, \A u \in U : n + u \in V
  PROVE  Quiet(F \o G, V)
<1> DEFINE H == F \o G
           m == Len(G)
<1>1. m \in Nat
  OBVIOUS
<1>2. InOrder(H, F, G, n, m)
  BY ConcatInOrder
<1> HIDE DEF H
<1>3. ASSUME NEW i \in 1..Len(H), i \notin V
      PROVE  H[i].name \notin Telling
  <2>1. i \in 1..n + m
    BY <1>2 DEF InOrder
  <2>2. CASE i <= n
    <3>1. i \in 1..n
      BY <2>1, <2>2
    <3>2. H[i] = F[i]
      BY <1>2, <3>1 DEF InOrder
    <3>3. F[i].name \notin Telling
      BY <1>3, <3>1 DEF Quiet
    <3>4. QED
      BY <3>2, <3>3
  <2>3. CASE i > n
    <3>1. PICK j \in 1..m : i = n + j
      <4>1. i - n \in 1..m /\ i = n + (i - n)
        BY <1>1, <2>1, <2>3
      <4>2. QED
        BY <4>1
    <3>2. H[i] = G[j]
      BY <1>2, <3>1 DEF InOrder
    <3>3. j \notin U
      BY <1>3, <3>1
    <3>4. G[j].name \notin Telling
      BY <3>3 DEF Quiet
    <3>5. QED
      BY <3>2, <3>4
  <2>4. QED
    BY <2>1, <2>2, <2>3
<1>4. Quiet(H, V)
  BY <1>3 DEF Quiet
<1>5. QED
  BY <1>4 DEF H

LEMMA TimesQuiet ==
  ASSUME NEW F \in Seq(FieldSet), Len(F) > 0, NEW n \in Nat, Quiet(F, {})
  PROVE  Quiet(Times(n, F), {})
<1> DEFINE H == Times(n, F)
<1>1. /\ Len(H) = n * Len(F)
      /\ \A i \in 1..n * Len(F) :
           /\ ((i - 1) % Len(F)) + 1 \in 1..Len(F)
           /\ H[i] = F[((i - 1) % Len(F)) + 1]
  BY TimesPlaces
<1>2. \A j \in 1..Len(F) : F[j].name \notin Telling
  BY DEF Quiet
<1> HIDE DEF H
<1>3. \A i \in 1..Len(H) : H[i].name \notin Telling
  BY <1>1, <1>2
<1>4. QED
  BY <1>3 DEF Quiet, H

-----------------------------------------------------------------------------
(* Where the fields of a manifest are that tell what comes next.           *)
LinkedPlace(r) == 6 + 3 * r.signers + (IF "prologue" \in r.has THEN 2 ELSE 0)

ManifestLength(r) ==
  LinkedPlace(r) - 1 + (IF "linked" \in r.has THEN 1 + r.linked ELSE 0)
    + (IF "user_data" \in r.has THEN 1 ELSE 0)

LEMMA HeadPart ==
  ASSUME NEW r, IsRecord(r)
  PROVE  /\ ManifestHead(r) \in Seq(FieldSet) /\ Len(ManifestHead(r)) = 5
         /\ ManifestHead(r)[2] = Flags(r.has)
         /\ ManifestHead(r)[5] = Count("signers", r.signers)
         /\ Quiet(ManifestHead(r), {2, 5})
         /\ SizeOf(ManifestHead(r)) = 3 * r.width + 1 + UintSize(r.signers)
<1> DEFINE a == Uint(r, "version")
           b == Flags(r.has)
           c == Uint(r, "hash")
           d == Uint(r, "quorum")
           e == Count("signers", r.signers)
           H == ManifestHead(r)
<1>1. "version" \in FieldNames /\ "hash" \in FieldNames /\ "quorum" \in FieldNames
      /\ "signers" \in FieldNames /\ r.signers \in Nat
  BY DEF FieldNames, IsRecord
<1>2. /\ a \in FieldSet /\ a.size = r.width /\ b \in FieldSet /\ b.size = 1
      /\ c \in FieldSet /\ c.size = r.width /\ d \in FieldSet /\ d.size = r.width
      /\ e \in FieldSet /\ e.size = UintSize(r.signers)
      /\ r.width \in Nat /\ e.size \in Nat
  BY <1>1, UintType, FlagsType, CountType, UintSizes
<1>3. a.name = "version" /\ c.name = "hash" /\ d.name = "quorum"
  BY <1>1, UintType
<1>4. H = <<a, b, c, d, e>>
  BY DEF ManifestHead
<1> HIDE DEF a, b, c, d, e, H
<1>13. /\ <<a, b, c, d, e>> \in Seq(FieldSet)
       /\ SizeOf(<<a, b, c, d, e>>) = a.size + b.size + c.size + d.size + e.size
  BY <1>2, SizeFive
<1>14. H \in Seq(FieldSet) /\ Len(H) = 5 /\ H[2] = b /\ H[5] = e
       /\ H[1] = a /\ H[3] = c /\ H[4] = d
  BY <1>4, <1>13
<1>15. SizeOf(H) = 3 * r.width + 1 + UintSize(r.signers)
  <2>1. SizeOf(H) = r.width + 1 + r.width + r.width + UintSize(r.signers)
    BY <1>2, <1>4, <1>13
  <2>2. UintSize(r.signers) \in Nat
    BY <1>2
  <2>3. QED
    BY <1>2, <2>1, <2>2
<1>16. Quiet(H, {2, 5})
  <2>1. \A i \in 1..5 : i \in {2, 5} \/ i = 1 \/ i = 3 \/ i = 4
    OBVIOUS
  <2>2. H[1].name \notin Telling /\ H[3].name \notin Telling /\ H[4].name \notin Telling
    BY <1>3, <1>14 DEF Telling
  <2>3. QED
    BY <1>14, <2>1, <2>2 DEF Quiet
<1>17. QED
  BY <1>14, <1>15, <1>16 DEF H, b, e

LEMMA SignersPart ==
  ASSUME NEW r, IsRecord(r)
  PROVE  /\ ManifestSigners(r) \in Seq(FieldSet)
         /\ Len(ManifestSigners(r)) = 3 * r.signers
         /\ Quiet(ManifestSigners(r), {})
         /\ SizeOf(ManifestSigners(r)) = r.signers * SignerSize(r)
<1> DEFINE F == SignerFields(r)
<1>1. F \in Seq(FieldSet) /\ Len(F) = 3 /\ Len(F) > 0 /\ SizeOf(F) = SignerSize(r)
  <2>1. F \in Seq(FieldSet) /\ Len(F) = 3 /\ SizeOf(F) = SignerSize(r)
    BY SignersAre
  <2> HIDE DEF F
  <2>2. QED
    BY <2>1
<1>2. r.signers \in Nat
  BY DEF IsRecord
<1>3. Quiet(F, {})
  <2>1. F[1].name = "signature" /\ F[2].name = "namespace" /\ F[3].name = "public_key"
    BY DEF SignerFields, Uint, Fixed32, Field
  <2>2. \A i \in 1..3 : i = 1 \/ i = 2 \/ i = 3
    OBVIOUS
  <2>3. \A i \in 1..3 : F[i].name \notin Telling
    BY <2>1, <2>2 DEF Telling
  <2>4. QED
    BY <1>1, <2>3 DEF Quiet
<1>4. ManifestSigners(r) = Times(r.signers, F)
  BY DEF ManifestSigners
<1> HIDE DEF F
<1>5. /\ Times(r.signers, F) \in Seq(FieldSet)
      /\ Len(Times(r.signers, F)) = r.signers * Len(F)
  BY <1>1, <1>2, TimesPlaces
<1>6. Quiet(Times(r.signers, F), {})
  BY <1>1, <1>2, <1>3, TimesQuiet
<1>7. SizeOf(Times(r.signers, F)) = r.signers * SizeOf(F)
  BY <1>1, <1>2, SizeTimes
<1>8. r.signers * Len(F) = 3 * r.signers
  BY <1>1, <1>2
<1>9. QED
  BY <1>1, <1>4, <1>5, <1>6, <1>7, <1>8

LEMMA EmptyPart ==
  /\ <<>> \in Seq(FieldSet) /\ Len(<<>>) = 0 /\ SizeOf(<<>>) = 0 /\ Quiet(<<>>, {})
<1>1. <<>> \in Seq(FieldSet) /\ Len(<<>>) = 0
  OBVIOUS
<1>2. QED
  BY <1>1, SizeEmpty DEF Quiet

LEMMA ProloguePart ==
  ASSUME NEW r, IsRecord(r)
  PROVE  /\ ManifestPrologue(r) \in Seq(FieldSet)
         /\ Len(ManifestPrologue(r)) = IF "prologue" \in r.has THEN 2 ELSE 0
         /\ Quiet(ManifestPrologue(r), {})
         /\ SizeOf(ManifestPrologue(r)) = If("prologue" \in r.has, PrologueSize(r))
<1>1. CASE "prologue" \notin r.has
  <2>1. ManifestPrologue(r) = <<>>
    BY <1>1 DEF ManifestPrologue, Optional
  <2>2. If("prologue" \in r.has, PrologueSize(r)) = 0
    BY <1>1 DEF If
  <2>3. QED
    BY <1>1, <2>1, <2>2, EmptyPart
<1>2. CASE "prologue" \in r.has
  <2> DEFINE a == Fixed32("hash")
             b == Uint(r, "length")
             H == ManifestPrologue(r)
  <2>1. "hash" \in FieldNames /\ "length" \in FieldNames
    BY DEF FieldNames
  <2>2. /\ a \in FieldSet /\ a.size = 32 /\ b \in FieldSet /\ b.size = r.width
        /\ r.width \in Nat
    BY <2>1, UintType, Fixed32Type
  <2>3. a.name = "hash" /\ b.name = "length"
    BY <2>1, UintType, Fixed32Type
  <2>4. H = <<a, b>>
    BY <1>2 DEF ManifestPrologue, Optional, PrologueFields
  <2>5. If("prologue" \in r.has, PrologueSize(r)) = 32 + r.width
    BY <1>2 DEF If, PrologueSize
  <2> HIDE DEF a, b, H
  <2>7. <<a, b>> \in Seq(FieldSet) /\ SizeOf(<<a, b>>) = a.size + b.size
    BY <2>2, SizeTwo
  <2>9. H \in Seq(FieldSet) /\ Len(H) = 2 /\ H[1] = a /\ H[2] = b
    BY <2>4, <2>7
  <2>10. SizeOf(H) = 32 + r.width
    BY <2>2, <2>4, <2>7
  <2>11. Quiet(H, {})
    <3>1. \A i \in 1..2 : i = 1 \/ i = 2
      OBVIOUS
    <3>2. QED
      BY <2>3, <2>9, <3>1 DEF Quiet, Telling
  <2>12. QED
    BY <1>2, <2>5, <2>9, <2>10, <2>11 DEF H
<1>3. QED
  BY <1>1, <1>2

LEMMA LinkedPart ==
  ASSUME NEW r, IsRecord(r)
  PROVE  /\ ManifestLinked(r) \in Seq(FieldSet)
         /\ Len(ManifestLinked(r)) = IF "linked" \in r.has THEN 1 + r.linked ELSE 0
         /\ "linked" \in r.has => ManifestLinked(r)[1] = Count("linked", r.linked)
         /\ Quiet(ManifestLinked(r), IF "linked" \in r.has THEN {1} ELSE {})
         /\ SizeOf(ManifestLinked(r)) =
              If("linked" \in r.has, UintSize(r.linked) + r.linked * 32)
<1>1. CASE "linked" \notin r.has
  <2>1. ManifestLinked(r) = <<>>
    BY <1>1 DEF ManifestLinked, Optional
  <2>2. If("linked" \in r.has, UintSize(r.linked) + r.linked * 32) = 0
    BY <1>1 DEF If
  <2>3. QED
    BY <1>1, <2>1, <2>2, EmptyPart
<1>2. CASE "linked" \in r.has
  <2> DEFINE a == Count("linked", r.linked)
             b == Fixed32("link")
             n == r.linked
             L == Times(n, <<b>>)
             H == ManifestLinked(r)
  <2>1. n \in Nat
    BY DEF IsRecord
  <2>2. /\ a \in FieldSet /\ a.size = UintSize(n) /\ UintSize(n) \in Nat
        /\ b \in FieldSet /\ b.size = 32 /\ b.name = "link"
    <3>1. "linked" \in FieldNames /\ "link" \in FieldNames
      BY DEF FieldNames
    <3>2. QED
      BY <2>1, <3>1, CountType, Fixed32Type, UintSizes
  <2>3. a.size = UintSize(n) /\ b.size = 32 /\ b.name = "link" /\ UintSize(n) \in Nat
    BY <2>2
  <2>4. H = <<a>> \o L
    BY <1>2 DEF ManifestLinked, Optional
  <2>5. If("linked" \in r.has, UintSize(r.linked) + r.linked * 32) = UintSize(n) + n * 32
    BY <1>2 DEF If
  <2> HIDE DEF a, b, H
  <2>6. <<a>> \in Seq(FieldSet) /\ SizeOf(<<a>>) = a.size
        /\ <<b>> \in Seq(FieldSet) /\ SizeOf(<<b>>) = b.size
    BY <2>2, SizeOne
  <2>7. Len(<<a>>) = 1 /\ Len(<<b>>) = 1 /\ <<b>>[1] = b /\ <<a>>[1] = a
    OBVIOUS
  <2>8. Quiet(<<b>>, {})
    BY <2>3, <2>7 DEF Quiet, Telling
  <2>9. Quiet(<<a>>, {1})
    BY <2>7 DEF Quiet
  <2> HIDE DEF n
  <2> DEFINE A == <<a>>
             B == <<b>>
  <2>10. L = Times(n, B) /\ H = A \o L
    BY <2>4
  <2> HIDE DEF A, B, L
  <2>11. L \in Seq(FieldSet) /\ Len(L) = n * 1 /\ Quiet(L, {}) /\ SizeOf(L) = n * 32
    <3>1. /\ B \in Seq(FieldSet) /\ Len(B) = 1 /\ Len(B) > 0 /\ SizeOf(B) = 32
          /\ Quiet(B, {})
      BY <2>3, <2>6, <2>7, <2>8 DEF B
    <3>2. Times(n, B) \in Seq(FieldSet) /\ Len(Times(n, B)) = n * Len(B)
      BY <2>1, <3>1, TimesPlaces
    <3>3. Quiet(Times(n, B), {})
      BY <2>1, <3>1, TimesQuiet
    <3>4. SizeOf(Times(n, B)) = n * SizeOf(B)
      BY <2>1, <3>1, SizeTimes
    <3>5. QED
      BY <2>10, <3>1, <3>2, <3>3, <3>4
  <2>12. A \in Seq(FieldSet) /\ Len(A) = 1 /\ A[1] = a /\ SizeOf(A) = UintSize(n)
         /\ Quiet(A, {1})
    BY <2>3, <2>6, <2>7, <2>9 DEF A
  <2>13. H \in Seq(FieldSet) /\ SizeOf(H) = SizeOf(A) + SizeOf(L)
    BY <2>10, <2>11, <2>12, SizesConcat
  <2>14. InOrder(H, A, L, Len(A), Len(L))
    BY <2>10, <2>11, <2>12, ConcatInOrder
  <2>15. Len(H) = 1 + n /\ H[1] = a
    BY <2>1, <2>11, <2>12, <2>14 DEF InOrder
  <2>16. Quiet(H, {1})
    BY <2>10, <2>11, <2>12, QuietConcat
  <2>17. SizeOf(H) = UintSize(n) + n * 32
    BY <2>11, <2>12, <2>13
  <2>18. QED
    BY <1>2, <2>5, <2>13, <2>15, <2>16, <2>17 DEF H, a, n
<1>3. QED
  BY <1>1, <1>2

LEMMA UserPart ==
  ASSUME NEW r, IsRecord(r)
  PROVE  /\ ManifestUser(r) \in Seq(FieldSet)
         /\ Len(ManifestUser(r)) = IF "user_data" \in r.has THEN 1 ELSE 0
         /\ "user_data" \in r.has => ManifestUser(r)[1] = Bytes("user_data", r.bytes)
         /\ Quiet(ManifestUser(r), IF "user_data" \in r.has THEN {1} ELSE {})
         /\ SizeOf(ManifestUser(r)) = If("user_data" \in r.has, BytesSize(r.bytes))
<1>1. CASE "user_data" \notin r.has
  <2>1. ManifestUser(r) = <<>>
    BY <1>1 DEF ManifestUser, Optional
  <2>2. If("user_data" \in r.has, BytesSize(r.bytes)) = 0
    BY <1>1 DEF If
  <2>3. QED
    BY <1>1, <2>1, <2>2, EmptyPart
<1>2. CASE "user_data" \in r.has
  <2> DEFINE a == Bytes("user_data", r.bytes)
             H == ManifestUser(r)
  <2>1. a \in FieldSet
    <3>1. r.bytes \in Nat /\ "user_data" \in FieldNames
      BY DEF IsRecord, FieldNames
    <3>2. QED
      BY <3>1, BytesType
  <2>2. a.size = BytesSize(r.bytes)
    BY DEF Bytes
  <2>3. H = <<a>>
    BY <1>2 DEF ManifestUser, Optional
  <2>4. If("user_data" \in r.has, BytesSize(r.bytes)) = BytesSize(r.bytes)
    BY <1>2 DEF If
  <2> HIDE DEF a, H
  <2>5. H \in Seq(FieldSet) /\ SizeOf(H) = a.size
    BY <2>1, <2>3, SizeOne
  <2>6. Len(H) = 1 /\ H[1] = a
    BY <2>3
  <2>7. Quiet(H, {1})
    BY <2>6 DEF Quiet
  <2>8. QED
    BY <1>2, <2>2, <2>4, <2>5, <2>6, <2>7 DEF H, a
<1>3. QED
  BY <1>1, <1>2

LEMMA PlacesAre ==
  ASSUME NEW r, IsRecord(r)
  PROVE  /\ LinkedPlace(r) \in Nat /\ LinkedPlace(r) >= 6
         /\ ManifestLength(r) \in Nat /\ ManifestLength(r) >= 5
         /\ "linked" \in r.has => LinkedPlace(r) <= ManifestLength(r)
<1>1. r.signers \in Nat /\ r.linked \in Nat
  BY DEF IsRecord
<1>2. LinkedPlace(r) \in Nat /\ LinkedPlace(r) >= 6
  BY <1>1 DEF LinkedPlace
<1> DEFINE p == LinkedPlace(r)
<1> HIDE DEF p
<1>3. /\ p - 1 + (IF "linked" \in r.has THEN 1 + r.linked ELSE 0)
           + (IF "user_data" \in r.has THEN 1 ELSE 0) \in Nat
      /\ p - 1 + (IF "linked" \in r.has THEN 1 + r.linked ELSE 0)
           + (IF "user_data" \in r.has THEN 1 ELSE 0) >= 5
      /\ "linked" \in r.has =>
           p <= p - 1 + (IF "linked" \in r.has THEN 1 + r.linked ELSE 0)
                 + (IF "user_data" \in r.has THEN 1 ELSE 0)
  BY <1>1, <1>2 DEF p
<1>4. QED
  BY <1>2, <1>3 DEF ManifestLength, p

(* The places that tell, in a manifest.                                    *)
TellingPlaces(r) ==
  {2, 5} \cup (IF "linked" \in r.has THEN {LinkedPlace(r)} ELSE {})
    \cup (IF "user_data" \in r.has THEN {ManifestLength(r)} ELSE {})

ManifestRight(r, F) ==
  /\ F \in Seq(FieldSet) /\ Len(F) = ManifestLength(r)
  /\ F[2] = Flags(r.has) /\ F[5] = Count("signers", r.signers)
  /\ "linked" \in r.has => F[LinkedPlace(r)] = Count("linked", r.linked)
  /\ "user_data" \in r.has => F[ManifestLength(r)] = Bytes("user_data", r.bytes)
  /\ Quiet(F, TellingPlaces(r))

LEMMA ManifestAre ==
  ASSUME NEW r, IsRecord(r)
  PROVE  ManifestRight(r, ManifestFields(r)) /\ SizeOf(ManifestFields(r)) = ManifestSize(r)
<1> DEFINE A == ManifestHead(r)
           B == ManifestSigners(r)
           C == ManifestPrologue(r)
           D == ManifestLinked(r)
           E == ManifestUser(r)
           b == 5 + 3 * r.signers
           c == LinkedPlace(r) - 1
           d == c + (IF "linked" \in r.has THEN 1 + r.linked ELSE 0)
           e == d + (IF "user_data" \in r.has THEN 1 ELSE 0)
           lc == IF "prologue" \in r.has THEN 2 ELSE 0
           ld == IF "linked" \in r.has THEN 1 + r.linked ELSE 0
           le == IF "user_data" \in r.has THEN 1 ELSE 0
           AB == A \o B
           ABC == AB \o C
           ABCD == ABC \o D
           F == ABCD \o E
           V == {2, 5} \cup (IF "linked" \in r.has THEN {LinkedPlace(r)} ELSE {})
<1>1. r.signers \in Nat /\ r.linked \in Nat /\ LinkedPlace(r) \in Nat
  BY PlacesAre DEF IsRecord
<1>2. /\ b \in Nat /\ b >= 5 /\ c \in Nat /\ c = b + lc /\ lc \in Nat
      /\ d \in Nat /\ d = c + ld /\ ld \in Nat /\ e \in Nat /\ e = d + le /\ le \in Nat
  BY <1>1 DEF LinkedPlace
<1>3. ManifestFields(r) = F
  BY ManifestInParts
<1>4. /\ A \in Seq(FieldSet) /\ Len(A) = 5 /\ Quiet(A, {2, 5})
      /\ A[2] = Flags(r.has) /\ A[5] = Count("signers", r.signers)
      /\ SizeOf(A) = 3 * r.width + 1 + UintSize(r.signers)
  BY HeadPart
<1>5. /\ B \in Seq(FieldSet) /\ Len(B) = 3 * r.signers /\ Quiet(B, {})
      /\ SizeOf(B) = r.signers * SignerSize(r)
  BY SignersPart
<1>6. /\ C \in Seq(FieldSet) /\ Len(C) = lc /\ Quiet(C, {})
      /\ SizeOf(C) = If("prologue" \in r.has, PrologueSize(r))
  BY ProloguePart
<1>7. /\ D \in Seq(FieldSet) /\ Len(D) = ld
      /\ "linked" \in r.has => D[1] = Count("linked", r.linked)
      /\ Quiet(D, IF "linked" \in r.has THEN {1} ELSE {})
      /\ SizeOf(D) = If("linked" \in r.has, UintSize(r.linked) + r.linked * 32)
  BY LinkedPart
<1>8. /\ E \in Seq(FieldSet) /\ Len(E) = le
      /\ "user_data" \in r.has => E[1] = Bytes("user_data", r.bytes)
      /\ Quiet(E, IF "user_data" \in r.has THEN {1} ELSE {})
      /\ SizeOf(E) = If("user_data" \in r.has, BytesSize(r.bytes))
  BY UserPart
<1>9. /\ "linked" \in r.has => ld >= 1 /\ c + 1 = LinkedPlace(r)
      /\ "user_data" \in r.has => le = 1 /\ e = d + 1
      /\ e = ManifestLength(r)
  BY <1>1 DEF ManifestLength
<1> HIDE DEF A, B, C, D, E, b, c, d, e, lc, ld, le
<1>10. /\ AB \in Seq(FieldSet) /\ InOrder(AB, A, B, 5, 3 * r.signers)
       /\ Quiet(AB, {2, 5}) /\ SizeOf(AB) = SizeOf(A) + SizeOf(B)
  <2>1. AB \in Seq(FieldSet) /\ InOrder(AB, A, B, 5, 3 * r.signers)
    BY <1>4, <1>5, ConcatInOrder
  <2>2. Quiet(AB, {2, 5})
    BY <1>4, <1>5, QuietConcat
  <2>3. SizeOf(AB) = SizeOf(A) + SizeOf(B)
    BY <1>4, <1>5, SizesConcat
  <2>4. QED
    BY <2>1, <2>2, <2>3
<1> HIDE DEF AB
<1>11. Len(AB) = b /\ AB[2] = A[2] /\ AB[5] = A[5]
  BY <1>10 DEF InOrder, b
<1>12. /\ ABC \in Seq(FieldSet) /\ InOrder(ABC, AB, C, b, lc)
       /\ Quiet(ABC, {2, 5}) /\ SizeOf(ABC) = SizeOf(AB) + SizeOf(C)
  <2>1. ABC \in Seq(FieldSet) /\ InOrder(ABC, AB, C, b, lc)
    BY <1>6, <1>10, <1>11, ConcatInOrder
  <2>2. Quiet(ABC, {2, 5})
    BY <1>2, <1>6, <1>10, <1>11, QuietConcat
  <2>3. SizeOf(ABC) = SizeOf(AB) + SizeOf(C)
    BY <1>6, <1>10, SizesConcat
  <2>4. QED
    BY <2>1, <2>2, <2>3
<1> HIDE DEF ABC
<1>13. Len(ABC) = c /\ ABC[2] = AB[2] /\ ABC[5] = AB[5]
  BY <1>2, <1>12 DEF InOrder
<1>14. /\ ABCD \in Seq(FieldSet) /\ InOrder(ABCD, ABC, D, c, ld)
       /\ Quiet(ABCD, V) /\ SizeOf(ABCD) = SizeOf(ABC) + SizeOf(D)
  <2>1. ABCD \in Seq(FieldSet) /\ InOrder(ABCD, ABC, D, c, ld)
    BY <1>7, <1>12, <1>13, ConcatInOrder
  <2> DEFINE U == IF "linked" \in r.has THEN {1} ELSE {}
  <2>2. {2, 5} \subseteq V /\ \A u \in U : c + u \in V
    BY <1>9
  <2> HIDE DEF U, V
  <2>3. Quiet(ABCD, V)
    BY <1>2, <1>7, <1>12, <1>13, <2>2, QuietConcat DEF U
  <2>4. SizeOf(ABCD) = SizeOf(ABC) + SizeOf(D)
    BY <1>7, <1>12, SizesConcat
  <2>5. QED
    BY <2>1, <2>3, <2>4
<1> HIDE DEF ABCD
<1>15. /\ Len(ABCD) = d /\ ABCD[2] = ABC[2] /\ ABCD[5] = ABC[5]
       /\ "linked" \in r.has => ABCD[LinkedPlace(r)] = D[1]
  <2>1. Len(ABCD) = d /\ ABCD[2] = ABC[2] /\ ABCD[5] = ABC[5]
    BY <1>2, <1>14 DEF InOrder
  <2>2. ASSUME "linked" \in r.has
        PROVE  ABCD[LinkedPlace(r)] = D[1]
    <3>1. 1 \in 1..ld
      BY <1>2, <1>9, <2>2
    <3>2. ABCD[c + 1] = D[1]
      BY <1>14, <3>1 DEF InOrder
    <3>3. QED
      BY <1>9, <2>2, <3>2
  <2>3. QED
    BY <2>1, <2>2
<1>16. /\ F \in Seq(FieldSet) /\ InOrder(F, ABCD, E, d, le)
       /\ Quiet(F, TellingPlaces(r)) /\ SizeOf(F) = SizeOf(ABCD) + SizeOf(E)
  <2>1. F \in Seq(FieldSet) /\ InOrder(F, ABCD, E, d, le)
    BY <1>8, <1>14, <1>15, ConcatInOrder
  <2> DEFINE U == IF "user_data" \in r.has THEN {1} ELSE {}
             W == TellingPlaces(r)
  <2>2. V \subseteq W /\ \A u \in U : d + u \in W
    BY <1>9 DEF TellingPlaces
  <2> HIDE DEF U, V, W
  <2>3. Quiet(F, W)
    BY <1>2, <1>8, <1>14, <1>15, <2>2, QuietConcat DEF U
  <2>4. SizeOf(F) = SizeOf(ABCD) + SizeOf(E)
    BY <1>8, <1>14, SizesConcat
  <2>5. QED
    BY <2>1, <2>3, <2>4 DEF W
<1> HIDE DEF F
<1>17. /\ Len(F) = e /\ F[2] = ABCD[2] /\ F[5] = ABCD[5]
  BY <1>2, <1>16 DEF InOrder
<1>18. "linked" \in r.has => F[LinkedPlace(r)] = ABCD[LinkedPlace(r)]
  <2>1. ASSUME "linked" \in r.has
        PROVE  LinkedPlace(r) \in 1..d
    BY <1>1, <1>2, <1>9, <2>1
  <2>2. QED
    BY <1>16, <2>1 DEF InOrder
<1>19. "user_data" \in r.has => F[ManifestLength(r)] = E[1]
  <2>1. ASSUME "user_data" \in r.has
        PROVE  F[d + 1] = E[1]
    <3>1. 1 \in 1..le
      BY <1>9, <2>1
    <3>2. QED
      BY <1>16, <3>1 DEF InOrder
  <2>2. QED
    BY <1>9, <2>1
<1>20. ManifestRight(r, F)
  BY <1>4, <1>7, <1>8, <1>9, <1>11, <1>13, <1>15, <1>16, <1>17, <1>18, <1>19
     DEF ManifestRight
<1>21. SizeOf(F) = ManifestSize(r)
  <2>1. SizeOf(F) = SizeOf(A) + SizeOf(B) + SizeOf(C) + SizeOf(D) + SizeOf(E)
    BY <1>10, <1>12, <1>14, <1>16
  <2>2. QED
    BY <1>4, <1>5, <1>6, <1>7, <1>8, <2>1 DEF ManifestSize
<1>22. QED
  BY <1>3, <1>20, <1>21

-----------------------------------------------------------------------------
(* The stored records.                                                     *)
StoredLength(r) ==
  CASE r.kind = "tree_node"  -> 3
    [] r.kind = "head"       -> 5 + (IF "timestamp" \in r.has THEN 1 ELSE 0)
    [] r.kind = "store_head" -> 4 + (IF "seed" \in r.has THEN 1 ELSE 0)
                                  + (IF "default_discovery_key" \in r.has THEN 1 ELSE 0)
    [] r.kind = "store_core" -> 2
    [] r.kind = "manifest"   -> ManifestLength(r)

(* Where the fields are that tell what comes next, and the signature.      *)
StoredTells(r, F) ==
  \A i \in 1..Len(F) :
    /\ F[i].name \notin {"signers", "linked", "user_data"}
    /\ F[i].name = "flags" => \/ r.kind = "head" /\ i = 5
                              \/ r.kind = "store_head" /\ i = 4
    /\ F[i].name = "signature" => r.kind = "head" /\ i = 4

StoredRight(r, F) ==
  /\ F \in Seq(FieldSet) /\ Len(F) = StoredLength(r)
  /\ r.kind = "head" => F[4] = Bytes("signature", r.bytes) /\ F[5] = Flags(r.has)
  /\ r.kind = "store_head" => F[4] = Flags(r.has)
  /\ StoredTells(r, F)
  /\ r.bytes <= MaxSignature => SizeOf(F) <= BufferSize[r.kind]

LEMMA TreeNodeAre ==
  ASSUME NEW r, IsRecord(r), r.kind = "tree_node"
  PROVE  StoredRight(r, TreeNodeFields(r))
<1> DEFINE a == Uint(r, "index")
           b == Uint(r, "size")
           c == Fixed32("hash")
           F == TreeNodeFields(r)
<1>1. "index" \in FieldNames /\ "size" \in FieldNames /\ "hash" \in FieldNames
  BY DEF FieldNames
<1>2. /\ a \in FieldSet /\ a.size = r.width /\ a.name = "index"
      /\ b \in FieldSet /\ b.size = r.width /\ b.name = "size"
      /\ c \in FieldSet /\ c.size = 32 /\ c.name = "hash"
  BY <1>1, UintType, Fixed32Type
<1>3. F = <<a, b, c>>
  BY DEF TreeNodeFields
<1>4. r.width \in Nat /\ r.width <= 9
  BY DEF IsRecord
<1> HIDE DEF a, b, c, F
<1>5. <<a, b, c>> \in Seq(FieldSet) /\ SizeOf(<<a, b, c>>) = a.size + b.size + c.size
  BY <1>2, SizeThree
<1>6. /\ F \in Seq(FieldSet) /\ Len(F) = 3 /\ F[1] = a /\ F[2] = b /\ F[3] = c
  BY <1>3, <1>5
<1>7. SizeOf(F) <= 50
  BY <1>2, <1>3, <1>4, <1>5
<1>8. StoredTells(r, F)
  <2>1. \A i \in 1..3 : i = 1 \/ i = 2 \/ i = 3
    OBVIOUS
  <2>2. \A i \in 1..Len(F) : F[i].name \in {"index", "size", "hash"}
    BY <1>2, <1>6, <2>1
  <2>3. QED
    BY <2>2 DEF StoredTells
<1>9. Len(F) = StoredLength(r)
  BY <1>6 DEF StoredLength
<1>10. BufferSize[r.kind] = 50
  BY DEF BufferSize
<1>11. QED
  BY <1>6, <1>7, <1>8, <1>9, <1>10 DEF StoredRight, F

LEMMA StoreCoreAre ==
  ASSUME NEW r, IsRecord(r), r.kind = "store_core"
  PROVE  StoredRight(r, StoreCoreFields(r))
<1> DEFINE a == Uint(r, "core_ptr")
           b == Uint(r, "data_ptr")
           F == StoreCoreFields(r)
<1>1. "core_ptr" \in FieldNames /\ "data_ptr" \in FieldNames
  BY DEF FieldNames
<1>2. /\ a \in FieldSet /\ a.size = r.width /\ a.name = "core_ptr"
      /\ b \in FieldSet /\ b.size = r.width /\ b.name = "data_ptr"
  BY <1>1, UintType
<1>3. F = <<a, b>>
  BY DEF StoreCoreFields
<1>4. r.width \in Nat /\ r.width <= 9
  BY DEF IsRecord
<1> HIDE DEF a, b, F
<1>5. <<a, b>> \in Seq(FieldSet) /\ SizeOf(<<a, b>>) = a.size + b.size
  BY <1>2, SizeTwo
<1>6. F \in Seq(FieldSet) /\ Len(F) = 2 /\ F[1] = a /\ F[2] = b
  BY <1>3, <1>5
<1>7. SizeOf(F) <= 32
  BY <1>2, <1>3, <1>4, <1>5
<1>8. StoredTells(r, F)
  <2>1. \A i \in 1..2 : i = 1 \/ i = 2
    OBVIOUS
  <2>2. \A i \in 1..Len(F) : F[i].name \in {"core_ptr", "data_ptr"}
    BY <1>2, <1>6, <2>1
  <2>3. QED
    BY <2>2 DEF StoredTells
<1>9. Len(F) = StoredLength(r)
  BY <1>6 DEF StoredLength
<1>10. BufferSize[r.kind] = 32
  BY DEF BufferSize
<1>11. QED
  BY <1>6, <1>7, <1>8, <1>9, <1>10 DEF StoredRight, F

(* A field that is there or not.                                           *)
LEMMA OptionalAre ==
  ASSUME NEW x \in FieldSet, NEW b \in BOOLEAN
  PROVE  /\ Optional(b, <<x>>) \in Seq(FieldSet)
         /\ Len(Optional(b, <<x>>)) = IF b THEN 1 ELSE 0
         /\ b => Optional(b, <<x>>)[1] = x
         /\ SizeOf(Optional(b, <<x>>)) <= x.size
<1>1. CASE b
  <2>1. Optional(b, <<x>>) = <<x>>
    BY <1>1 DEF Optional
  <2>2. <<x>> \in Seq(FieldSet) /\ SizeOf(<<x>>) = x.size /\ x.size \in Nat
    BY SizeOne DEF FieldSet
  <2>3. Len(<<x>>) = 1 /\ <<x>>[1] = x
    OBVIOUS
  <2> DEFINE F == Optional(b, <<x>>)
  <2>4. F \in Seq(FieldSet) /\ SizeOf(F) = x.size /\ Len(F) = 1 /\ F[1] = x
    BY <2>1, <2>2, <2>3
  <2> HIDE DEF F
  <2>5. SizeOf(F) <= x.size
    BY <2>2, <2>4
  <2>6. QED
    BY <1>1, <2>4, <2>5 DEF F
<1>2. CASE ~b
  <2>1. Optional(b, <<x>>) = <<>>
    BY <1>2 DEF Optional
  <2>2. x.size \in Nat
    BY DEF FieldSet
  <2>3. QED
    BY <1>2, <2>1, <2>2, EmptyPart
<1>3. QED
  BY <1>1, <1>2

LEMMA HeadAre ==
  ASSUME NEW r, IsRecord(r), r.kind = "head"
  PROVE  StoredRight(r, HeadFields(r))
<1> DEFINE a == Uint(r, "fork")
           b == Uint(r, "length")
           c == Fixed32("root_hash")
           d == Bytes("signature", r.bytes)
           e == Flags(r.has)
           x == Field("timestamp", 8)
           t == "timestamp" \in r.has
           n == IF t THEN 1 ELSE 0
           A == <<a, b, c, d, e>>
           O == Optional(t, <<x>>)
           F == A \o O
<1>1. /\ "fork" \in FieldNames /\ "length" \in FieldNames /\ "root_hash" \in FieldNames
      /\ "signature" \in FieldNames /\ "timestamp" \in FieldNames
      /\ r.bytes \in Nat /\ 8 \in Nat
  BY DEF FieldNames, IsRecord
<1>2. /\ a \in FieldSet /\ a.size = r.width /\ a.name = "fork"
      /\ b \in FieldSet /\ b.size = r.width /\ b.name = "length"
      /\ c \in FieldSet /\ c.size = 32 /\ c.name = "root_hash"
      /\ d \in FieldSet /\ d.size = BytesSize(r.bytes) /\ d.name = "signature"
      /\ e \in FieldSet /\ e.size = 1 /\ e.name = "flags"
      /\ x \in FieldSet /\ x.size = 8 /\ x.name = "timestamp"
  BY <1>1, UintType, Fixed32Type, BytesType, FlagsType, FieldType
<1>3. HeadFields(r) = F
  BY DEF HeadFields
<1>4. r.width \in Nat /\ r.width <= 9
  BY DEF IsRecord
<1>5. n \in Nat /\ n <= 1 /\ (n = 1 <=> t) /\ t \in BOOLEAN
  OBVIOUS
<1>6. StoredLength(r) = 5 + n
  BY DEF StoredLength
<1> HIDE DEF a, b, c, d, e, x, t
<1>7. O \in Seq(FieldSet) /\ Len(O) = n /\ SizeOf(O) <= 8 /\ (t => O[1] = x)
  BY <1>2, <1>5, OptionalAre
<1>8. A \in Seq(FieldSet) /\ SizeOf(A) = a.size + b.size + c.size + d.size + e.size
  BY <1>2, SizeFive
<1>9. Len(A) = 5 /\ A[1] = a /\ A[2] = b /\ A[3] = c /\ A[4] = d /\ A[5] = e
  OBVIOUS
<1> HIDE DEF A, O, n
<1>10. /\ F \in Seq(FieldSet) /\ InOrder(F, A, O, 5, n)
       /\ SizeOf(F) = SizeOf(A) + SizeOf(O)
  <2>1. F \in Seq(FieldSet) /\ InOrder(F, A, O, 5, n)
    BY <1>7, <1>8, <1>9, ConcatInOrder
  <2>2. SizeOf(F) = SizeOf(A) + SizeOf(O)
    BY <1>7, <1>8, SizesConcat
  <2>3. QED
    BY <2>1, <2>2
<1> HIDE DEF F
<1>11. /\ Len(F) = 5 + n /\ F[1] = a /\ F[2] = b /\ F[3] = c /\ F[4] = d /\ F[5] = e
       /\ n = 1 => F[6] = x
  <2>1. Len(F) = 5 + n /\ F[1] = a /\ F[2] = b /\ F[3] = c /\ F[4] = d /\ F[5] = e
    BY <1>9, <1>10 DEF InOrder
  <2>2. ASSUME n = 1
        PROVE  F[5 + 1] = x
    <3>1. 1 \in 1..n
      BY <2>2
    <3>2. F[5 + 1] = O[1]
      BY <1>10, <3>1 DEF InOrder
    <3>3. QED
      BY <1>5, <1>7, <2>2, <3>2
  <2>3. QED
    BY <2>1, <2>2
<1>12. ASSUME r.bytes <= MaxSignature
       PROVE  SizeOf(F) <= 128
  <2>1. BytesSize(r.bytes) = 1 + r.bytes /\ r.bytes <= 64
    BY <1>1, <1>12 DEF BytesSize, UintSize, MaxSignature
  <2>2. SizeOf(A) <= 9 + 9 + 32 + 65 + 1 /\ SizeOf(A) \in Nat
    BY <1>1, <1>2, <1>4, <1>8, <2>1
  <2>3. SizeOf(O) \in Nat
    BY <1>7, SizesAre
  <2>4. QED
    BY <1>7, <1>10, <2>2, <2>3
<1>13. StoredTells(r, F)
  <2>1. ASSUME NEW i \in 1..Len(F)
        PROVE  i = 1 \/ i = 2 \/ i = 3 \/ i = 4 \/ i = 5 \/ (i = 6 /\ n = 1)
    BY <1>5, <1>11
  <2>2. \A i \in 1..Len(F) :
          \/ i = 4 /\ F[i].name = "signature"
          \/ i = 5 /\ F[i].name = "flags"
          \/ F[i].name \in {"fork", "length", "root_hash", "timestamp"}
    BY <1>2, <1>11, <2>1
  <2>3. QED
    BY <2>2 DEF StoredTells
<1>14. BufferSize[r.kind] = 128
  BY DEF BufferSize
<1>15. QED
  BY <1>3, <1>6, <1>10, <1>11, <1>12, <1>13, <1>14 DEF StoredRight, d, e

LEMMA StoreHeadAre ==
  ASSUME NEW r, IsRecord(r), r.kind = "store_head"
  PROVE  StoredRight(r, StoreHeadFields(r))
<1> DEFINE a == Uint(r, "cores")
           b == Uint(r, "datas")
           c == Uint(r, "groups")
           d == Flags(r.has)
           x == Fixed32("seed")
           y == Fixed32("default_discovery_key")
           s == "seed" \in r.has
           k == "default_discovery_key" \in r.has
           n == IF s THEN 1 ELSE 0
           m == IF k THEN 1 ELSE 0
           A == <<a, b, c, d>>
           O == Optional(s, <<x>>)
           P == Optional(k, <<y>>)
           G == A \o O
           F == G \o P
<1>1. /\ "cores" \in FieldNames /\ "datas" \in FieldNames /\ "groups" \in FieldNames
      /\ "seed" \in FieldNames /\ "default_discovery_key" \in FieldNames
  BY DEF FieldNames
<1>2. /\ a \in FieldSet /\ a.size = r.width /\ a.name = "cores"
      /\ b \in FieldSet /\ b.size = r.width /\ b.name = "datas"
      /\ c \in FieldSet /\ c.size = r.width /\ c.name = "groups"
      /\ d \in FieldSet /\ d.size = 1 /\ d.name = "flags"
      /\ x \in FieldSet /\ x.size = 32 /\ x.name = "seed"
      /\ y \in FieldSet /\ y.size = 32 /\ y.name = "default_discovery_key"
  BY <1>1, UintType, Fixed32Type, FlagsType
<1>3. StoreHeadFields(r) = F
  BY DEF StoreHeadFields
<1>4. r.width \in Nat /\ r.width <= 9
  BY DEF IsRecord
<1>5. /\ n \in Nat /\ n <= 1 /\ (n = 1 <=> s) /\ s \in BOOLEAN
      /\ m \in Nat /\ m <= 1 /\ (m = 1 <=> k) /\ k \in BOOLEAN
  OBVIOUS
<1>6. StoredLength(r) = 4 + n + m
  BY DEF StoredLength
<1> HIDE DEF a, b, c, d, x, y, s, k
<1>7. /\ O \in Seq(FieldSet) /\ Len(O) = n /\ SizeOf(O) <= 32 /\ (s => O[1] = x)
      /\ P \in Seq(FieldSet) /\ Len(P) = m /\ SizeOf(P) <= 32 /\ (k => P[1] = y)
  BY <1>2, <1>5, OptionalAre
<1>8. A \in Seq(FieldSet) /\ SizeOf(A) = a.size + b.size + c.size + d.size
  BY <1>2, SizeFour
<1>9. Len(A) = 4 /\ A[1] = a /\ A[2] = b /\ A[3] = c /\ A[4] = d
  OBVIOUS
<1> HIDE DEF A, O, P, n, m
<1>10. /\ G \in Seq(FieldSet) /\ InOrder(G, A, O, 4, n)
       /\ SizeOf(G) = SizeOf(A) + SizeOf(O)
  <2>1. G \in Seq(FieldSet) /\ InOrder(G, A, O, 4, n)
    BY <1>7, <1>8, <1>9, ConcatInOrder
  <2>2. SizeOf(G) = SizeOf(A) + SizeOf(O)
    BY <1>7, <1>8, SizesConcat
  <2>3. QED
    BY <2>1, <2>2
<1> HIDE DEF G
<1>11. /\ Len(G) = 4 + n /\ G[1] = a /\ G[2] = b /\ G[3] = c /\ G[4] = d
       /\ n = 1 => G[5] = x
  <2>1. Len(G) = 4 + n /\ G[1] = a /\ G[2] = b /\ G[3] = c /\ G[4] = d
    BY <1>9, <1>10 DEF InOrder
  <2>2. ASSUME n = 1
        PROVE  G[4 + 1] = x
    <3>1. 1 \in 1..n
      BY <2>2
    <3>2. G[4 + 1] = O[1]
      BY <1>10, <3>1 DEF InOrder
    <3>3. QED
      BY <1>5, <1>7, <2>2, <3>2
  <2>3. QED
    BY <2>1, <2>2
<1>12. /\ F \in Seq(FieldSet) /\ InOrder(F, G, P, 4 + n, m)
       /\ SizeOf(F) = SizeOf(G) + SizeOf(P)
  BY <1>7, <1>10, <1>11, ConcatInOrder, SizesConcat
<1> HIDE DEF F
<1>13. /\ Len(F) = 4 + n + m /\ F[1] = a /\ F[2] = b /\ F[3] = c /\ F[4] = d
       /\ n = 1 => F[5] = x
       /\ m = 1 => F[4 + n + 1] = y
  <2>1. Len(F) = 4 + n + m /\ \A i \in 1..4 + n : F[i] = G[i]
    BY <1>12 DEF InOrder
  <2>2. /\ 1 \in 1..4 + n /\ 2 \in 1..4 + n /\ 3 \in 1..4 + n /\ 4 \in 1..4 + n
        /\ n = 1 => 5 \in 1..4 + n
    BY <1>5
  <2>3. ASSUME m = 1
        PROVE  F[4 + n + 1] = y
    <3>1. 1 \in 1..m
      BY <2>3
    <3>2. F[4 + n + 1] = P[1]
      BY <1>12, <3>1 DEF InOrder
    <3>3. QED
      BY <1>5, <1>7, <2>3, <3>2
  <2>4. QED
    BY <1>11, <2>1, <2>2, <2>3
<1>14. SizeOf(F) <= 128
  <2>1. SizeOf(A) <= 9 + 9 + 9 + 1 /\ SizeOf(A) \in Nat
    BY <1>2, <1>4, <1>8
  <2>2. SizeOf(O) \in Nat /\ SizeOf(P) \in Nat
    BY <1>7, SizesAre
  <2>3. QED
    BY <1>7, <1>10, <1>12, <2>1, <2>2
<1>15. StoredTells(r, F)
  <2>1. ASSUME NEW i \in 1..Len(F)
        PROVE  \/ i = 1 \/ i = 2 \/ i = 3 \/ i = 4 \/ (i = 5 /\ n = 1)
               \/ (i = 4 + n + 1 /\ m = 1)
    BY <1>5, <1>13
  <2>2. \A i \in 1..Len(F) :
          \/ i = 4 /\ F[i].name = "flags"
          \/ F[i].name \in {"cores", "datas", "groups", "seed", "default_discovery_key"}
    <3>1. ASSUME NEW i \in 1..Len(F)
          PROVE  F[i] \in {a, b, c, x, y} \/ (i = 4 /\ F[i] = d)
      BY <1>13, <2>1
    <3>2. QED
      BY <1>2, <3>1
  <2>3. QED
    BY <2>2 DEF StoredTells
<1>16. BufferSize[r.kind] = 128
  BY DEF BufferSize
<1>17. QED
  BY <1>3, <1>6, <1>12, <1>13, <1>14, <1>15, <1>16 DEF StoredRight, d

LEMMA StoredAre ==
  ASSUME NEW r, IsRecord(r), r.kind # "manifest"
  PROVE  StoredRight(r, Fields(r))
<1>1. r.kind \in {"tree_node", "head", "store_head", "store_core"}
  BY DEF IsRecord, Kinds, StoredKinds
<1>2. CASE r.kind = "tree_node"
  <2>1. Fields(r) = TreeNodeFields(r)
    BY <1>2 DEF Fields
  <2>2. QED
    BY <1>2, <2>1, TreeNodeAre
<1>3. CASE r.kind = "head"
  <2>1. Fields(r) = HeadFields(r)
    BY <1>3 DEF Fields
  <2>2. QED
    BY <1>3, <2>1, HeadAre
<1>4. CASE r.kind = "store_head"
  <2>1. Fields(r) = StoreHeadFields(r)
    BY <1>4 DEF Fields
  <2>2. QED
    BY <1>4, <2>1, StoreHeadAre
<1>5. CASE r.kind = "store_core"
  <2>1. Fields(r) = StoreCoreFields(r)
    BY <1>5 DEF Fields
  <2>2. QED
    BY <1>5, <2>1, StoreCoreAre
<1>6. QED
  BY <1>1, <1>2, <1>3, <1>4, <1>5

(* All records.                                                            *)
LEMMA FieldsAre ==
  ASSUME NEW r, IsRecord(r)
  PROVE  /\ Fields(r) \in Seq(FieldSet) /\ Len(Fields(r)) = StoredLength(r)
         /\ Len(Fields(r)) \in Nat
         /\ r.kind = "manifest" => /\ ManifestRight(r, Fields(r))
                                   /\ SizeOf(Fields(r)) = PreencodedSize(r)
<1>1. CASE r.kind = "manifest"
  <2>1. Fields(r) = ManifestFields(r) /\ PreencodedSize(r) = ManifestSize(r)
        /\ StoredLength(r) = ManifestLength(r)
    BY <1>1 DEF Fields, PreencodedSize, StoredLength
  <2>2. ManifestRight(r, ManifestFields(r)) /\ SizeOf(ManifestFields(r)) = ManifestSize(r)
    BY ManifestAre
  <2>3. Fields(r) \in Seq(FieldSet) /\ Len(Fields(r)) = StoredLength(r)
    BY <2>1, <2>2 DEF ManifestRight
  <2>4. QED
    BY <2>1, <2>2, <2>3
<1>2. CASE r.kind # "manifest"
  <2>1. Fields(r) \in Seq(FieldSet) /\ Len(Fields(r)) = StoredLength(r)
    BY <1>2, StoredAre DEF StoredRight
  <2>2. QED
    BY <1>2, <2>1
<1>3. QED
  BY <1>1, <1>2

-----------------------------------------------------------------------------
(* What the decoders look for, field by field, is what the encoders write. *)
Is(x, name) == x \in FieldSet /\ name \in FieldNames /\ x.name = name

Named(F, T) ==
  /\ F \in Seq(FieldSet) /\ T \in Seq(FieldNames) /\ Len(T) = Len(F)
  /\ \A i \in 1..Len(F) : T[i] = F[i].name

LEMMA NamedNone == Named(<<>>, <<>>)
BY DEF Named

LEMMA NamedOne ==
  ASSUME NEW a, NEW x, Is(a, x)
  PROVE  Named(<<a>>, <<x>>)
<1>1. <<a>> \in Seq(FieldSet) /\ Len(<<a>>) = 1 /\ <<a>>[1] = a
  BY DEF Is
<1>2. <<x>> \in Seq(FieldNames) /\ Len(<<x>>) = 1 /\ <<x>>[1] = x
  BY DEF Is
<1>3. \A i \in 1..1 : i = 1
  OBVIOUS
<1>4. QED
  BY <1>1, <1>2, <1>3 DEF Named, Is

LEMMA NamedConcat ==
  ASSUME NEW F, NEW T, NEW G, NEW U, Named(F, T), Named(G, U)
  PROVE  Named(F \o G, T \o U)
<1> DEFINE H == F \o G
           V == T \o U
           n == Len(F)
           m == Len(G)
<1>1. /\ F \in Seq(FieldSet) /\ G \in Seq(FieldSet) /\ n \in Nat /\ m \in Nat
      /\ T \in Seq(FieldNames) /\ U \in Seq(FieldNames)
      /\ Len(T) = n /\ Len(U) = m
  BY DEF Named
<1>2. H \in Seq(FieldSet) /\ InOrder(H, F, G, n, m)
  BY <1>1, ConcatInOrder
<1>3. V \in Seq(FieldNames) /\ InOrder(V, T, U, n, m)
  BY <1>1, ConcatInOrder
<1>4. /\ \A i \in 1..n : T[i] = F[i].name
      /\ \A i \in 1..m : U[i] = G[i].name
  BY DEF Named
<1> HIDE DEF H, V, n, m
<1>5. ASSUME NEW i \in 1..n + m
      PROVE  V[i] = H[i].name
  <2>1. CASE i <= n
    <3>1. i \in 1..n
      BY <1>1, <2>1
    <3>2. QED
      BY <1>2, <1>3, <1>4, <3>1 DEF InOrder
  <2>2. CASE i > n
    <3>1. PICK j \in 1..m : i = n + j
      <4>1. i - n \in 1..m /\ i = n + (i - n)
        BY <1>1, <2>2
      <4>2. QED
        BY <4>1
    <3>2. QED
      BY <1>2, <1>3, <1>4, <3>1 DEF InOrder
  <2>3. QED
    BY <1>1, <2>1, <2>2
<1>6. Named(H, V)
  BY <1>2, <1>3, <1>5 DEF Named, InOrder
<1>7. QED
  BY <1>6 DEF H, V

LEMMA NamedTimes ==
  ASSUME NEW F, NEW T, Named(F, T), Len(F) > 0, NEW n \in Nat
  PROVE  Named(Times(n, F), Times(n, T))
<1>1. F \in Seq(FieldSet) /\ T \in Seq(FieldNames) /\ Len(T) = Len(F)
  BY DEF Named
<1>2. /\ Times(n, F) \in Seq(FieldSet) /\ Len(Times(n, F)) = n * Len(F)
      /\ \A i \in 1..n * Len(F) :
           /\ ((i - 1) % Len(F)) + 1 \in 1..Len(F)
           /\ Times(n, F)[i] = F[((i - 1) % Len(F)) + 1]
  BY <1>1, PlacesOfTimes
<1>3. /\ Times(n, T) \in Seq(FieldNames) /\ Len(Times(n, T)) = n * Len(T)
      /\ \A i \in 1..n * Len(T) : Times(n, T)[i] = T[((i - 1) % Len(T)) + 1]
  BY <1>1, PlacesOfTimes
<1> DEFINE H == Times(n, F)
           V == Times(n, T)
<1> HIDE DEF H, V
<1>4. \A j \in 1..Len(F) : T[j] = F[j].name
  BY DEF Named
<1>5. \A i \in 1..n * Len(F) : V[i] = H[i].name
  BY <1>1, <1>2, <1>3, <1>4 DEF H, V
<1>6. Named(H, V)
  BY <1>1, <1>2, <1>3, <1>5 DEF Named, H, V
<1>7. QED
  BY <1>6 DEF H, V

LEMMA NamedOptional ==
  ASSUME NEW F, NEW T, Named(F, T), NEW b
  PROVE  Named(Optional(b, F), Optional(b, T))
<1>1. CASE b
  <2>1. Optional(b, F) = F /\ Optional(b, T) = T
    BY <1>1 DEF Optional
  <2>2. QED
    BY <2>1
<1>2. CASE ~b
  <2>1. Optional(b, F) = <<>> /\ Optional(b, T) = <<>>
    BY <1>2 DEF Optional
  <2>2. QED
    BY <2>1, NamedNone
<1>3. QED
  BY <1>1, <1>2

LEMMA NamedTwo ==
  ASSUME NEW a, NEW b,
         NEW x, NEW y,
         Is(a, x), Is(b, y)
  PROVE  Named(<<a, b>>, <<x, y>>)
<1>1. <<a, b>> \in Seq(FieldSet) /\ Len(<<a, b>>) = 2
  BY DEF Is
<1>2. <<x, y>> \in Seq(FieldNames) /\ Len(<<x, y>>) = 2
  BY DEF Is
<1>3. /\ <<a, b>>[1] = a /\ <<x, y>>[1] = x
      /\ <<a, b>>[2] = b /\ <<x, y>>[2] = y
  OBVIOUS
<1>4. \A i \in 1..2 : i = 1 \/ i = 2
  OBVIOUS
<1>5. \A i \in 1..2 : <<x, y>>[i] = <<a, b>>[i].name
  BY <1>3, <1>4 DEF Is
<1>6. QED
  BY <1>1, <1>2, <1>5 DEF Named

LEMMA NamedThree ==
  ASSUME NEW a, NEW b, NEW c,
         NEW x, NEW y, NEW z,
         Is(a, x), Is(b, y), Is(c, z)
  PROVE  Named(<<a, b, c>>, <<x, y, z>>)
<1>1. <<a, b, c>> \in Seq(FieldSet) /\ Len(<<a, b, c>>) = 3
  BY DEF Is
<1>2. <<x, y, z>> \in Seq(FieldNames) /\ Len(<<x, y, z>>) = 3
  BY DEF Is
<1>3. /\ <<a, b, c>>[1] = a /\ <<x, y, z>>[1] = x
      /\ <<a, b, c>>[2] = b /\ <<x, y, z>>[2] = y
      /\ <<a, b, c>>[3] = c /\ <<x, y, z>>[3] = z
  OBVIOUS
<1>4. \A i \in 1..3 : i = 1 \/ i = 2 \/ i = 3
  OBVIOUS
<1>5. \A i \in 1..3 : <<x, y, z>>[i] = <<a, b, c>>[i].name
  BY <1>3, <1>4 DEF Is
<1>6. QED
  BY <1>1, <1>2, <1>5 DEF Named

LEMMA NamedFour ==
  ASSUME NEW a, NEW b, NEW c, NEW d,
         NEW x, NEW y, NEW z, NEW u,
         Is(a, x), Is(b, y), Is(c, z), Is(d, u)
  PROVE  Named(<<a, b, c, d>>, <<x, y, z, u>>)
<1>1. <<a, b, c, d>> \in Seq(FieldSet) /\ Len(<<a, b, c, d>>) = 4
  BY DEF Is
<1>2. <<x, y, z, u>> \in Seq(FieldNames) /\ Len(<<x, y, z, u>>) = 4
  BY DEF Is
<1>3. /\ <<a, b, c, d>>[1] = a /\ <<x, y, z, u>>[1] = x
      /\ <<a, b, c, d>>[2] = b /\ <<x, y, z, u>>[2] = y
      /\ <<a, b, c, d>>[3] = c /\ <<x, y, z, u>>[3] = z
      /\ <<a, b, c, d>>[4] = d /\ <<x, y, z, u>>[4] = u
  OBVIOUS
<1>4. \A i \in 1..4 : i = 1 \/ i = 2 \/ i = 3 \/ i = 4
  OBVIOUS
<1>5. \A i \in 1..4 : <<x, y, z, u>>[i] = <<a, b, c, d>>[i].name
  BY <1>3, <1>4 DEF Is
<1>6. QED
  BY <1>1, <1>2, <1>5 DEF Named

LEMMA NamedFive ==
  ASSUME NEW a, NEW b, NEW c, NEW d, NEW e,
         NEW x, NEW y, NEW z, NEW u, NEW v,
         Is(a, x), Is(b, y), Is(c, z), Is(d, u), Is(e, v)
  PROVE  Named(<<a, b, c, d, e>>, <<x, y, z, u, v>>)
<1>1. <<a, b, c, d, e>> \in Seq(FieldSet) /\ Len(<<a, b, c, d, e>>) = 5
  BY DEF Is
<1>2. <<x, y, z, u, v>> \in Seq(FieldNames) /\ Len(<<x, y, z, u, v>>) = 5
  BY DEF Is
<1>3. /\ <<a, b, c, d, e>>[1] = a /\ <<x, y, z, u, v>>[1] = x
      /\ <<a, b, c, d, e>>[2] = b /\ <<x, y, z, u, v>>[2] = y
      /\ <<a, b, c, d, e>>[3] = c /\ <<x, y, z, u, v>>[3] = z
      /\ <<a, b, c, d, e>>[4] = d /\ <<x, y, z, u, v>>[4] = u
      /\ <<a, b, c, d, e>>[5] = e /\ <<x, y, z, u, v>>[5] = v
  OBVIOUS
<1>4. \A i \in 1..5 : i = 1 \/ i = 2 \/ i = 3 \/ i = 4 \/ i = 5
  OBVIOUS
<1>5. \A i \in 1..5 : <<x, y, z, u, v>>[i] = <<a, b, c, d, e>>[i].name
  BY <1>3, <1>4 DEF Is
<1>6. QED
  BY <1>1, <1>2, <1>5 DEF Named

(* The single fields.                                                      *)
LEMMA FieldIs ==
  ASSUME NEW r, IsRecord(r), NEW name \in FieldNames
  PROVE  /\ Is(Uint(r, name), name) /\ Is(Fixed32(name), name)
         /\ Is(Field(name, 8), name) /\ Is(Bytes(name, r.bytes), name)
         /\ Is(Count(name, r.signers), name) /\ Is(Count(name, r.linked), name)
<1>1. r.bytes \in Nat /\ r.signers \in Nat /\ r.linked \in Nat /\ 8 \in Nat
  BY DEF IsRecord
<1>2. Is(Uint(r, name), name) /\ Is(Fixed32(name), name)
  BY UintType, Fixed32Type DEF Is
<1>3. Is(Field(name, 8), name)
  BY <1>1, FieldType DEF Is
<1>4. Is(Bytes(name, r.bytes), name)
  BY <1>1, BytesType DEF Is
<1>5. Is(Count(name, r.signers), name) /\ Is(Count(name, r.linked), name)
  BY <1>1, CountType DEF Is
<1>6. QED
  BY <1>2, <1>3, <1>4, <1>5

LEMMA FlagsIs ==
  ASSUME NEW r, IsRecord(r)
  PROVE  Is(Flags(r.has), "flags")
<1>1. "flags" \in FieldNames
  BY DEF FieldNames
<1>2. QED
  BY <1>1, FlagsType DEF Is

LEMMA HeadNamed ==
  ASSUME NEW r, IsRecord(r)
  PROVE  Named(HeadFields(r), HeadNames(r))
<1>1. /\ Is(Uint(r, "fork"), "fork") /\ Is(Uint(r, "length"), "length")
      /\ Is(Fixed32("root_hash"), "root_hash")
      /\ Is(Bytes("signature", r.bytes), "signature")
      /\ Is(Field("timestamp", 8), "timestamp")
  BY FieldIs DEF FieldNames
<1>2. Is(Flags(r.has), "flags")
  BY FlagsIs
<1> DEFINE F == <<Uint(r, "fork"), Uint(r, "length"), Fixed32("root_hash"),
                  Bytes("signature", r.bytes), Flags(r.has)>>
           T == <<"fork", "length", "root_hash", "signature", "flags">>
           G == Optional("timestamp" \in r.has, <<Field("timestamp", 8)>>)
           U == Optional("timestamp" \in r.has, <<"timestamp">>)
<1>3. Named(F, T)
  BY <1>1, <1>2, NamedFive
<1>4. Named(G, U)
  BY <1>1, NamedOne, NamedOptional
<1>5. HeadFields(r) = F \o G /\ HeadNames(r) = T \o U
  BY DEF HeadFields, HeadNames
<1> HIDE DEF F, T, G, U
<1>6. QED
  BY <1>3, <1>4, <1>5, NamedConcat

LEMMA StoreHeadNamed ==
  ASSUME NEW r, IsRecord(r)
  PROVE  Named(StoreHeadFields(r), StoreHeadNames(r))
<1>1. /\ Is(Uint(r, "cores"), "cores") /\ Is(Uint(r, "datas"), "datas")
      /\ Is(Uint(r, "groups"), "groups") /\ Is(Fixed32("seed"), "seed")
      /\ Is(Fixed32("default_discovery_key"), "default_discovery_key")
  BY FieldIs DEF FieldNames
<1>2. Is(Flags(r.has), "flags")
  BY FlagsIs
<1> DEFINE F == <<Uint(r, "cores"), Uint(r, "datas"), Uint(r, "groups"), Flags(r.has)>>
           T == <<"cores", "datas", "groups", "flags">>
           G == Optional("seed" \in r.has, <<Fixed32("seed")>>)
           U == Optional("seed" \in r.has, <<"seed">>)
           K == Optional("default_discovery_key" \in r.has,
                         <<Fixed32("default_discovery_key")>>)
           V == Optional("default_discovery_key" \in r.has,
                         <<"default_discovery_key">>)
<1>3. Named(F, T)
  BY <1>1, <1>2, NamedFour
<1>4. Named(G, U) /\ Named(K, V)
  BY <1>1, NamedOne, NamedOptional
<1>5. StoreHeadFields(r) = (F \o G) \o K /\ StoreHeadNames(r) = (T \o U) \o V
  BY DEF StoreHeadFields, StoreHeadNames
<1> HIDE DEF F, T, G, U, K, V
<1>6. Named(F \o G, T \o U)
  BY <1>3, <1>4, NamedConcat
<1>7. QED
  BY <1>4, <1>5, <1>6, NamedConcat

LEMMA ManifestNamed ==
  ASSUME NEW r, IsRecord(r)
  PROVE  Named(ManifestFields(r), ManifestNames(r))
<1>1. /\ Is(Uint(r, "version"), "version") /\ Is(Uint(r, "hash"), "hash")
      /\ Is(Uint(r, "quorum"), "quorum")
      /\ Is(Count("signers", r.signers), "signers")
      /\ Is(Count("linked", r.linked), "linked") /\ Is(Fixed32("link"), "link")
      /\ Is(Bytes("user_data", r.bytes), "user_data")
  BY FieldIs DEF FieldNames
<1>2. /\ Is(Uint(r, "signature"), "signature")
      /\ Is(Fixed32("namespace"), "namespace")
      /\ Is(Fixed32("public_key"), "public_key")
      /\ Is(Fixed32("hash"), "hash") /\ Is(Uint(r, "length"), "length")
  BY FieldIs DEF FieldNames
<1>3. Is(Flags(r.has), "flags") /\ r.signers \in Nat /\ r.linked \in Nat
  BY FlagsIs DEF IsRecord
<1> DEFINE head == <<"version", "flags", "hash", "quorum", "signers">>
           signers == Times(r.signers, SignerNames)
           prologue == Optional("prologue" \in r.has, PrologueNames)
           linked == Optional("linked" \in r.has,
                              <<"linked">> \o Times(r.linked, <<"link">>))
           user == Optional("user_data" \in r.has, <<"user_data">>)
<1>4. Named(ManifestHead(r), head)
  BY <1>1, <1>3, NamedFive DEF ManifestHead
<1>5. Named(ManifestSigners(r), signers)
  <2>1. Named(SignerFields(r), SignerNames)
    BY <1>2, NamedThree DEF SignerFields, SignerNames
  <2>2. Len(SignerFields(r)) > 0
    BY SignersAre
  <2>3. QED
    BY <1>3, <2>1, <2>2, NamedTimes DEF ManifestSigners
<1>6. Named(ManifestPrologue(r), prologue)
  <2>1. Named(PrologueFields(r), PrologueNames)
    BY <1>2, NamedTwo DEF PrologueFields, PrologueNames
  <2>2. QED
    BY <2>1, NamedOptional DEF ManifestPrologue
<1>7. Named(ManifestLinked(r), linked)
  <2>1. Named(<<Fixed32("link")>>, <<"link">>) /\ Len(<<Fixed32("link")>>) > 0
    BY <1>1, NamedOne
  <2>2. Named(Times(r.linked, <<Fixed32("link")>>), Times(r.linked, <<"link">>))
    BY <1>3, <2>1, NamedTimes
  <2>3. Named(<<Count("linked", r.linked)>>, <<"linked">>)
    BY <1>1, NamedOne
  <2>4. Named(<<Count("linked", r.linked)>> \o Times(r.linked, <<Fixed32("link")>>),
              <<"linked">> \o Times(r.linked, <<"link">>))
    BY <2>2, <2>3, NamedConcat
  <2>5. QED
    BY <2>4, NamedOptional DEF ManifestLinked
<1>8. Named(ManifestUser(r), user)
  BY <1>1, NamedOne, NamedOptional DEF ManifestUser
<1>9. ManifestNames(r) = (((head \o signers) \o prologue) \o linked) \o user
  BY DEF ManifestNames
<1> HIDE DEF head, signers, prologue, linked, user
<1> DEFINE F == ManifestHead(r) \o ManifestSigners(r)
           G == F \o ManifestPrologue(r)
           H == G \o ManifestLinked(r)
           T == head \o signers
           U == T \o prologue
           V == U \o linked
<1>10. Named(F, T)
  BY <1>4, <1>5, NamedConcat
<1> HIDE DEF F, T
<1>11. Named(G, U)
  BY <1>6, <1>10, NamedConcat
<1> HIDE DEF G, U
<1>12. Named(H, V)
  BY <1>7, <1>11, NamedConcat
<1> HIDE DEF H, V
<1>13. Named(H \o ManifestUser(r), V \o user)
  BY <1>8, <1>12, NamedConcat
<1>14. QED
  BY <1>9, <1>13, ManifestInParts DEF F, G, H, T, U, V

LEMMA ReadOrderIs ==
  ASSUME NEW r, IsRecord(r)
  PROVE  /\ Len(ReadOrder(r)) = Len(Fields(r))
         /\ \A i \in 1..Len(Fields(r)) : ReadOrder(r)[i] = Fields(r)[i].name
<1>1. r.kind \in {"tree_node", "head", "store_head", "store_core", "manifest"}
  BY DEF IsRecord, Kinds, StoredKinds
<1>2. CASE r.kind = "tree_node"
  <2>1. /\ Is(Uint(r, "index"), "index") /\ Is(Uint(r, "size"), "size")
        /\ Is(Fixed32("hash"), "hash")
    BY FieldIs DEF FieldNames
  <2>2. Named(TreeNodeFields(r), TreeNodeNames)
    BY <2>1, NamedThree DEF TreeNodeFields, TreeNodeNames
  <2>3. Fields(r) = TreeNodeFields(r) /\ ReadOrder(r) = TreeNodeNames
    BY <1>2 DEF Fields, ReadOrder
  <2>4. QED
    BY <2>2, <2>3 DEF Named
<1>3. CASE r.kind = "head"
  <2>1. Fields(r) = HeadFields(r) /\ ReadOrder(r) = HeadNames(r)
    BY <1>3 DEF Fields, ReadOrder
  <2>2. QED
    BY <2>1, HeadNamed DEF Named
<1>4. CASE r.kind = "store_head"
  <2>1. Fields(r) = StoreHeadFields(r) /\ ReadOrder(r) = StoreHeadNames(r)
    BY <1>4 DEF Fields, ReadOrder
  <2>2. QED
    BY <2>1, StoreHeadNamed DEF Named
<1>5. CASE r.kind = "store_core"
  <2>1. Is(Uint(r, "core_ptr"), "core_ptr") /\ Is(Uint(r, "data_ptr"), "data_ptr")
    BY FieldIs DEF FieldNames
  <2>2. Named(StoreCoreFields(r), StoreCoreNames)
    BY <2>1, NamedTwo DEF StoreCoreFields, StoreCoreNames
  <2>3. Fields(r) = StoreCoreFields(r) /\ ReadOrder(r) = StoreCoreNames
    BY <1>5 DEF Fields, ReadOrder
  <2>4. QED
    BY <2>2, <2>3 DEF Named
<1>6. CASE r.kind = "manifest"
  <2>1. Fields(r) = ManifestFields(r) /\ ReadOrder(r) = ManifestNames(r)
    BY <1>6 DEF Fields, ReadOrder
  <2>2. QED
    BY <2>1, ManifestNamed DEF Named
<1>7. QED
  BY <1>1, <1>2, <1>3, <1>4, <1>5, <1>6

-----------------------------------------------------------------------------
(* The first fields of a list.                                             *)
IsPrefix(s, F) == \E n \in 0..Len(F) : s = [i \in 1..n |-> F[i]]

LEMMA PrefixIs ==
  ASSUME NEW F \in Seq(FieldSet), NEW s, IsPrefix(s, F)
  PROVE  /\ s \in Seq(FieldSet) /\ Len(s) \in Nat /\ Len(s) <= Len(F)
         /\ s = [i \in 1..Len(s) |-> F[i]]
         /\ Len(s) = Len(F) => s = F
<1>1. PICK n \in 0..Len(F) : s = [i \in 1..n |-> F[i]]
  BY DEF IsPrefix
<1>2. Len(F) \in Nat /\ \A i \in 1..n : F[i] \in FieldSet
  OBVIOUS
<1>3. s \in Seq(FieldSet) /\ Len(s) = n
  BY <1>1, <1>2
<1>4. Len(s) = Len(F) => s = F
  <2>1. ASSUME n = Len(F)
        PROVE  \A i \in 1..Len(F) : s[i] = F[i]
    BY <1>1, <2>1
  <2>2. QED
    BY <1>3, <2>1, SameLists
<1>5. QED
  BY <1>1, <1>2, <1>3, <1>4

LEMMA PrefixGrows ==
  ASSUME NEW F \in Seq(FieldSet), NEW s, IsPrefix(s, F), Len(s) < Len(F)
  PROVE  IsPrefix(Append(s, F[Len(s) + 1]), F)
<1> DEFINE n == Len(s)
           x == F[n + 1]
           H == Append(s, x)
           G == [i \in 1..n + 1 |-> F[i]]
<1>1. /\ s \in Seq(FieldSet) /\ n \in Nat /\ n < Len(F) /\ Len(F) \in Nat
      /\ s = [i \in 1..n |-> F[i]]
  BY PrefixIs
<1> HIDE DEF n
<1>2. \A i \in 1..n + 1 : F[i] \in FieldSet
  BY <1>1
<1>3. x \in FieldSet /\ G \in Seq(FieldSet) /\ Len(G) = n + 1
  BY <1>1, <1>2
<1>4. \A i \in 1..n : s[i] = F[i]
  BY <1>1
<1> HIDE DEF x
<1>5. H \in Seq(FieldSet) /\ Len(H) = n + 1 /\ H[n + 1] = x /\ \A i \in 1..n : H[i] = s[i]
  BY <1>1, <1>3 DEF n
<1> HIDE DEF H
<1>6. \A i \in 1..n + 1 : H[i] = G[i]
  <2>1. ASSUME NEW i \in 1..n + 1
        PROVE  H[i] = F[i]
    <3>1. CASE i = n + 1
      BY <1>5, <3>1 DEF x
    <3>2. CASE i # n + 1
      <4>1. i \in 1..n
        BY <1>1, <3>2
      <4>2. QED
        BY <1>4, <1>5, <4>1
    <3>3. QED
      BY <3>1, <3>2
  <2>2. QED
    BY <2>1
<1> HIDE DEF G
<1>7. H = G
  BY <1>3, <1>5, <1>6, SameLists
<1>8. n + 1 \in 0..Len(F)
  BY <1>1
<1>9. IsPrefix(H, F)
  BY <1>7, <1>8 DEF IsPrefix, G
<1>10. QED
  BY <1>9 DEF H, x, n

LEMMA PrefixCut ==
  ASSUME NEW F \in Seq(FieldSet), NEW s, IsPrefix(s, F), NEW n \in 0..Len(s) - 1
  PROVE  IsPrefix(SubSeq(s, 1, n), F)
<1>1. /\ s \in Seq(FieldSet) /\ Len(s) \in Nat /\ Len(s) <= Len(F) /\ Len(F) \in Nat
      /\ s = [i \in 1..Len(s) |-> F[i]]
  BY PrefixIs
<1>2. SubSeq(s, 1, n) = [i \in 1..n |-> s[i]]
  <2>1. n \in Nat /\ n <= Len(s)
    BY <1>1
  <2>2. SubSeq(s, 1, n) \in Seq(FieldSet) /\ Len(SubSeq(s, 1, n)) = n
    BY <1>1, <2>1
  <2>3. \A i \in 1..n : SubSeq(s, 1, n)[i] = s[i]
    BY <1>1, <2>1
  <2>4. \A i \in 1..n : s[i] \in FieldSet
    BY <1>1, <2>1
  <2> DEFINE G == [i \in 1..n |-> s[i]]
             H == SubSeq(s, 1, n)
  <2>5. G \in Seq(FieldSet) /\ Len(G) = n /\ \A i \in 1..n : G[i] = s[i]
    BY <2>1, <2>4
  <2> HIDE DEF G, H
  <2>6. H = G
    BY <2>2, <2>3, <2>5, SameLists DEF H
  <2>7. QED
    BY <2>6 DEF G, H
<1>3. \A i \in 1..n : s[i] = F[i]
  BY <1>1
<1>4. [i \in 1..n |-> s[i]] = [i \in 1..n |-> F[i]]
  BY <1>3
<1>5. n \in 0..Len(F)
  BY <1>1
<1>6. QED
  BY <1>2, <1>4, <1>5 DEF IsPrefix

LEMMA PrefixNone ==
  ASSUME NEW F \in Seq(FieldSet)
  PROVE  IsPrefix(<<>>, F)
<1>1. 0 \in 0..Len(F)
  OBVIOUS
<1>2. <<>> = [i \in 1..0 |-> F[i]]
  OBVIOUS
<1>3. QED
  BY <1>1, <1>2 DEF IsPrefix

(* There is room for the next field: of any manifest, and of a stored      *)
(* record with a signature that its buffer was made for.                   *)
LEMMA RoomForField ==
  ASSUME IsRecord(record), IsPrefix(stored, Fields(record)),
         Len(stored) < Len(Fields(record)),
         IsManifest \/ record.bytes <= MaxSignature
  PROVE  HasRoom
<1> DEFINE F == Fields(record)
           n == Len(stored)
<1>1. /\ F \in Seq(FieldSet)
      /\ record.kind = "manifest" => SizeOf(F) = PreencodedSize(record)
  BY FieldsAre
<1>2. n \in Nat /\ n < Len(F) /\ stored = [i \in 1..n |-> F[i]]
  BY <1>1, PrefixIs
<1>3. SizeOf(F) <= Room
  <2>1. CASE IsManifest
    <3>1. SizeOf(F) \in Nat
      BY <1>1, SizesAre
    <3>2. Room = SizeOf(F)
      BY <1>1, <2>1 DEF Room, IsManifest
    <3>3. QED
      BY <3>1, <3>2
  <2>2. CASE ~IsManifest
    BY <2>2, StoredAre DEF StoredRight, Room, IsManifest
  <2>3. QED
    BY <2>1, <2>2
<1> HIDE DEF F, n
<1>4. SizeOf(stored) + F[n + 1].size <= SizeOf(F)
  BY <1>1, <1>2, SizesPrefix
<1>5. SizeOf(stored) \in Nat /\ F[n + 1].size \in Nat /\ SizeOf(F) \in Nat
  <2>1. stored \in Seq(FieldSet)
    BY <1>1, PrefixIs DEF F
  <2>2. F[n + 1] \in FieldSet
    BY <1>1, <1>2
  <2>3. QED
    BY <1>1, <2>1, <2>2, SizesAre DEF FieldSet
<1>6. Room \in Nat
  <2>1. CASE IsManifest
    BY <1>1, <1>5, <2>1 DEF Room, IsManifest, F
  <2>2. CASE ~IsManifest
    <3>1. record.kind \in {"tree_node", "head", "store_head", "store_core"}
      BY <2>2 DEF IsRecord, Kinds, StoredKinds, IsManifest
    <3>2. QED
      BY <2>2, <3>1 DEF Room, BufferSize
  <2>3. QED
    BY <2>1, <2>2
<1>7. SizeOf(stored) + F[n + 1].size <= Room
  BY <1>3, <1>4, <1>5, <1>6
<1>8. QED
  BY <1>7 DEF HasRoom, ToWrite, Written, F, n

-----------------------------------------------------------------------------
(* What the fields of a manifest tell, and where.                          *)
LEMMA ManifestTells ==
  ASSUME NEW r, IsRecord(r), r.kind = "manifest"
  PROVE  LET F == Fields(r) IN
         /\ F[2].name = "flags" /\ F[2].value = r.has
         /\ F[5].name = "signers" /\ F[5].value = r.signers
         /\ "linked" \in r.has => /\ F[LinkedPlace(r)].name = "linked"
                                  /\ F[LinkedPlace(r)].value = r.linked
         /\ "user_data" \in r.has => /\ F[ManifestLength(r)].name = "user_data"
                                     /\ F[ManifestLength(r)].value = r.bytes
         /\ \A i \in 1..Len(F) :
              /\ F[i].name = "flags" => i = 2
              /\ F[i].name = "signers" => i = 5
              /\ F[i].name = "linked" => "linked" \in r.has /\ i = LinkedPlace(r)
              /\ F[i].name = "user_data" =>
                   "user_data" \in r.has /\ i = ManifestLength(r)
<1> DEFINE F == Fields(r)
<1>1. ManifestRight(r, F)
  BY FieldsAre
<1>2. /\ "signers" \in FieldNames /\ "linked" \in FieldNames
      /\ "user_data" \in FieldNames
      /\ r.signers \in Nat /\ r.linked \in Nat /\ r.bytes \in Nat
  BY DEF FieldNames, IsRecord
<1>3. /\ Flags(r.has).name = "flags" /\ Flags(r.has).value = r.has
      /\ Count("signers", r.signers).name = "signers"
      /\ Count("signers", r.signers).value = r.signers
      /\ Count("linked", r.linked).name = "linked"
      /\ Count("linked", r.linked).value = r.linked
      /\ Bytes("user_data", r.bytes).name = "user_data"
      /\ Bytes("user_data", r.bytes).value = r.bytes
  BY <1>2, FlagsType, CountType, BytesType
<1> HIDE DEF F
<1>4. /\ F[2].name = "flags" /\ F[2].value = r.has
      /\ F[5].name = "signers" /\ F[5].value = r.signers
      /\ "linked" \in r.has => /\ F[LinkedPlace(r)].name = "linked"
                               /\ F[LinkedPlace(r)].value = r.linked
      /\ "user_data" \in r.has => /\ F[ManifestLength(r)].name = "user_data"
                                  /\ F[ManifestLength(r)].value = r.bytes
  BY <1>1, <1>3 DEF ManifestRight
<1>5. ASSUME NEW i \in 1..Len(F), F[i].name \in Telling
      PROVE  \/ i = 2 \/ i = 5
             \/ "linked" \in r.has /\ i = LinkedPlace(r)
             \/ "user_data" \in r.has /\ i = ManifestLength(r)
  BY <1>1, <1>5 DEF ManifestRight, Quiet, TellingPlaces
<1>6. ASSUME NEW i \in 1..Len(F)
      PROVE  /\ F[i].name = "flags" => i = 2
             /\ F[i].name = "signers" => i = 5
             /\ F[i].name = "linked" => "linked" \in r.has /\ i = LinkedPlace(r)
             /\ F[i].name = "user_data" =>
                  "user_data" \in r.has /\ i = ManifestLength(r)
  BY <1>4, <1>5 DEF Telling
<1>7. QED
  BY <1>4, <1>6 DEF F

(* The name of a field tells its place.                                    *)
LEMMA NameTells ==
  ASSUME NEW r, IsRecord(r), r.kind = "manifest", NEW n \in 1..Len(Fields(r))
  PROVE  /\ Fields(r)[n].name = "flags" => n = 2
         /\ Fields(r)[n].name = "signers" => n = 5
         /\ Fields(r)[n].name = "linked" => "linked" \in r.has /\ n = LinkedPlace(r)
         /\ Fields(r)[n].name = "user_data" =>
              "user_data" \in r.has /\ n = ManifestLength(r)
<1> DEFINE F == Fields(r)
<1>1. \A i \in 1..Len(F) :
        /\ F[i].name = "flags" => i = 2
        /\ F[i].name = "signers" => i = 5
        /\ F[i].name = "linked" => "linked" \in r.has /\ i = LinkedPlace(r)
        /\ F[i].name = "user_data" =>
             "user_data" \in r.has /\ i = ManifestLength(r)
  BY ManifestTells
<1>2. n \in 1..Len(F)
  OBVIOUS
<1> SUFFICES /\ F[n].name = "flags" => n = 2
             /\ F[n].name = "signers" => n = 5
             /\ F[n].name = "linked" => "linked" \in r.has /\ n = LinkedPlace(r)
             /\ F[n].name = "user_data" =>
                  "user_data" \in r.has /\ n = ManifestLength(r)
  OBVIOUS
<1> HIDE DEF F
<1>3. QED
  BY <1>1, <1>2

LEMMA LengthsAgree ==
  ASSUME NEW r, NEW g, g.has = r.has, g.signers = r.signers
  PROVE  /\ LinkedPlace(g) = LinkedPlace(r)
         /\ ("linked" \in r.has => g.linked = r.linked) =>
              ManifestLength(g) = ManifestLength(r)
<1>1. LinkedPlace(g) = LinkedPlace(r)
  BY DEF LinkedPlace
<1>2. ASSUME "linked" \in r.has => g.linked = r.linked
      PROVE  ManifestLength(g) = ManifestLength(r)
  BY <1>1, <1>2 DEF ManifestLength
<1>3. QED
  BY <1>1, <1>2

LEMMA LongManifest ==
  ASSUME NEW r, IsRecord(r)
  PROVE  /\ "user_data" \in r.has => ManifestLength(r) >= 6
         /\ "user_data" \in r.has /\ "linked" \in r.has =>
              ManifestLength(r) > LinkedPlace(r)
<1>1. r.linked \in Nat /\ LinkedPlace(r) \in Nat /\ LinkedPlace(r) >= 6
  BY PlacesAre DEF IsRecord
<1> DEFINE p == LinkedPlace(r)
<1> HIDE DEF p
<1>2. ManifestLength(r) = p - 1 + (IF "linked" \in r.has THEN 1 + r.linked ELSE 0)
                            + (IF "user_data" \in r.has THEN 1 ELSE 0)
  BY DEF ManifestLength, p
<1>3. QED
  BY <1>1, <1>2 DEF p

(* What a decoder knows of a record when it has read k of its fields.      *)
Decoded == [kind : Kinds, width : {1}, has : SUBSET OptionNames,
            signers : Nat, linked : Nat, bytes : Nat]

KnownManifest(r, g, k) ==
  /\ k >= 2 => g.has = r.has
  /\ k >= 5 => g.signers = r.signers
  /\ k >= LinkedPlace(r) /\ "linked" \in r.has => g.linked = r.linked
  /\ k >= ManifestLength(r) /\ "user_data" \in r.has => g.bytes = r.bytes

KnownStored(r, g, k) ==
  /\ r.kind = "head" => (k >= 4 => g.bytes = r.bytes) /\ (k >= 5 => g.has = r.has)
  /\ r.kind = "store_head" => (k >= 4 => g.has = r.has)

Known(r, g, k) ==
  /\ g \in Decoded /\ IsRecord(g) /\ g.kind = r.kind
  /\ IF r.kind = "manifest" THEN KnownManifest(r, g, k) ELSE KnownStored(r, g, k)

(* What it knows with one field more, its name expected and its value v.   *)
Learn(g, name, v) ==
  CASE name = "flags" -> [g EXCEPT !.has = v]
    [] name = "signers" -> [g EXCEPT !.signers = v]
    [] name = "linked" -> [g EXCEPT !.linked = v]
    [] name = "user_data" \/ (name = "signature" /\ g.kind # "manifest") ->
         [g EXCEPT !.bytes = v]
    [] OTHER -> g

LEMMA LearnIs ==
  ASSUME NEW g \in Decoded, NEW v
  PROVE  /\ Learn(g, "flags", v) = [g EXCEPT !.has = v]
         /\ Learn(g, "signers", v) = [g EXCEPT !.signers = v]
         /\ Learn(g, "linked", v) = [g EXCEPT !.linked = v]
         /\ Learn(g, "user_data", v) = [g EXCEPT !.bytes = v]
         /\ g.kind # "manifest" => Learn(g, "signature", v) = [g EXCEPT !.bytes = v]
         /\ \A name : name \notin Telling /\ ~(name = "signature" /\ g.kind # "manifest")
                        => Learn(g, name, v) = g
BY DEF Learn, Telling

LEMMA EditsRight ==
  ASSUME NEW g \in Decoded, IsRecord(g)
  PROVE  /\ \A v : v \subseteq Options[g.kind] =>
              LET h == [g EXCEPT !.has = v] IN
              /\ h \in Decoded /\ IsRecord(h) /\ h.kind = g.kind /\ h.has = v
              /\ h.signers = g.signers /\ h.linked = g.linked /\ h.bytes = g.bytes
         /\ g.kind = "manifest" => \A v \in Nat :
              LET h == [g EXCEPT !.signers = v] IN
              /\ h \in Decoded /\ IsRecord(h) /\ h.kind = g.kind /\ h.has = g.has
              /\ h.signers = v /\ h.linked = g.linked /\ h.bytes = g.bytes
         /\ g.kind = "manifest" => \A v \in Nat :
              LET h == [g EXCEPT !.linked = v] IN
              /\ h \in Decoded /\ IsRecord(h) /\ h.kind = g.kind /\ h.has = g.has
              /\ h.signers = g.signers /\ h.linked = v /\ h.bytes = g.bytes
         /\ \A v \in Nat :
              LET h == [g EXCEPT !.bytes = v] IN
              /\ h \in Decoded /\ IsRecord(h) /\ h.kind = g.kind /\ h.has = g.has
              /\ h.signers = g.signers /\ h.linked = g.linked /\ h.bytes = v
<1>1. g.kind \in Kinds /\ g.width \in {1} /\ g.has \in SUBSET OptionNames
      /\ g.signers \in Nat /\ g.linked \in Nat /\ g.bytes \in Nat
  BY DEF Decoded
<1>2. ASSUME NEW v, v \subseteq Options[g.kind], NEW h, h = [g EXCEPT !.has = v]
      PROVE  /\ h \in Decoded /\ IsRecord(h) /\ h.kind = g.kind /\ h.has = v
             /\ h.signers = g.signers /\ h.linked = g.linked /\ h.bytes = g.bytes
  <2>1. v \in SUBSET OptionNames
    BY <1>1, <1>2 DEF OptionNames
  <2>2. /\ h.kind = g.kind /\ h.has = v /\ h.width = g.width
        /\ h.signers = g.signers /\ h.linked = g.linked /\ h.bytes = g.bytes
    BY <1>2 DEF Decoded
  <2>3. h \in Decoded
    BY <1>2, <2>1 DEF Decoded
  <2>4. IsRecord(h)
    BY <1>2, <2>2 DEF IsRecord
  <2>5. QED
    BY <2>2, <2>3, <2>4
<1>3. ASSUME g.kind = "manifest", NEW v \in Nat, NEW h, h = [g EXCEPT !.signers = v]
      PROVE  /\ h \in Decoded /\ IsRecord(h) /\ h.kind = g.kind /\ h.has = g.has
             /\ h.signers = v /\ h.linked = g.linked /\ h.bytes = g.bytes
  <2>1. /\ h.kind = g.kind /\ h.has = g.has /\ h.width = g.width
        /\ h.signers = v /\ h.linked = g.linked /\ h.bytes = g.bytes
    BY <1>3 DEF Decoded
  <2>2. h \in Decoded
    BY <1>3 DEF Decoded
  <2>3. IsRecord(h)
    BY <1>3, <2>1 DEF IsRecord
  <2>4. QED
    BY <2>1, <2>2, <2>3
<1>4. ASSUME g.kind = "manifest", NEW v \in Nat, NEW h, h = [g EXCEPT !.linked = v]
      PROVE  /\ h \in Decoded /\ IsRecord(h) /\ h.kind = g.kind /\ h.has = g.has
             /\ h.signers = g.signers /\ h.linked = v /\ h.bytes = g.bytes
  <2>1. /\ h.kind = g.kind /\ h.has = g.has /\ h.width = g.width
        /\ h.signers = g.signers /\ h.linked = v /\ h.bytes = g.bytes
    BY <1>4 DEF Decoded
  <2>2. h \in Decoded
    BY <1>4 DEF Decoded
  <2>3. IsRecord(h)
    BY <1>4, <2>1 DEF IsRecord
  <2>4. QED
    BY <2>1, <2>2, <2>3
<1>5. ASSUME NEW v \in Nat, NEW h, h = [g EXCEPT !.bytes = v]
      PROVE  /\ h \in Decoded /\ IsRecord(h) /\ h.kind = g.kind /\ h.has = g.has
             /\ h.signers = g.signers /\ h.linked = g.linked /\ h.bytes = v
  <2>1. /\ h.kind = g.kind /\ h.has = g.has /\ h.width = g.width
        /\ h.signers = g.signers /\ h.linked = g.linked /\ h.bytes = v
    BY <1>5 DEF Decoded
  <2>2. h \in Decoded
    BY <1>5 DEF Decoded
  <2>3. IsRecord(h)
    BY <2>1 DEF IsRecord
  <2>4. QED
    BY <2>1, <2>2, <2>3
<1>6. QED
  BY <1>2, <1>3, <1>4, <1>5

(* The places of a manifest as far as it is known.                         *)
LEMMA KnownPlaces ==
  ASSUME NEW r, IsRecord(r), r.kind = "manifest", NEW g, NEW k \in Nat,
         Known(r, g, k), k < ManifestLength(g), k < ManifestLength(r)
  PROVE  /\ "linked" \in g.has /\ k + 1 = LinkedPlace(g) =>
              k >= 5 /\ "linked" \in r.has /\ LinkedPlace(g) = LinkedPlace(r)
         /\ "user_data" \in g.has /\ k + 1 = ManifestLength(g) =>
              k >= 5 /\ "user_data" \in r.has /\ ManifestLength(g) = ManifestLength(r)
         /\ k >= 5 => /\ g.has = r.has /\ g.signers = r.signers
                      /\ LinkedPlace(g) = LinkedPlace(r)
<1>1. IsRecord(g) /\ KnownManifest(r, g, k)
  BY DEF Known
<1>2. LinkedPlace(g) \in Nat /\ LinkedPlace(g) >= 6 /\ ManifestLength(g) \in Nat
  BY <1>1, PlacesAre
<1>3. ASSUME k >= 5
      PROVE  /\ g.has = r.has /\ g.signers = r.signers
             /\ LinkedPlace(g) = LinkedPlace(r)
  <2>1. g.has = r.has /\ g.signers = r.signers
    BY <1>1, <1>3 DEF KnownManifest
  <2>2. QED
    BY <2>1, LengthsAgree
<1>4. ASSUME "linked" \in g.has, k + 1 = LinkedPlace(g)
      PROVE  k >= 5 /\ "linked" \in r.has /\ LinkedPlace(g) = LinkedPlace(r)
  <2>1. k >= 5
    BY <1>2, <1>4
  <2>2. QED
    BY <1>3, <1>4, <2>1
<1>5. ASSUME "user_data" \in g.has, k + 1 = ManifestLength(g)
      PROVE  k >= 5 /\ "user_data" \in r.has /\ ManifestLength(g) = ManifestLength(r)
  <2>1. ManifestLength(g) >= 6
        /\ ("linked" \in g.has => ManifestLength(g) > LinkedPlace(g))
    BY <1>1, <1>5, LongManifest
  <2>2. k >= 5
    BY <1>2, <1>5, <2>1
  <2>3. g.has = r.has /\ g.signers = r.signers /\ LinkedPlace(g) = LinkedPlace(r)
    BY <1>3, <2>2
  <2>4. ASSUME "linked" \in r.has
        PROVE  g.linked = r.linked
    <3>1. k >= LinkedPlace(r)
      BY <1>2, <1>5, <2>1, <2>3, <2>4
    <3>2. QED
      BY <1>1, <2>4, <3>1 DEF KnownManifest
  <2>5. ManifestLength(g) = ManifestLength(r)
    BY <2>3, <2>4, LengthsAgree
  <2>6. QED
    BY <1>5, <2>2, <2>3, <2>5
<1>6. QED
  BY <1>3, <1>4, <1>5

LEMMA ManifestLearns ==
  ASSUME NEW r, IsRecord(r), r.kind = "manifest", NEW g, NEW k \in Nat,
         Known(r, g, k), k < ManifestLength(g), k < ManifestLength(r),
         NEW name, name = Fields(g)[k + 1].name,
         NEW v, v = Fields(r)[k + 1].value
  PROVE  Known(r, Learn(g, name, v), k + 1)
<1> DEFINE h == Learn(g, name, v)
           p == LinkedPlace(r)
           m == ManifestLength(r)
<1>1. /\ g \in Decoded /\ IsRecord(g) /\ g.kind = r.kind /\ g.kind = "manifest"
      /\ KnownManifest(r, g, k)
  BY DEF Known
<1>2. /\ p \in Nat /\ p >= 6 /\ m \in Nat /\ m >= 5
      /\ LinkedPlace(g) \in Nat /\ ManifestLength(g) \in Nat
      /\ "user_data" \in r.has => m >= 6
      /\ "user_data" \in r.has /\ "linked" \in r.has => m > p
      /\ "linked" \in r.has => p <= m
  BY <1>1, PlacesAre, LongManifest
<1>3. Len(Fields(g)) = ManifestLength(g) /\ Len(Fields(r)) = m
  BY <1>1, FieldsAre DEF StoredLength
<1>4. /\ name = "flags" => k + 1 = 2
      /\ name = "signers" => k + 1 = 5
      /\ name = "linked" => "linked" \in g.has /\ k + 1 = LinkedPlace(g)
      /\ name = "user_data" => "user_data" \in g.has /\ k + 1 = ManifestLength(g)
  <2>1. k + 1 \in 1..ManifestLength(g)
    BY <1>2
  <2>2. k + 1 \in 1..Len(Fields(g))
    BY <1>3, <2>1
  <2>3. QED
    BY <1>1, <2>2, NameTells
<1>5. r.has \subseteq Options[g.kind] /\ r.signers \in Nat /\ r.linked \in Nat
      /\ r.bytes \in Nat
  BY <1>1 DEF IsRecord
<1> SUFFICES Known(r, h, k + 1)
  OBVIOUS
<1> HIDE DEF h, p, m
<1>6. CASE name = "flags"
  <2>1. k + 1 = 2
    BY <1>4, <1>6
  <2>2. v = r.has
    BY <2>1, ManifestTells
  <2>3. h = [g EXCEPT !.has = r.has]
    BY <1>1, <1>6, <2>2, LearnIs DEF h
  <2>4. h \in Decoded /\ IsRecord(h) /\ h.kind = g.kind /\ h.has = r.has
    BY <1>1, <1>5, <2>3, EditsRight
  <2>5. KnownManifest(r, h, k + 1)
    <3>1. ~(k + 1 >= 5) /\ ~(k + 1 >= p) /\ ~(k + 1 >= m)
      BY <1>2, <2>1
    <3>2. QED
      BY <2>4, <3>1 DEF KnownManifest, p, m
  <2>6. QED
    BY <1>1, <2>4, <2>5 DEF Known
<1>7. CASE name = "signers"
  <2>1. k + 1 = 5
    BY <1>4, <1>7
  <2>2. v = r.signers
    BY <2>1, ManifestTells
  <2>3. h = [g EXCEPT !.signers = r.signers]
    BY <1>1, <1>7, <2>2, LearnIs DEF h
  <2>4. /\ h \in Decoded /\ IsRecord(h) /\ h.kind = g.kind /\ h.has = g.has
        /\ h.signers = r.signers
    BY <1>1, <1>5, <2>3, EditsRight
  <2>5. KnownManifest(r, h, k + 1)
    <3>1. ~(k + 1 >= p) /\ ("user_data" \in r.has => ~(k + 1 >= m)) /\ k >= 2
      BY <1>2, <2>1
    <3>2. g.has = r.has
      BY <1>1, <3>1 DEF KnownManifest
    <3>3. QED
      BY <2>4, <3>1, <3>2 DEF KnownManifest, p, m
  <2>6. QED
    BY <1>1, <2>4, <2>5 DEF Known
<1>8. CASE name = "linked"
  <2>1. "linked" \in g.has /\ k + 1 = LinkedPlace(g)
    BY <1>4, <1>8
  <2>2. k >= 5 /\ "linked" \in r.has /\ k + 1 = p
        /\ g.has = r.has /\ g.signers = r.signers
    BY <2>1, KnownPlaces DEF p, m
  <2>3. v = r.linked
    BY <2>2, ManifestTells DEF p
  <2>4. h = [g EXCEPT !.linked = r.linked]
    BY <1>1, <1>8, <2>3, LearnIs DEF h
  <2>5. /\ h \in Decoded /\ IsRecord(h) /\ h.kind = g.kind /\ h.has = g.has
        /\ h.signers = g.signers /\ h.linked = r.linked
    BY <1>1, <1>5, <2>4, EditsRight
  <2>6. KnownManifest(r, h, k + 1)
    <3>1. "user_data" \in r.has => ~(k + 1 >= m)
      BY <1>2, <2>2
    <3>2. QED
      BY <2>2, <2>5, <3>1 DEF KnownManifest, p, m
  <2>7. QED
    BY <1>1, <2>5, <2>6 DEF Known
<1>9. CASE name = "user_data"
  <2>1. "user_data" \in g.has /\ k + 1 = ManifestLength(g)
    BY <1>4, <1>9
  <2>2. /\ k >= 5 /\ "user_data" \in r.has /\ k + 1 = m
        /\ g.has = r.has /\ g.signers = r.signers
    BY <2>1, KnownPlaces DEF p, m
  <2>3. v = r.bytes
    BY <2>2, ManifestTells DEF m
  <2>4. h = [g EXCEPT !.bytes = r.bytes]
    BY <1>1, <1>9, <2>3, LearnIs DEF h
  <2>5. /\ h \in Decoded /\ IsRecord(h) /\ h.kind = g.kind /\ h.has = g.has
        /\ h.signers = g.signers /\ h.linked = g.linked /\ h.bytes = r.bytes
    BY <1>1, <1>5, <2>4, EditsRight
  <2>6. KnownManifest(r, h, k + 1)
    <3>1. "linked" \in r.has => k >= p
      BY <1>2, <2>2
    <3>2. "linked" \in r.has => g.linked = r.linked
      BY <1>1, <3>1 DEF KnownManifest, p
    <3>3. QED
      BY <2>2, <2>5, <3>2 DEF KnownManifest, p, m
  <2>7. QED
    BY <1>1, <2>5, <2>6 DEF Known
<1>10. CASE name \notin Telling
  <2>1. h = g
    BY <1>1, <1>10, LearnIs DEF h
  <2>2. k + 1 # 2 /\ k + 1 # 5
    BY <1>1, <1>10, ManifestTells DEF Telling
  <2>3. "linked" \in r.has => k + 1 # p
    <3>1. ASSUME "linked" \in r.has, k + 1 = p
          PROVE  FALSE
      <4>1. k >= 5
        BY <1>2, <3>1
      <4>2. "linked" \in g.has /\ LinkedPlace(g) = p
        BY <3>1, <4>1, KnownPlaces DEF p, m
      <4>3. name = "linked"
        BY <1>1, <3>1, <4>2, ManifestTells
      <4>4. QED
        BY <1>10, <4>3 DEF Telling
    <3>2. QED
      BY <3>1
  <2>4. "user_data" \in r.has => k + 1 # m
    <3>1. ASSUME "user_data" \in r.has, k + 1 = m
          PROVE  FALSE
      <4>1. k >= 5
        BY <1>2, <3>1
      <4>2. g.has = r.has /\ g.signers = r.signers
        BY <4>1, KnownPlaces DEF m
      <4>3. "linked" \in r.has => g.linked = r.linked
        <5>1. ASSUME "linked" \in r.has
              PROVE  k >= p
          BY <1>2, <3>1, <5>1
        <5>2. QED
          BY <1>1, <5>1 DEF KnownManifest, p
      <4>4. ManifestLength(g) = m
        BY <4>2, <4>3, LengthsAgree DEF m
      <4>5. name = "user_data"
        BY <1>1, <3>1, <4>2, <4>4, ManifestTells
      <4>6. QED
        BY <1>10, <4>5 DEF Telling
    <3>2. QED
      BY <3>1
  <2>5. KnownManifest(r, g, k + 1)
    <3>1. /\ k + 1 >= 2 => k >= 2
          /\ k + 1 >= 5 => k >= 5
          /\ "linked" \in r.has /\ k + 1 >= p => k >= p
          /\ "user_data" \in r.has /\ k + 1 >= m => k >= m
      BY <1>2, <2>2, <2>3, <2>4
    <3>2. QED
      BY <1>1, <3>1 DEF KnownManifest, p, m
  <2>6. QED
    BY <1>1, <2>1, <2>5 DEF Known
<1>11. QED
  BY <1>6, <1>7, <1>8, <1>9, <1>10 DEF Telling

LEMMA StoredLearns ==
  ASSUME NEW r, IsRecord(r), r.kind # "manifest", NEW g, NEW k \in Nat,
         Known(r, g, k), k < Len(Fields(g)), k < Len(Fields(r)),
         NEW name, name = Fields(g)[k + 1].name,
         NEW v, v = Fields(r)[k + 1].value
  PROVE  /\ Known(r, Learn(g, name, v), k + 1)
         /\ name \notin {"signers", "linked"}
<1> DEFINE h == Learn(g, name, v)
           F == Fields(g)
           G == Fields(r)
<1>1. /\ g \in Decoded /\ IsRecord(g) /\ g.kind = r.kind /\ g.kind # "manifest"
      /\ KnownStored(r, g, k)
  BY DEF Known
<1>2. StoredRight(g, F) /\ StoredRight(r, G)
  BY <1>1, StoredAre
<1>3. k + 1 \in 1..Len(F) /\ k + 1 \in 1..Len(G)
  <2>1. Len(F) \in Nat /\ Len(G) \in Nat
    BY <1>1, FieldsAre
  <2>2. QED
    BY <2>1
<1>4. r.has \subseteq Options[g.kind] /\ r.bytes \in Nat
  BY <1>1 DEF IsRecord
<1>5. /\ Flags(r.has).value = r.has /\ Flags(g.has).name = "flags"
      /\ Bytes("signature", r.bytes).value = r.bytes
      /\ Bytes("signature", g.bytes).name = "signature"
  BY DEF Flags, Bytes
<1> HIDE DEF h, F, G
<1>6. /\ r.kind = "head" => /\ G[4].value = r.bytes /\ G[5].value = r.has
                            /\ F[4].name = "signature" /\ F[5].name = "flags"
      /\ r.kind = "store_head" => G[4].value = r.has /\ F[4].name = "flags"
  BY <1>1, <1>2, <1>5 DEF StoredRight
<1>7. /\ name \notin {"signers", "linked", "user_data"}
      /\ name = "flags" => \/ r.kind = "head" /\ k + 1 = 5
                           \/ r.kind = "store_head" /\ k + 1 = 4
      /\ name = "signature" => r.kind = "head" /\ k + 1 = 4
  BY <1>1, <1>2, <1>3 DEF StoredRight, StoredTells, F
<1>8. v = G[k + 1].value /\ name = F[k + 1].name
  BY DEF F, G
<1>9. CASE name = "flags"
  <2>1. v = r.has
    BY <1>6, <1>7, <1>8, <1>9
  <2>2. h = [g EXCEPT !.has = r.has]
    BY <1>1, <1>9, <2>1, LearnIs DEF h
  <2>3. h \in Decoded /\ IsRecord(h) /\ h.kind = g.kind /\ h.has = r.has /\ h.bytes = g.bytes
    BY <1>1, <1>4, <2>2, EditsRight
  <2>4. KnownStored(r, h, k + 1)
    BY <1>1, <1>7, <1>9, <2>3 DEF KnownStored
  <2>5. QED
    BY <1>1, <1>7, <2>3, <2>4 DEF Known, h
<1>10. CASE name = "signature"
  <2>1. v = r.bytes /\ k + 1 = 4 /\ r.kind = "head"
    BY <1>6, <1>7, <1>8, <1>10
  <2>2. h = [g EXCEPT !.bytes = r.bytes]
    BY <1>1, <1>10, <2>1, LearnIs DEF h
  <2>3. h \in Decoded /\ IsRecord(h) /\ h.kind = g.kind /\ h.bytes = r.bytes
    BY <1>1, <1>4, <2>2, EditsRight
  <2>4. KnownStored(r, h, k + 1)
    BY <2>1, <2>3 DEF KnownStored
  <2>5. QED
    BY <1>1, <1>7, <2>3, <2>4 DEF Known, h
<1>11. CASE name \notin {"flags", "signature"}
  <2>1. name \notin Telling /\ name # "signature"
    BY <1>7, <1>11 DEF Telling
  <2>2. h = g
    BY <1>1, <2>1, LearnIs DEF h
  <2>3. /\ r.kind = "head" => k + 1 # 4 /\ k + 1 # 5
        /\ r.kind = "store_head" => k + 1 # 4
    BY <1>6, <1>8, <1>11
  <2>4. KnownStored(r, g, k + 1)
    <3>1. /\ r.kind = "head" => (k + 1 >= 4 => k >= 4) /\ (k + 1 >= 5 => k >= 5)
          /\ r.kind = "store_head" => (k + 1 >= 4 => k >= 4)
      BY <2>3
    <3>2. QED
      BY <1>1, <3>1 DEF KnownStored
  <2>5. QED
    BY <1>1, <1>7, <2>2, <2>4 DEF Known, h
<1>12. QED
  BY <1>9, <1>10, <1>11

(* A record is all that its fields tell.                                   *)
LEMMA FieldsSame ==
  ASSUME NEW r, IsRecord(r), NEW g \in Decoded, g.kind = r.kind,
         g.has = r.has, g.signers = r.signers,
         r.kind = "manifest" /\ "linked" \in r.has => g.linked = r.linked,
         r.kind = "manifest" /\ "user_data" \in r.has => g.bytes = r.bytes,
         r.kind = "head" => g.bytes = r.bytes
  PROVE  Fields([g EXCEPT !.width = r.width]) = Fields(r)
<1> DEFINE h == [g EXCEPT !.width = r.width]
<1>1. /\ h.kind = r.kind /\ h.has = r.has /\ h.width = r.width
      /\ h.signers = r.signers /\ h.linked = g.linked /\ h.bytes = g.bytes
  BY DEF Decoded
<1> HIDE DEF h
<1>2. r.kind \in {"tree_node", "head", "store_head", "store_core", "manifest"}
  BY DEF IsRecord, Kinds, StoredKinds
<1>3. \A name : Uint(h, name) = Uint(r, name)
  BY <1>1 DEF Uint
<1>4. CASE r.kind = "tree_node"
  <2>1. TreeNodeFields(h) = TreeNodeFields(r)
    BY <1>3 DEF TreeNodeFields
  <2>2. QED
    BY <1>1, <1>4, <2>1 DEF Fields, h
<1>5. CASE r.kind = "store_core"
  <2>1. StoreCoreFields(h) = StoreCoreFields(r)
    BY <1>3 DEF StoreCoreFields
  <2>2. QED
    BY <1>1, <1>5, <2>1 DEF Fields, h
<1>6. CASE r.kind = "head"
  <2>1. HeadFields(h) = HeadFields(r)
    BY <1>1, <1>3, <1>6 DEF HeadFields
  <2>2. QED
    BY <1>1, <1>6, <2>1 DEF Fields, h
<1>7. CASE r.kind = "store_head"
  <2>1. StoreHeadFields(h) = StoreHeadFields(r)
    BY <1>1, <1>3 DEF StoreHeadFields
  <2>2. QED
    BY <1>1, <1>7, <2>1 DEF Fields, h
<1>8. CASE r.kind = "manifest"
  <2>1. ManifestHead(h) = ManifestHead(r)
    BY <1>1, <1>3 DEF ManifestHead
  <2>2. SignerFields(h) = SignerFields(r)
    BY <1>3 DEF SignerFields
  <2>3. ManifestSigners(h) = ManifestSigners(r)
    BY <1>1, <2>2 DEF ManifestSigners
  <2>4. PrologueFields(h) = PrologueFields(r)
    BY <1>3 DEF PrologueFields
  <2>5. ManifestPrologue(h) = ManifestPrologue(r)
    BY <1>1, <2>4 DEF ManifestPrologue
  <2>6. ManifestLinked(h) = ManifestLinked(r)
    BY <1>1, <1>8 DEF ManifestLinked, Optional
  <2>7. ManifestUser(h) = ManifestUser(r)
    BY <1>1, <1>8 DEF ManifestUser, Optional
  <2>8. ManifestFields(h) = ManifestFields(r)
    BY <2>1, <2>3, <2>5, <2>6, <2>7, ManifestInParts
  <2>9. QED
    BY <1>1, <1>8, <2>8 DEF Fields, h
<1>9. QED
  BY <1>2, <1>4, <1>5, <1>6, <1>7, <1>8

(* A decoder that has read all it expects has read all there is.           *)
LEMMA KnownIsAll ==
  ASSUME NEW r, IsRecord(r), NEW g, NEW k \in Nat, Known(r, g, k),
         k = Len(Fields(g))
  PROVE  /\ k = Len(Fields(r)) /\ g.has = r.has /\ g.signers = r.signers
         /\ Fields([g EXCEPT !.width = r.width]) = Fields(r)
<1>1. g \in Decoded /\ IsRecord(g) /\ g.kind = r.kind
  BY DEF Known
<1>2. Len(Fields(g)) = StoredLength(g) /\ Len(Fields(r)) = StoredLength(r)
  BY <1>1, FieldsAre
<1>3. CASE r.kind = "manifest"
  <2>1. KnownManifest(r, g, k) /\ k = ManifestLength(g)
    BY <1>1, <1>2, <1>3 DEF Known, StoredLength
  <2>2. /\ LinkedPlace(g) \in Nat /\ LinkedPlace(g) >= 6
        /\ ManifestLength(g) >= 5
        /\ "linked" \in g.has => LinkedPlace(g) <= ManifestLength(g)
        /\ ManifestLength(r) \in Nat
    BY <1>1, PlacesAre
  <2>3. g.has = r.has /\ g.signers = r.signers
    BY <2>1, <2>2 DEF KnownManifest
  <2>4. LinkedPlace(g) = LinkedPlace(r)
    BY <2>3, LengthsAgree
  <2>5. "linked" \in r.has => g.linked = r.linked
    BY <2>1, <2>2, <2>3, <2>4 DEF KnownManifest
  <2>6. ManifestLength(g) = ManifestLength(r)
    BY <2>3, <2>5, LengthsAgree
  <2>7. "user_data" \in r.has => g.bytes = r.bytes
    BY <2>1, <2>2, <2>6 DEF KnownManifest
  <2>8. k = Len(Fields(r))
    BY <1>2, <1>3, <2>1, <2>6 DEF StoredLength
  <2>9. QED
    BY <1>1, <1>3, <2>3, <2>5, <2>7, <2>8, FieldsSame
<1>4. CASE r.kind # "manifest"
  <2>1. KnownStored(r, g, k)
    BY <1>4 DEF Known
  <2>2. g.signers = r.signers
    BY <1>1, <1>4 DEF IsRecord
  <2>3. r.kind \in {"tree_node", "head", "store_head", "store_core"}
    BY <1>4 DEF IsRecord, Kinds, StoredKinds
  <2>4. g.has = r.has /\ (r.kind = "head" => g.bytes = r.bytes)
    <3>1. CASE r.kind = "tree_node" \/ r.kind = "store_core"
      <4>1. Options[r.kind] = {}
        BY <3>1 DEF Options
      <4>2. g.has = {} /\ r.has = {}
        BY <1>1, <4>1 DEF IsRecord
      <4>3. QED
        BY <3>1, <4>2
    <3>2. CASE r.kind = "head"
      <4>1. k >= 5
        BY <1>1, <1>2, <3>2 DEF StoredLength
      <4>2. QED
        BY <2>1, <3>2, <4>1 DEF KnownStored
    <3>3. CASE r.kind = "store_head"
      <4>1. k >= 4
        BY <1>1, <1>2, <3>3 DEF StoredLength
      <4>2. QED
        BY <2>1, <3>3, <4>1 DEF KnownStored
    <3>4. QED
      BY <2>3, <3>1, <3>2, <3>3
  <2>5. k = Len(Fields(r))
    BY <1>1, <1>2, <2>3, <2>4 DEF StoredLength
  <2>6. QED
    BY <1>1, <1>4, <2>2, <2>4, <2>5, FieldsSame
<1>5. QED
  BY <1>3, <1>4

(* ... and each field as what it was encoded as.                           *)
LEMMA KnownOrder ==
  ASSUME NEW r, IsRecord(r), NEW g, NEW k \in Nat, Known(r, g, k),
         k = Len(Fields(g))
  PROVE  \A i \in DOMAIN Fields(r) : ReadOrder(g)[i] = Fields(r)[i].name
<1> DEFINE h == [g EXCEPT !.width = r.width]
<1>1. g \in Decoded /\ IsRecord(g)
  BY DEF Known
<1>2. /\ h.kind = g.kind /\ h.has = g.has /\ h.width = r.width
      /\ h.signers = g.signers /\ h.linked = g.linked /\ h.bytes = g.bytes
  BY <1>1 DEF Decoded
<1>3. Fields(h) = Fields(r)
  BY KnownIsAll
<1> HIDE DEF h
<1>4. IsRecord(h)
  BY <1>1, <1>2 DEF IsRecord
<1>5. ReadOrder(h) = ReadOrder(g)
  BY <1>2 DEF ReadOrder, HeadNames, StoreHeadNames, ManifestNames
<1>6. Fields(r) \in Seq(FieldSet)
  BY FieldsAre
<1>7. QED
  BY <1>3, <1>4, <1>5, <1>6, ReadOrderIs

-----------------------------------------------------------------------------
(* What holds between the calls of a codec.                                *)
EncodedOf(r, s, w, p) ==
  /\ IsRecord(r) /\ IsPrefix(s, Fields(r))
  /\ p = "idle" => s = <<>>
  /\ p = "stored" /\ w /\ (r.kind = "manifest" \/ r.bytes <= MaxSignature) =>
       s = Fields(r)

DecodingOf(r, s, g, p) ==
  p = "decode" =>
    g.fields \in Nat /\ g.fields <= Len(s) /\ Known(r, g.of, g.fields)

DecodedOf(r, s, g, p) ==
  p = "decoded" =>
    /\ s = Fields(r) /\ g.of.has = r.has /\ g.of.signers = r.signers
    /\ Fields([g.of EXCEPT !.width = r.width]) = s
    /\ \A i \in DOMAIN s : ReadOrder(g.of)[i] = s[i].name

(* An array is allocated only once its count is read.                      *)
PointersOf(r, g, m, p) ==
  /\ m = [signers |-> m.signers, linked |-> m.linked]
  /\ m.signers \in {"signers", Null} /\ m.linked \in {"linked", Null}
  /\ p = "decode" /\ r.kind = "manifest" =>
       /\ m.signers # Null => g.fields >= 5
       /\ m.linked # Null =>
            "linked" \in g.of.has /\ g.fields >= LinkedPlace(g.of)

OwnedOf(h, m, p) ==
  /\ h \ {"buf"} = {m.signers, m.linked} \ {Null}
  /\ "buf" \in h => p = "encode"

CodecInv ==
  /\ EncodedOf(record, stored, whole, pc)
  /\ DecodingOf(record, stored, got, pc)
  /\ DecodedOf(record, stored, got, pc)
  /\ PointersOf(record, got, manifest, pc)
  /\ OwnedOf(heap, manifest, pc)

LEMMA ZeroIsRecord ==
  ASSUME NEW kind \in Kinds
  PROVE  /\ IsRecord(ZeroRecord(kind)) /\ ZeroRecord(kind) \in Decoded
         /\ ZeroRecord(kind).kind = kind
<1>1. {} \in SUBSET OptionNames
  OBVIOUS
<1>2. QED
  BY <1>1 DEF IsRecord, ZeroRecord, Decoded

LEMMA CodecInvInit == Init => CodecInv
<1> SUFFICES ASSUME Init
             PROVE  CodecInv
  OBVIOUS
<1>1. IsRecord(record)
  BY RecordsAssumption DEF Init
<1>2. EncodedOf(record, stored, whole, pc)
  BY <1>1, FieldsAre, PrefixNone DEF Init, EncodedOf
<1>3. DecodingOf(record, stored, got, pc) /\ DecodedOf(record, stored, got, pc)
  BY DEF Init, DecodingOf, DecodedOf
<1>4. PointersOf(record, got, manifest, pc) /\ OwnedOf(heap, manifest, pc)
  BY DEF Init, PointersOf, OwnedOf, ZeroManifest
<1>5. QED
  BY <1>2, <1>3, <1>4 DEF CodecInv

(* A step neither into nor out of decoding.                                *)
LEMMA QuietStep ==
  ASSUME CodecInv, pc' \notin {"decode", "decoded"},
         EncodedOf(record', stored', whole', pc'),
         manifest' = manifest,
         OwnedOf(heap', manifest', pc')
  PROVE  CodecInv'
<1>1. DecodingOf(record', stored', got', pc') /\ DecodedOf(record', stored', got', pc')
  BY DEF DecodingOf, DecodedOf
<1>2. PointersOf(record', got', manifest', pc')
  BY DEF CodecInv, PointersOf
<1>3. QED
  BY <1>1, <1>2 DEF CodecInv

LEMMA CallEncodeStep == CodecInv /\ CallEncode => CodecInv'
<1> SUFFICES ASSUME CodecInv, CallEncode
             PROVE  CodecInv'
  OBVIOUS
<1>1. EncodedOf(record', stored', whole', pc')
  BY DEF CodecInv, EncodedOf, CallEncode
<1>2. OwnedOf(heap', manifest', pc')
  BY DEF CodecInv, OwnedOf, CallEncode
<1>3. QED
  BY <1>1, <1>2, QuietStep DEF CallEncode

LEMMA CallHashStep == CodecInv /\ (CallHash \/ HashFails) => CodecInv'
<1> SUFFICES ASSUME CodecInv, CallHash \/ HashFails
             PROVE  CodecInv'
  OBVIOUS
<1>1. EncodedOf(record', stored', whole', pc')
  BY DEF CodecInv, EncodedOf, CallHash, HashFails
<1>2. OwnedOf(heap', manifest', pc')
  BY DEF CodecInv, OwnedOf, CallHash, HashFails
<1>3. QED
  BY <1>1, <1>2, QuietStep DEF CallHash, HashFails

LEMMA EncodeFieldStep == CodecInv /\ EncodeField => CodecInv'
<1> SUFFICES ASSUME CodecInv, EncodeField
             PROVE  CodecInv'
  OBVIOUS
<1>1. IsRecord(record) /\ IsPrefix(stored, Fields(record))
  BY DEF CodecInv, EncodedOf
<1>2. /\ stored' = Append(stored, Fields(record)[Len(stored) + 1])
      /\ Len(stored) < Len(Fields(record)) /\ record' = record /\ pc' = "encode"
  BY DEF EncodeField, ToWrite, Written
<1>3. IsPrefix(stored', Fields(record))
  BY <1>1, <1>2, FieldsAre, PrefixGrows
<1>4. EncodedOf(record', stored', whole', pc')
  BY <1>1, <1>2, <1>3 DEF EncodedOf
<1>5. OwnedOf(heap', manifest', pc')
  BY DEF CodecInv, OwnedOf, EncodeField
<1>6. QED
  BY <1>2, <1>4, <1>5, QuietStep DEF EncodeField

LEMMA EncodeStopsStep == CodecInv /\ EncodeStops => CodecInv'
<1> SUFFICES ASSUME CodecInv, EncodeStops
             PROVE  CodecInv'
  OBVIOUS
<1>1. IsRecord(record) /\ IsPrefix(stored, Fields(record))
  BY DEF CodecInv, EncodedOf
<1>2. ~(IsManifest \/ record.bytes <= MaxSignature)
  BY <1>1, RoomForField DEF EncodeStops, Written, ToWrite
<1>3. EncodedOf(record', stored', whole', pc')
  BY <1>1, <1>2 DEF EncodedOf, EncodeStops, IsManifest
<1>4. OwnedOf(heap', manifest', pc')
  BY DEF CodecInv, OwnedOf, EncodeStops
<1>5. pc' \notin {"decode", "decoded"}
  BY DEF EncodeStops
<1>6. QED
  BY <1>3, <1>4, <1>5, QuietStep DEF EncodeStops

LEMMA EncodeReturnsStep == CodecInv /\ EncodeReturns => CodecInv'
<1> SUFFICES ASSUME CodecInv, EncodeReturns
             PROVE  CodecInv'
  OBVIOUS
<1>1. IsRecord(record) /\ IsPrefix(stored, Fields(record))
  BY DEF CodecInv, EncodedOf
<1>2. stored = Fields(record)
  <2>1. Len(stored) = Len(Fields(record))
    BY DEF EncodeReturns, Written, ToWrite
  <2>2. QED
    BY <1>1, <2>1, FieldsAre, PrefixIs
<1>3. EncodedOf(record', stored', whole', pc')
  BY <1>1, <1>2 DEF EncodedOf, EncodeReturns
<1>4. OwnedOf(heap', manifest', pc')
  BY DEF CodecInv, OwnedOf, EncodeReturns
<1>5. QED
  BY <1>3, <1>4, QuietStep DEF EncodeReturns

LEMMA CutStep == CodecInv /\ Cut => CodecInv'
<1> SUFFICES ASSUME CodecInv, Cut
             PROVE  CodecInv'
  OBVIOUS
<1>1. IsRecord(record) /\ IsPrefix(stored, Fields(record))
  BY DEF CodecInv, EncodedOf
<1>2. PICK n \in 0..Len(stored) - 1 : stored' = SubSeq(stored, 1, n)
  BY DEF Cut, Written
<1>3. IsPrefix(stored', Fields(record))
  BY <1>1, <1>2, FieldsAre, PrefixCut
<1>4. EncodedOf(record', stored', whole', pc')
  BY <1>1, <1>3 DEF EncodedOf, Cut
<1>5. OwnedOf(heap', manifest', pc')
  BY DEF CodecInv, OwnedOf, Cut
<1>6. QED
  BY <1>4, <1>5, QuietStep DEF Cut

LEMMA CallDecodeStep == CodecInv /\ CallDecode => CodecInv'
<1> SUFFICES ASSUME CodecInv, CallDecode
             PROVE  CodecInv'
  OBVIOUS
<1>1. IsRecord(record) /\ IsPrefix(stored, Fields(record))
  BY DEF CodecInv, EncodedOf
<1>2. EncodedOf(record', stored', whole', pc')
  BY <1>1 DEF EncodedOf, CallDecode
<1> DEFINE z == ZeroRecord(record.kind)
<1>3. IsRecord(z) /\ z \in Decoded /\ z.kind = record.kind
  BY <1>1, ZeroIsRecord DEF IsRecord
<1> HIDE DEF z
<1>4. got' = [fields |-> 0, of |-> z]
  BY DEF CallDecode, z
<1>5. Known(record, z, 0)
  <2>1. LinkedPlace(record) >= 6 /\ ManifestLength(record) >= 5
        /\ LinkedPlace(record) \in Nat /\ ManifestLength(record) \in Nat
    BY <1>1, PlacesAre
  <2>2. KnownManifest(record, z, 0) /\ KnownStored(record, z, 0)
    BY <2>1 DEF KnownManifest, KnownStored
  <2>3. QED
    BY <1>3, <2>2 DEF Known
<1>6. Len(stored) \in Nat
  BY <1>1, FieldsAre, PrefixIs
<1>7. DecodingOf(record', stored', got', pc')
  BY <1>4, <1>5, <1>6 DEF DecodingOf, CallDecode
<1>8. DecodedOf(record', stored', got', pc')
  BY DEF DecodedOf, CallDecode
<1>9. PointersOf(record', got', manifest', pc')
  BY DEF PointersOf, CallDecode, ZeroManifest
<1>10. OwnedOf(heap', manifest', pc')
  BY DEF CodecInv, OwnedOf, CallDecode
<1>11. QED
  BY <1>2, <1>7, <1>8, <1>9, <1>10 DEF CodecInv

(* What is read is what the encoder wrote there.                           *)
LEMMA ReadKnows ==
  ASSUME CodecInv, Read
  PROVE  /\ got'.fields = got.fields + 1
         /\ Known(record, got'.of, got'.fields)
         /\ got.fields + 1 <= Len(stored)
         /\ got.fields \in Nat
         /\ record.kind # "manifest" => Expected \notin {"signers", "linked"}
<1> DEFINE k == got.fields
           g == got.of
           F == Fields(record)
           name == Fields(g)[k + 1].name
           v == F[k + 1].value
<1>1. pc = "decode" /\ k < Len(ReadOrder(g)) /\ k < Len(stored)
  BY DEF Read, AtField, ToRead
<1>2. k \in Nat /\ k <= Len(stored) /\ Known(record, g, k)
  BY <1>1 DEF CodecInv, DecodingOf
<1>3. /\ Len(ReadOrder(g)) = Len(Fields(g)) /\ Len(Fields(g)) \in Nat
       /\ \A i \in 1..Len(Fields(g)) : ReadOrder(g)[i] = Fields(g)[i].name
  BY <1>2, ReadOrderIs, FieldsAre DEF Known
<1>4. k < Len(Fields(g)) /\ k < Len(stored)
  BY <1>1, <1>3
<1>5. IsRecord(record) /\ IsPrefix(stored, F)
  BY DEF CodecInv, EncodedOf
<1>6. Len(stored) \in Nat /\ Len(stored) <= Len(F) /\ Len(F) \in Nat
      /\ stored = [i \in 1..Len(stored) |-> F[i]]
  BY <1>5, FieldsAre, PrefixIs
<1>7. k + 1 \in 1..Len(stored) /\ k < Len(F)
  BY <1>4, <1>2, <1>6
<1>8. Found = F[k + 1]
  BY <1>6, <1>7 DEF Found
<1>9. Expected = name /\ Found.value = v
  <2>1. k + 1 \in 1..Len(Fields(g))
    BY <1>4, <1>2, <1>3
  <2>2. QED
    BY <1>8, <1>3, <2>1 DEF Expected, ToRead
<1>10. g \in Decoded /\ IsRecord(g) /\ g.kind = record.kind
  BY <1>2 DEF Known
<1>11. Learnt = Learn(g, Expected, Found.value)
  <2>1. IsManifest <=> g.kind = "manifest"
    BY <1>10 DEF IsManifest
  <2>2. QED
    BY <2>1 DEF Learnt, Learn
<1>12. got' = [fields |-> k + 1, of |-> Learnt]
  BY DEF Read
<1> HIDE DEF name, v, F, k, g
<1>13. Learnt = Learn(g, name, v)
  BY <1>9, <1>11
<1>14. Known(record, Learn(g, name, v), k + 1)
       /\ (record.kind # "manifest" => name \notin {"signers", "linked"})
  <2>1. CASE record.kind = "manifest"
    <3>1. Len(Fields(g)) = ManifestLength(g) /\ Len(F) = ManifestLength(record)
      BY <1>5, <1>10, <2>1, FieldsAre DEF StoredLength, F
    <3>2. k < ManifestLength(g) /\ k < ManifestLength(record)
      BY <1>4, <1>7, <3>1
    <3>3. Known(record, Learn(g, name, v), k + 1)
      BY <1>2, <1>5, <2>1, <3>2, ManifestLearns DEF name, v, F
    <3>4. QED
      BY <2>1, <3>3
  <2>2. CASE record.kind # "manifest"
    <3>1. Known(record, Learn(g, name, v), k + 1) /\ name \notin {"signers", "linked"}
      BY <1>4, <1>2, <1>5, <1>7, <2>2, StoredLearns DEF name, v, F
    <3>2. QED
      BY <3>1
  <2>3. QED
    BY <2>1, <2>2
<1>15. QED
  BY <1>2, <1>7, <1>9, <1>12, <1>13, <1>14 DEF k

(* Where a decoder of a manifest is, by the field that it expects; the     *)
(* fields after the first five tell nothing about the places.              *)
ExpectedAt(g, k, name) ==
  /\ name = "flags" => k = 1
  /\ name = "signers" => k = 4
  /\ name = "linked" => "linked" \in g.has /\ k + 1 = LinkedPlace(g)

SamePlaces(g, h) ==
  h.has = g.has /\ h.signers = g.signers /\ LinkedPlace(h) = LinkedPlace(g)

LEMMA ReadPlaces ==
  ASSUME CodecInv, Read, IsManifest
  PROVE  /\ ExpectedAt(got.of, got.fields, Expected)
         /\ Expected \notin {"flags", "signers"} => SamePlaces(got.of, got'.of)
         /\ LinkedPlace(got.of) \in Nat /\ LinkedPlace(got.of) >= 6
<1> DEFINE g == got.of
           k == got.fields
           v == Found.value
<1>1. pc = "decode" /\ k < Len(ReadOrder(g)) /\ k \in Nat /\ Known(record, g, k)
  BY DEF Read, AtField, ToRead, CodecInv, DecodingOf
<1>2. /\ Len(ReadOrder(g)) = Len(Fields(g))
       /\ \A i \in 1..Len(Fields(g)) : ReadOrder(g)[i] = Fields(g)[i].name
  BY <1>1, ReadOrderIs DEF Known
<1>3. k < Len(Fields(g)) /\ k \in Nat /\ Known(record, g, k)
  BY <1>1, <1>2
<1>4. g \in Decoded /\ IsRecord(g) /\ g.kind = "manifest"
  BY <1>3 DEF Known, IsManifest
<1>5. got'.of = Learn(g, Expected, v)
  BY <1>4 DEF Read, Learnt, Learn, IsManifest
<1>6. k + 1 \in 1..Len(Fields(g))
  BY <1>3, <1>4, FieldsAre
<1>7. Expected = Fields(g)[k + 1].name
  BY <1>6, <1>2 DEF Expected, ToRead
<1>8. LinkedPlace(g) \in Nat /\ LinkedPlace(g) >= 6
  BY <1>4, PlacesAre
<1> HIDE DEF g, k, v
<1>9. ExpectedAt(g, k, Expected)
  <2>1. /\ Expected = "flags" => k + 1 = 2
        /\ Expected = "signers" => k + 1 = 5
        /\ Expected = "linked" => "linked" \in g.has /\ k + 1 = LinkedPlace(g)
    BY <1>4, <1>7, <1>6, ManifestTells
  <2>2. QED
    BY <1>3, <2>1 DEF ExpectedAt
<1>10. ASSUME Expected \notin {"flags", "signers"}
      PROVE  SamePlaces(g, got'.of)
  <2>1. \/ got'.of = g
        \/ got'.of = [g EXCEPT !.linked = v]
        \/ got'.of = [g EXCEPT !.bytes = v]
    <3>1. CASE Expected = "linked"
      BY <1>4, <1>5, <3>1, LearnIs
    <3>2. CASE Expected = "user_data"
      BY <1>4, <1>5, <3>2, LearnIs
    <3>3. CASE Expected \notin {"linked", "user_data"}
      BY <1>4, <1>5, <1>10, <3>3, LearnIs DEF Telling
    <3>4. QED
      BY <3>1, <3>2, <3>3
  <2>2. got'.of.has = g.has /\ got'.of.signers = g.signers
    BY <1>4, <2>1 DEF Decoded
  <2>3. QED
    BY <2>2, LengthsAgree DEF SamePlaces
<1>11. QED
  BY <1>8, <1>9, <1>10 DEF g, k

LEMMA DecodingStep ==
  ASSUME CodecInv, Read, UNCHANGED <<record, stored, whole, pc>>
  PROVE  /\ EncodedOf(record', stored', whole', pc')
         /\ DecodingOf(record', stored', got', pc')
         /\ DecodedOf(record', stored', got', pc')
<1>1. pc = "decode" /\ pc' = "decode"
  BY DEF Read, AtField
<1>2. EncodedOf(record', stored', whole', pc')
  BY DEF CodecInv
<1>3. got'.fields = got.fields + 1 /\ Known(record, got'.of, got'.fields)
      /\ got.fields + 1 <= Len(stored) /\ got.fields \in Nat
  BY ReadKnows
<1>4. got'.fields \in Nat /\ got'.fields <= Len(stored)
  BY <1>3
<1>5. DecodingOf(record', stored', got', pc')
  BY <1>3, <1>4 DEF DecodingOf
<1>6. DecodedOf(record', stored', got', pc')
  BY <1>1 DEF DecodedOf
<1>7. QED
  BY <1>2, <1>5, <1>6

LEMMA DecodeFieldStep == CodecInv /\ DecodeField => CodecInv'
<1> SUFFICES ASSUME CodecInv, DecodeField
             PROVE  CodecInv'
  OBVIOUS
<1>1. /\ Read /\ Expected \notin {"signers", "linked"}
      /\ UNCHANGED <<record, stored, whole, manifest, heap, pc>>
  BY DEF DecodeField
<1>2. pc = "decode" /\ PointersOf(record, got, manifest, pc)
  BY <1>1 DEF Read, AtField, CodecInv
<1>3. OwnedOf(heap', manifest', pc')
  BY <1>1 DEF CodecInv
<1>4. got'.fields = got.fields + 1 /\ got.fields \in Nat
  BY <1>1, ReadKnows
<1>5. ASSUME IsManifest, manifest.linked # Null
      PROVE  "linked" \in got'.of.has /\ got'.fields >= LinkedPlace(got'.of)
  <2>1. "linked" \in got.of.has /\ got.fields >= LinkedPlace(got.of)
    BY <1>2, <1>5 DEF PointersOf, IsManifest
  <2>2. /\ ExpectedAt(got.of, got.fields, Expected)
        /\ Expected \notin {"flags", "signers"} => SamePlaces(got.of, got'.of)
        /\ LinkedPlace(got.of) \in Nat /\ LinkedPlace(got.of) >= 6
    BY <1>1, <1>5, ReadPlaces
  <2>3. Expected # "flags"
    BY <1>4, <2>1, <2>2 DEF ExpectedAt
  <2>4. SamePlaces(got.of, got'.of)
    BY <1>1, <2>2, <2>3
  <2>5. QED
    BY <1>4, <2>1, <2>2, <2>4 DEF SamePlaces
<1>6. PointersOf(record', got', manifest', pc')
  <2>1. manifest = [signers |-> manifest.signers, linked |-> manifest.linked]
        /\ manifest.signers \in {"signers", Null} /\ manifest.linked \in {"linked", Null}
    BY <1>2 DEF PointersOf
  <2>2. IsManifest /\ manifest.signers # Null => got'.fields >= 5
    BY <1>2, <1>4 DEF PointersOf, IsManifest
  <2>3. QED
    BY <1>1, <1>5, <2>1, <2>2 DEF PointersOf, IsManifest
<1>7. QED
  BY <1>1, <1>3, <1>6, DecodingStep DEF CodecInv

(* The array of a count that is read is not there before.                  *)
LEMMA DecodeArrayStep == CodecInv /\ DecodeArray => CodecInv'
<1> SUFFICES ASSUME CodecInv, DecodeArray
             PROVE  CodecInv'
  OBVIOUS
<1>1. /\ Read /\ Expected \in {"signers", "linked"}
      /\ UNCHANGED <<record, stored, whole, pc>>
  BY DEF DecodeArray
<1>2. PICK cell \in {Expected, Null} :
        /\ manifest' = [manifest EXCEPT ![Expected] = cell]
        /\ heap' = heap \cup ({cell} \ {Null})
  BY DEF DecodeArray
<1>3. pc = "decode" /\ PointersOf(record, got, manifest, pc) /\ OwnedOf(heap, manifest, pc)
  BY <1>1 DEF Read, AtField, CodecInv
<1>4. got'.fields = got.fields + 1 /\ got.fields \in Nat /\ IsManifest
  BY <1>1, ReadKnows DEF IsManifest
<1>5. /\ ExpectedAt(got.of, got.fields, Expected)
      /\ Expected \notin {"flags", "signers"} => SamePlaces(got.of, got'.of)
      /\ LinkedPlace(got.of) \in Nat /\ LinkedPlace(got.of) >= 6
  BY <1>1, <1>4, ReadPlaces
<1>6. /\ manifest = [signers |-> manifest.signers, linked |-> manifest.linked]
      /\ manifest.signers \in {"signers", Null} /\ manifest.linked \in {"linked", Null}
      /\ manifest.signers # Null => got.fields >= 5
      /\ manifest.linked # Null => got.fields >= LinkedPlace(got.of)
  BY <1>3, <1>4 DEF PointersOf, IsManifest
<1>7. heap \ {"buf"} = {manifest.signers, manifest.linked} \ {Null}
      /\ "buf" \notin heap
  BY <1>3 DEF OwnedOf
<1>8. Null # "buf" /\ Null # "signers" /\ Null # "linked"
  BY NullAssumption
<1>9. CASE Expected = "signers"
  <2>1. got.fields = 4
    BY <1>5, <1>9 DEF ExpectedAt
  <2>2. manifest.signers = Null /\ manifest.linked = Null
    BY <1>5, <1>6, <2>1
  <2>3. manifest' = [signers |-> cell, linked |-> Null]
    BY <1>2, <1>6, <1>9, <2>2
  <2>4. heap' = {cell} \ {Null}
    BY <1>2, <1>7, <2>2
  <2>5. cell \in {"signers", Null}
    BY <1>2, <1>9
  <2>6. OwnedOf(heap', manifest', pc')
    BY <1>8, <2>3, <2>4, <2>5 DEF OwnedOf
  <2>7. got'.fields >= 5
    BY <1>4, <2>1
  <2>8. PointersOf(record', got', manifest', pc')
    BY <2>3, <2>5, <2>7 DEF PointersOf
  <2>9. QED
    BY <1>1, <2>6, <2>8, DecodingStep DEF CodecInv
<1>10. CASE Expected = "linked"
  <2>1. "linked" \in got.of.has /\ got.fields + 1 = LinkedPlace(got.of)
    BY <1>5, <1>10 DEF ExpectedAt
  <2>2. manifest.linked = Null
    BY <1>4, <1>5, <1>6, <2>1
  <2>3. manifest' = [signers |-> manifest.signers, linked |-> cell]
    BY <1>2, <1>6, <1>10
  <2>4. heap' = ({manifest.signers} \ {Null}) \cup ({cell} \ {Null})
    BY <1>2, <1>7, <2>2
  <2>5. cell \in {"linked", Null}
    BY <1>2, <1>10
  <2>6. OwnedOf(heap', manifest', pc')
    BY <1>6, <1>8, <2>3, <2>4, <2>5 DEF OwnedOf
  <2>7. SamePlaces(got.of, got'.of)
    BY <1>5, <1>10
  <2>8. /\ "linked" \in got'.of.has /\ got'.fields >= LinkedPlace(got'.of)
        /\ manifest.signers # Null => got'.fields >= 5
    BY <1>4, <1>5, <1>6, <2>1, <2>7 DEF SamePlaces
  <2>9. PointersOf(record', got', manifest', pc')
    BY <1>6, <2>3, <2>5, <2>8 DEF PointersOf
  <2>10. QED
    BY <1>1, <2>6, <2>9, DecodingStep DEF CodecInv
<1>11. QED
  BY <1>1, <1>9, <1>10

LEMMA DecodeReturnsStep == CodecInv /\ DecodeReturns => CodecInv'
<1> SUFFICES ASSUME CodecInv, DecodeReturns
             PROVE  CodecInv'
  OBVIOUS
<1> DEFINE k == got.fields
           g == got.of
<1>1. /\ pc = "decode" /\ k = Len(ReadOrder(g)) /\ pc' = "decoded"
      /\ UNCHANGED <<record, stored, whole, got, manifest, heap>>
  BY DEF DecodeReturns, ToRead
<1>2. k \in Nat /\ k <= Len(stored) /\ Known(record, g, k)
  BY <1>1 DEF CodecInv, DecodingOf
<1>3. /\ pc = "decode" /\ k = Len(Fields(g)) /\ pc' = "decoded"
      /\ UNCHANGED <<record, stored, whole, got, manifest, heap>>
  BY <1>1, <1>2, ReadOrderIs DEF Known
<1>4. IsRecord(record) /\ IsPrefix(stored, Fields(record))
  BY DEF CodecInv, EncodedOf
<1>5. k = Len(Fields(record)) /\ g.has = record.has /\ g.signers = record.signers
      /\ Fields([g EXCEPT !.width = record.width]) = Fields(record)
  BY <1>3, <1>2, <1>4, KnownIsAll
<1>6. stored = Fields(record)
  <2>1. Fields(record) \in Seq(FieldSet) /\ Len(Fields(record)) \in Nat
    BY <1>4, FieldsAre
  <2>2. Len(stored) \in Nat /\ Len(stored) <= Len(Fields(record))
        /\ (Len(stored) = Len(Fields(record)) => stored = Fields(record))
    BY <1>4, <2>1, PrefixIs
  <2>3. Len(stored) = Len(Fields(record))
    BY <1>2, <1>5, <2>1, <2>2
  <2>4. QED
    BY <2>2, <2>3
<1>7. \A i \in DOMAIN stored : ReadOrder(g)[i] = stored[i].name
  BY <1>3, <1>2, <1>4, <1>6, KnownOrder
<1>8. EncodedOf(record', stored', whole', pc')
  BY <1>3, <1>4 DEF EncodedOf
<1>9. DecodedOf(record', stored', got', pc') /\ DecodingOf(record', stored', got', pc')
  BY <1>3, <1>5, <1>6, <1>7 DEF DecodedOf, DecodingOf
<1>10. PointersOf(record', got', manifest', pc') /\ OwnedOf(heap', manifest', pc')
  BY <1>3 DEF CodecInv, PointersOf, OwnedOf
<1>11. QED
  BY <1>8, <1>9, <1>10 DEF CodecInv

(* hc_manifest_destroy leaves no pointer and no cell behind.               *)
LEMMA FreedIs ==
  ASSUME CodecInv, Freed
  PROVE  manifest' = ZeroManifest /\ heap' \ {"buf"} = {} /\ heap' \subseteq heap
<1>1. heap \ {"buf"} = {manifest.signers, manifest.linked} \ {Null}
  BY DEF CodecInv, OwnedOf
<1>2. heap' = heap \ {manifest.signers, manifest.linked} /\ manifest' = ZeroManifest
  BY DEF Freed
<1>3. QED
  BY <1>1, <1>2

LEMMA ZeroOwned ==
  ASSUME NEW h, h \ {"buf"} = {}, NEW p, "buf" \in h => p = "encode",
         NEW r, NEW g
  PROVE  PointersOf(r, g, ZeroManifest, p) /\ OwnedOf(h, ZeroManifest, p)
BY DEF PointersOf, OwnedOf, ZeroManifest

LEMMA DecodeFailsStep == CodecInv /\ DecodeFails => CodecInv'
<1> SUFFICES ASSUME CodecInv, DecodeFails
             PROVE  CodecInv'
  OBVIOUS
<1>1. pc = "decode" /\ Freed /\ pc' = "failed" /\ UNCHANGED <<record, stored, whole, got>>
  BY DEF DecodeFails, AtField
<1>2. manifest' = ZeroManifest /\ heap' \ {"buf"} = {} /\ heap' \subseteq heap
  BY <1>1, FreedIs
<1>3. "buf" \notin heap'
  BY <1>1, <1>2 DEF CodecInv, OwnedOf
<1>4. EncodedOf(record', stored', whole', pc')
  BY <1>1 DEF CodecInv, EncodedOf
<1>5. DecodingOf(record', stored', got', pc') /\ DecodedOf(record', stored', got', pc')
  BY <1>1 DEF DecodingOf, DecodedOf
<1>6. PointersOf(record', got', manifest', pc') /\ OwnedOf(heap', manifest', pc')
  BY <1>2, <1>3, ZeroOwned
<1>7. QED
  BY <1>4, <1>5, <1>6 DEF CodecInv

LEMMA InitSingleSignerStep == CodecInv /\ InitSingleSigner => CodecInv'
<1> SUFFICES ASSUME CodecInv, InitSingleSigner
             PROVE  CodecInv'
  OBVIOUS
<1> DEFINE z == ZeroRecord("manifest")
<1>1. IsRecord(z) /\ z \in Decoded /\ z.kind = "manifest"
  BY ZeroIsRecord DEF Kinds
<1> HIDE DEF z
<1>2. record' = [z EXCEPT !.signers = 1]
  BY DEF InitSingleSigner, z
<1>3. IsRecord(record')
  BY <1>1, <1>2, EditsRight
<1>4. /\ pc = "idle" /\ pc' = "idle" /\ stored' = stored
      /\ manifest = ZeroManifest
      /\ manifest' = [manifest EXCEPT !.signers = "signers"]
      /\ heap' = heap \cup {"signers"}
  BY DEF InitSingleSigner
<1>5. stored' = <<>>
  BY <1>4 DEF CodecInv, EncodedOf
<1>6. IsPrefix(stored', Fields(record'))
  BY <1>3, <1>5, FieldsAre, PrefixNone
<1>7. EncodedOf(record', stored', whole', pc')
  BY <1>3, <1>4, <1>5, <1>6 DEF EncodedOf
<1>8. DecodingOf(record', stored', got', pc') /\ DecodedOf(record', stored', got', pc')
  BY <1>4 DEF DecodingOf, DecodedOf
<1>9. manifest' = [signers |-> "signers", linked |-> Null]
  BY <1>4 DEF ZeroManifest
<1>10. PointersOf(record', got', manifest', pc')
  <2>1. manifest'.signers = "signers" /\ manifest'.linked = Null
    BY <1>9
  <2>2. manifest' = [signers |-> manifest'.signers, linked |-> manifest'.linked]
    BY <1>9, <2>1
  <2>3. pc' # "decode"
    BY <1>4
  <2>4. QED
    BY <2>1, <2>2, <2>3 DEF PointersOf
<1>11. heap \ {"buf"} = {} /\ "buf" \notin heap
  BY <1>4 DEF CodecInv, OwnedOf, ZeroManifest
<1>12. OwnedOf(heap', manifest', pc')
  BY <1>4, <1>9, <1>11, NullAssumption DEF OwnedOf
<1>13. QED
  BY <1>7, <1>8, <1>10, <1>12 DEF CodecInv

LEMMA ManifestDestroyStep == CodecInv /\ ManifestDestroy => CodecInv'
<1> SUFFICES ASSUME CodecInv, ManifestDestroy
             PROVE  CodecInv'
  OBVIOUS
<1>1. /\ pc \in {"stored", "decoded", "failed"} /\ Freed
      /\ UNCHANGED <<record, stored, whole, got, pc>>
  BY DEF ManifestDestroy
<1>2. manifest' = ZeroManifest /\ heap' \ {"buf"} = {} /\ heap' \subseteq heap
  BY <1>1, FreedIs
<1>3. "buf" \notin heap'
  BY <1>1, <1>2 DEF CodecInv, OwnedOf
<1>4. PointersOf(record', got', manifest', pc') /\ OwnedOf(heap', manifest', pc')
  BY <1>2, <1>3, ZeroOwned
<1>5. /\ EncodedOf(record', stored', whole', pc')
      /\ DecodingOf(record', stored', got', pc')
      /\ DecodedOf(record', stored', got', pc')
  BY <1>1 DEF CodecInv
<1>6. QED
  BY <1>4, <1>5 DEF CodecInv

LEMMA AgainStep == CodecInv /\ Again => CodecInv'
<1> SUFFICES ASSUME CodecInv, Again
             PROVE  CodecInv'
  OBVIOUS
<1>1. /\ pc \in {"decoded", "failed"} /\ manifest = ZeroManifest
      /\ stored' = <<>> /\ pc' = "idle" /\ UNCHANGED <<manifest, heap>>
  BY DEF Again
<1>2. IsRecord(record')
  BY RecordsAssumption DEF Again
<1>3. IsPrefix(stored', Fields(record'))
  BY <1>1, <1>2, FieldsAre, PrefixNone
<1>4. EncodedOf(record', stored', whole', pc')
  BY <1>1, <1>2, <1>3 DEF EncodedOf
<1>5. OwnedOf(heap', manifest', pc')
  BY <1>1 DEF CodecInv, OwnedOf
<1>6. QED
  BY <1>1, <1>4, <1>5, QuietStep

LEMMA CodecInvStep == CodecInv /\ [Next]_vars => CodecInv'
<1> SUFFICES ASSUME CodecInv, [Next]_vars
             PROVE  CodecInv'
  OBVIOUS
<1>1. ASSUME UNCHANGED vars
      PROVE  CodecInv'
  BY <1>1 DEF vars, CodecInv
<1>2. ASSUME Next
      PROVE  CodecInv'
  BY <1>2, CallEncodeStep, CallHashStep, EncodeFieldStep, EncodeStopsStep,
     EncodeReturnsStep, CutStep, CallDecodeStep, DecodeFieldStep,
     DecodeArrayStep, DecodeReturnsStep, DecodeFailsStep,
     InitSingleSignerStep, ManifestDestroyStep, AgainStep DEF Next
<1>3. QED
  BY <1>1, <1>2

(* What holds between the calls of a codec always does: the bytes are the  *)
(* first fields of the record, a decoder knows what of it was read, and    *)
(* the cells are the caller's.                                             *)
THEOREM CodecSafe == Spec => []CodecInv
BY CodecInvInit, CodecInvStep, PTL DEF Spec

(* Every record fits the buffer that include/hc/db.h encodes it into.      *)
THEOREM RecordsAlwaysFit == Spec => []RecordsFit
<1>1. CodecInv => RecordsFit
  BY DEF CodecInv, EncodedOf, RecordsFit
<1>2. QED
  BY <1>1, CodecSafe, PTL

(* What preencode counts is what encode writes, for every record.          *)
THEOREM SizesAlwaysAgree == Spec => []SizesAgree
<1>1. ASSUME CodecInv
      PROVE  SizesAgree
  <2>1. IsRecord(record) /\ IsPrefix(stored, Fields(record))
    BY <1>1 DEF CodecInv, EncodedOf
  <2>2. ASSUME pc = "encode", IsManifest, Written < Len(ToWrite)
        PROVE  HasRoom
    BY <2>1, <2>2, RoomForField DEF Written, ToWrite
  <2>3. ASSUME pc = "stored", whole, IsManifest
        PROVE  SizeOf(stored) = PreencodedSize(record)
    <3>1. stored = Fields(record)
      BY <1>1, <2>3 DEF CodecInv, EncodedOf, IsManifest
    <3>2. QED
      BY <2>1, <2>3, <3>1, FieldsAre DEF IsManifest
  <2>4. QED
    BY <2>2, <2>3 DEF SizesAgree
<1>2. QED
  BY <1>1, CodecSafe, PTL

(* A decoder that returns no error has read the record that was encoded,   *)
(* whatever of it was cut.                                                 *)
THEOREM DecodedAlwaysEncoded == Spec => []DecodedIsEncoded
<1>1. CodecInv => DecodedIsEncoded
  BY DEF CodecInv, DecodedOf, DecodedIsEncoded, ToRead
<1>2. QED
  BY <1>1, CodecSafe, PTL

(* Nothing leaks and nothing is freed that is still pointed to, however    *)
(* often manifests are decoded, made and destroyed.                        *)
THEOREM HeapAlwaysOwned == Spec => []HeapOwned
<1>1. CodecInv => HeapOwned
  BY DEF CodecInv, OwnedOf, HeapOwned
<1>2. QED
  BY <1>1, CodecSafe, PTL

=============================================================================
