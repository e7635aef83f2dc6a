-------------------------- MODULE MerkleTreeProofs --------------------------
(***************************************************************************)
(* The arithmetic of flat trees: what the roots of a length become when    *)
(* the length grows, which is what the merge loop of                       *)
(* hc_merkle_tree_append computes one leaf at a time; and facts about the  *)
(* operators and the steps of MerkleTree, for the proofs about the modules *)
(* that extend it.                                                         *)
(***************************************************************************)
EXTENDS MerkleTree, NumberProofs

(* A power of two divides every greater one.                               *)
LEMMA PowerDivides ==
  ASSUME NEW a \in Nat, NEW b \in Nat, a <= b
  PROVE  \E q \in Nat : q >= 1 /\ 2^b = q * 2^a
<1> DEFINE wrong == {c \in Nat : ~ \E q \in Nat : q >= 1 /\ 2^(a + c) = q * 2^a}
<1>1. CASE wrong = {}
  <2>1. b - a \in Nat /\ a + (b - a) = b
    OBVIOUS
  <2>2. b - a \notin wrong
    BY <1>1
  <2>3. QED
    BY <2>1, <2>2
<1>2. CASE wrong # {}
  <2>1. PICK c \in wrong : \A x \in wrong : c <= x
    BY <1>2, LeastNumber
  <2>2. c # 0
    <3>1. 2^a \in Nat /\ a + 0 = a
      BY PowerGrows
    <3>2. 2^(a + 0) = 1 * 2^a
      BY <3>1
    <3>3. QED
      BY <3>2
  <2>3. c - 1 \in Nat /\ c - 1 \notin wrong
    BY <2>1, <2>2
  <2>4. PICK q \in Nat : q >= 1 /\ 2^(a + (c - 1)) = q * 2^a
    BY <2>3
  <2>5. a + (c - 1) \in Nat /\ a + c = (a + (c - 1)) + 1
    BY <2>3
  <2>6. 2^(a + c) = 2 * 2^(a + (c - 1))
    BY <2>5, PowerDoubles
  <2>7. 2^a \in Nat
    BY PowerGrows
  <2> DEFINE w == 2^a
  <2> HIDE DEF w
  <2>8. 2^(a + c) = (2 * q) * w
    <3>1. 2^(a + c) = 2 * (q * w)
      BY <2>4, <2>6 DEF w
    <3>2. w \in Nat
      BY <2>7 DEF w
    <3>3. QED
      BY <3>1, <3>2
  <2>9. 2 * q \in Nat /\ 2 * q >= 1
    BY <2>4
  <2>10. c \notin wrong
    BY <2>8, <2>9 DEF w
  <2>11. QED
    BY <2>1, <2>10
<1>3. QED
  BY <1>1, <1>2

(* What is aligned to a power of two is a multiple of it.                  *)
LEMMA AlignedMultiple ==
  ASSUME NEW s \in Nat, NEW d \in Nat, s % 2^d = 0
  PROVE  \E q \in Nat : s = q * 2^d
<1> DEFINE w == 2^d
<1>1. w \in Nat /\ w > 0
  BY PowerGrows
<1> HIDE DEF w
<1>2. s % w = 0
  BY DEF w
<1>3. s \div w \in Nat /\ s = (s \div w) * w
  BY <1>1, <1>2, DivRest
<1>4. QED
  BY <1>3 DEF w

LEMMA MultipleAligned ==
  ASSUME NEW d \in Nat, NEW q \in Nat
  PROVE  (q * 2^d) % 2^d = 0 /\ (q * 2^d) \div 2^d = q
<1> DEFINE w == 2^d
<1>1. w \in Nat /\ w > 0
  BY PowerGrows
<1> HIDE DEF w
<1>2. (q * w) % w = 0 /\ (q * w) \div w = q
  <2>1. q * w \in Nat /\ q * w = q * w + 0
    BY <1>1
  <2>2. QED
    BY <1>1, <2>1, DivIs
<1>3. QED
  BY <1>2 DEF w

(* Alignment to a power is alignment to the smaller ones.                  *)
LEMMA AlignedBelow ==
  ASSUME NEW s \in Nat, NEW a \in Nat, NEW b \in Nat, a <= b, s % 2^b = 0
  PROVE  s % 2^a = 0
<1>1. PICK q \in Nat : s = q * 2^b
  BY AlignedMultiple
<1>2. PICK r \in Nat : 2^b = r * 2^a
  BY PowerDivides
<1> DEFINE w == 2^a
<1>3. w \in Nat
  BY PowerGrows
<1> HIDE DEF w
<1>4. s = (q * r) * w
  BY <1>1, <1>2, <1>3 DEF w
<1>5. q * r \in Nat
  OBVIOUS
<1>6. QED
  BY <1>4, <1>5, MultipleAligned DEF w

(* A node that spans 2^d leaves ends where its parent does not, or where   *)
(* its parent ends: it is a left or a right child.                         *)
LEMMA AlignedHalves ==
  ASSUME NEW s \in Nat, NEW d \in Nat, s % 2^d = 0
  PROVE  \/ s % 2^(d + 1) = 0 /\ (s \div 2^d) % 2 = 0
         \/ /\ (s \div 2^d) % 2 = 1
            /\ s - 2^d \in Nat
            /\ (s - 2^d) % 2^(d + 1) = 0
<1>1. PICK q \in Nat : s = q * 2^d
  BY AlignedMultiple
<1> DEFINE w == 2^d
<1>2. w \in Nat /\ w > 0 /\ 2^(d + 1) = 2 * w
  BY PowerGrows, PowerDoubles
<1>3. s \div w = q
  BY <1>1, MultipleAligned
<1> HIDE DEF w
<1>4. CASE q % 2 = 0
  <2>1. PICK k \in Nat : q = 2 * k
    BY <1>4
  <2>2. s = k * (2 * w) + 0
    BY <1>1, <1>2, <2>1 DEF w
  <2>3. s % (2 * w) = 0
    BY <1>2, <2>2, DivIs
  <2>4. QED
    BY <1>2, <1>3, <1>4, <2>3 DEF w
<1>5. CASE q % 2 = 1
  <2>1. PICK k \in Nat : q = 2 * k + 1
    BY <1>5
  <2>2. s = k * (2 * w) + w
    BY <1>1, <1>2, <2>1 DEF w
  <2>3. s - w = k * (2 * w) + 0 /\ s - w \in Nat
    BY <1>2, <2>2
  <2>4. (s - w) % (2 * w) = 0
    <3> DEFINE m == 2 * w
               n == s - w
    <3>1. m \in Nat /\ m > 0 /\ n \in Nat /\ n = k * m + 0
      BY <1>2, <2>3
    <3> HIDE DEF m, n
    <3>2. n % m = 0
      BY <3>1, DivIs
    <3>3. QED
      BY <3>2 DEF m, n
  <2>5. QED
    BY <1>2, <1>3, <1>5, <2>3, <2>4 DEF w
<1>6. QED
  BY <1>4, <1>5

-----------------------------------------------------------------------------
(* The roots of an aligned length are deeper than its alignment.           *)
LEMMA RootsAbove ==
  ASSUME NEW p \in Nat, NEW d \in Nat, p % 2^(d + 1) = 0,
         NEW e \in RootDepths(p)
  PROVE  e > d
<1>1. e \in Nat /\ (p \div 2^e) % 2 = 1
  BY DEF RootDepths, Depths
<1>2. SUFFICES ASSUME e <= d PROVE FALSE
  BY <1>1
<1>3. e + 1 \in Nat /\ p % 2^(e + 1) = 0
  <2>1. e + 1 \in Nat /\ d + 1 \in Nat /\ e + 1 <= d + 1
    BY <1>1, <1>2
  <2>2. QED
    BY <2>1, AlignedBelow
<1>4. PICK q \in Nat : p = q * 2^(e + 1)
  BY <1>3, AlignedMultiple
<1>5. 2^(e + 1) = 2 * 2^e /\ 2^e \in Nat
  BY <1>1, PowerGrows, PowerDoubles
<1> DEFINE w == 2^e
<1> HIDE DEF w
<1>6. p = (2 * q) * w
  <2>1. p = q * (2 * w) /\ w \in Nat
    BY <1>4, <1>5 DEF w
  <2>2. QED
    BY <2>1
<1>7. p \div 2^e = 2 * q
  BY <1>1, <1>6, MultipleAligned DEF w
<1>8. (2 * q) % 2 # 1
  OBVIOUS
<1>9. QED
  BY <1>1, <1>7, <1>8

(* The blocks of 2^(e+1) and of 2^e leaves that hold the leaf p also hold  *)
(* the subtree of depth d < e that begins there.                           *)
LEMMA SameBlock ==
  ASSUME NEW p \in Nat, NEW d \in Nat, NEW e \in Nat, d < e,
         p % 2^(d + 1) = 0
  PROVE  (p + 2^d) \div 2^e = p \div 2^e
<1>0. d + 1 \in Nat /\ d + 1 <= e
  OBVIOUS
<1>1. PICK k \in Nat : p = k * 2^(d + 1)
  BY <1>0, AlignedMultiple
<1>2. PICK q \in Nat : q >= 1 /\ 2^e = q * 2^(d + 1)
  BY <1>0, PowerDivides
<1> DEFINE h == 2^d
           w == 2^(d + 1)
<1>3. h \in Nat /\ h > 0 /\ w = 2 * h /\ w \in Nat /\ w > 0
  BY PowerGrows, PowerDoubles
<1> HIDE DEF h, w
<1> DEFINE a == k \div q
           b == k % q
<1>4. a \in Nat /\ b \in Nat /\ b < q /\ k = a * q + b
  BY <1>2, DivRest
<1> HIDE DEF a, b
<1>5. q * w \in Nat /\ q * w > 0
  BY <1>2, <1>3
<1>6. p = a * (q * w) + b * w
  <2>1. p = (a * q + b) * w
    BY <1>1, <1>4 DEF w
  <2>2. QED
    BY <1>3, <1>4, <2>1
<1>7. b * w \in Nat /\ b * w + h \in Nat /\ b * w + h < q * w
  <2>1. b * w \in Nat
    BY <1>3, <1>4
  <2>2. (b + 1) * w <= q * w
    BY <1>2, <1>3, <1>4
  <2>3. (b + 1) * w = b * w + w
    BY <1>3, <1>4
  <2>4. QED
    BY <1>3, <1>5, <2>1, <2>2, <2>3
<1>8. p \div (q * w) = a
  <2>1. b * w < q * w
    BY <1>3, <1>5, <1>7
  <2> DEFINE m == q * w
             r == b * w
  <2>2. m \in Nat /\ m > 0 /\ r \in Nat /\ r < m /\ p = a * m + r
    BY <1>5, <1>6, <1>7, <2>1
  <2> HIDE DEF m, r
  <2>3. p \div m = a
    BY <1>4, <2>2, DivIs
  <2>4. QED
    BY <2>3 DEF m
<1>9. (p + h) \div (q * w) = a
  <2> DEFINE m == q * w
             r == b * w + h
  <2>1. m \in Nat /\ m > 0 /\ r \in Nat /\ r < m
    BY <1>5, <1>7
  <2>2. p + h = a * m + r
    <3> DEFINE x == b * w
    <3>1. p = a * m + x /\ x \in Nat
      BY <1>6, <1>7
    <3>2. a * m \in Nat
      BY <1>4, <2>1
    <3>3. r = x + h
      OBVIOUS
    <3> HIDE DEF m, r, x
    <3>4. QED
      BY <1>3, <3>1, <3>2, <3>3
  <2>3. p + h \in Nat
    BY <1>3
  <2> HIDE DEF m, r
  <2>4. (p + h) \div m = a
    BY <1>4, <2>1, <2>2, <2>3, DivIs
  <2>5. QED
    BY <2>4 DEF m
<1>10. QED
  BY <1>2, <1>8, <1>9 DEF h, w

(* A subtree of depth d after an aligned length is one more root.          *)
LEMMA RootDepthsNext ==
  ASSUME NEW p \in Nat, NEW d \in Depths, p % 2^(d + 1) = 0
  PROVE  RootDepths(p + 2^d) = RootDepths(p) \cup {d} /\ d \notin RootDepths(p)
<1>1. /\ d \in Nat /\ d + 1 \in Nat /\ d <= d + 1
      /\ 2^d \in Nat /\ p + 2^d \in Nat
  BY PowerGrows DEF Depths
<1>2. d \notin RootDepths(p)
  BY <1>1, RootsAbove
<1>3. ASSUME NEW e \in Depths
      PROVE  e \in RootDepths(p + 2^d) <=> e \in RootDepths(p) \cup {d}
  <2>1. e \in Nat
    BY DEF Depths
  <2>2. CASE e > d
    <3>1. (p + 2^d) \div 2^e = p \div 2^e
      BY <1>1, <2>1, <2>2, SameBlock
    <3>2. e # d
      BY <1>1, <2>1, <2>2
    <3>3. QED
      BY <3>1, <3>2 DEF RootDepths
  <2>3. CASE e = d
    <3>1. PICK k \in Nat : p = k * 2^(d + 1)
      BY <1>1, AlignedMultiple
    <3> DEFINE h == 2^d
    <3>2. h \in Nat /\ 2^(d + 1) = 2 * h
      BY <1>1, PowerDoubles
    <3> HIDE DEF h
    <3>3. p + h = (2 * k + 1) * h
      BY <3>1, <3>2
    <3>4. (p + 2^d) \div 2^d = 2 * k + 1
      BY <1>1, <3>3, MultipleAligned DEF h
    <3>5. (2 * k + 1) % 2 = 1
      OBVIOUS
    <3>6. d \in RootDepths(p + 2^d)
      BY <3>4, <3>5 DEF RootDepths
    <3>7. QED
      BY <2>3, <3>6
  <2>4. CASE e < d
    <3>1. (p + 2^d) % 2^d = 0
      <4>1. p % 2^d = 0
        BY <1>1, AlignedBelow
      <4>2. PICK k \in Nat : p = k * 2^d
        BY <1>1, <4>1, AlignedMultiple
      <4>3. p + 2^d = (k + 1) * 2^d
        BY <1>1, <4>2
      <4>4. k + 1 \in Nat
        OBVIOUS
      <4>5. ((k + 1) * 2^d) % 2^d = 0
        BY <1>1, <4>4, MultipleAligned
      <4>6. QED
        BY <4>3, <4>5
    <3>2. d - 1 \in Nat /\ (d - 1) + 1 = d /\ e <= d - 1
      BY <1>1, <2>1, <2>4
    <3>3. (p + 2^d) % 2^((d - 1) + 1) = 0
      BY <3>1, <3>2
    <3>4. e \notin RootDepths(p + 2^d)
      BY <1>1, <2>1, <3>2, <3>3, RootsAbove
    <3>5. e \notin RootDepths(p)
      BY <1>1, <2>1, <2>4, RootsAbove
    <3>6. e # d
      BY <1>1, <2>1, <2>4
    <3>7. QED
      BY <3>4, <3>5, <3>6
  <2>5. QED
    BY <1>1, <2>1, <2>2, <2>3, <2>4
<1>4. RootDepths(p + 2^d) \subseteq Depths /\ RootDepths(p) \subseteq Depths
  BY DEF RootDepths
<1>5. QED
  BY <1>2, <1>3, <1>4

-----------------------------------------------------------------------------
(* Where a member stands in a finite set of numbers, from the greatest.    *)
Rank(D, e) == Cardinality({x \in D : x >= e})

(* Greater members stand before it.                                        *)
LEMMA RankOrder ==
  ASSUME NEW D \in SUBSET Nat, IsFiniteSet(D), NEW a \in D, NEW b \in D, a < b
  PROVE  Rank(D, b) < Rank(D, a) /\ Rank(D, a) \in Nat /\ Rank(D, b) \in Nat
<1> DEFINE A == {x \in D : x >= a}
           B == {x \in D : x >= b}
<1>1. IsFiniteSet(A)
  BY FS_Subset
<1>2. B \subseteq A /\ B # A
  <2>1. a \in Nat /\ b \in Nat
    OBVIOUS
  <2>2. a \in A /\ a \notin B
    BY <2>1
  <2>3. ASSUME NEW x \in D, x >= b
        PROVE  x >= a
    BY <2>1, <2>3
  <2>4. B \subseteq A
    BY <2>3
  <2>5. QED
    BY <2>2, <2>4
<1>3. QED
  BY <1>1, <1>2, FS_Subset, FS_CardinalityType DEF Rank

(* No two members stand in the same place.                                 *)
LEMMA RankUnique ==
  ASSUME NEW D \in SUBSET Nat, IsFiniteSet(D), NEW a \in D, NEW b \in D,
         Rank(D, a) = Rank(D, b)
  PROVE  a = b
<1>1. a \in Nat /\ b \in Nat
  OBVIOUS
<1>2. ~(a < b)
  BY RankOrder
<1>3. ~(b < a)
  BY RankOrder
<1>4. QED
  BY <1>1, <1>2, <1>3

(* Every place is taken: the first by the greatest, the next by the        *)
(* greatest of the others.                                                 *)
LEMMA RankTaken ==
  ASSUME NEW D \in SUBSET Nat, IsFiniteSet(D), NEW m \in Nat,
         \A x \in D : x <= m,
         NEW k \in 1..Cardinality(D)
  PROVE  \E e \in D : Rank(D, e) = k
<1> DEFINE wrong == {j \in Nat : j \in 1..Cardinality(D) /\
                                 ~ \E e \in D : Rank(D, e) = j}
<1>0. Cardinality(D) \in Nat
  BY FS_CardinalityType
<1>1. CASE wrong = {}
  BY <1>0, <1>1
<1>2. CASE wrong # {}
  <2>1. PICK j \in wrong : \A i \in wrong : j <= i
    BY <1>2, LeastNumber
  <2>2. j \in Nat /\ j >= 1 /\ j <= Cardinality(D)
    BY <1>0
  <2>3. CASE j = 1
    <3>1. D # {}
      BY <2>2, FS_EmptySet
    <3>2. PICK e \in D : \A y \in D : e >= y
      BY <3>1, GreatestNumber
    <3>3. {x \in D : x >= e} = {e}
      <4>1. ASSUME NEW x \in D
            PROVE  x >= e <=> x = e
        <5>1. x \in Nat /\ e \in Nat /\ e >= x
          BY <3>2
        <5>2. QED
          BY <5>1
      <4>2. QED
        BY <4>1
    <3>4. Rank(D, e) = 1
      BY <3>3, FS_Singleton DEF Rank
    <3>5. QED
      BY <2>3, <3>4
  <2>4. CASE j # 1
    <3>1. j - 1 \in Nat /\ j - 1 \in 1..Cardinality(D) /\ j - 1 < j
      BY <1>0, <2>2, <2>4
    <3>2. j - 1 \notin wrong
      BY <2>1, <2>2, <3>1
    <3>3. PICK a \in D : Rank(D, a) = j - 1
      BY <3>1, <3>2
    <3> DEFINE A == {x \in D : x >= a}
               rest == D \ A
    <3>4. IsFiniteSet(A) /\ A \subseteq D /\ Cardinality(A) = j - 1
      BY <3>3, FS_Subset DEF Rank
    <3>5. A # D
      BY <1>0, <2>2, <3>4
    <3>6. rest # {} /\ rest \subseteq Nat /\ \A y \in rest : y <= m
      BY <3>4, <3>5
    <3> HIDE DEF rest
    <3>7. PICK e \in rest : \A y \in rest : e >= y
      BY <3>6, GreatestNumber
    <3>8. e \in D /\ e \notin A
      BY DEF rest
    <3>9. {x \in D : x >= e} = A \cup {e}
      <4>1. a \in Nat /\ e \in Nat /\ e < a
        BY <3>8
      <4>2. ASSUME NEW x \in D
            PROVE  x >= e <=> x \in A \cup {e}
        <5>1. x \in Nat
          OBVIOUS
        <5>2. CASE x \in A
          BY <4>1, <5>1, <5>2
        <5>3. CASE x \notin A
          <6>1. x \in rest
            BY <5>3 DEF rest
          <6>2. e >= x
            BY <3>7, <6>1
          <6>3. QED
            BY <4>1, <5>1, <5>3, <6>2
        <5>4. QED
          BY <5>2, <5>3
      <4>3. QED
        BY <3>8, <4>2
    <3>10. Cardinality(A \cup {e}) = (j - 1) + 1
      BY <3>4, <3>8, FS_AddElement
    <3>11. Rank(D, e) = j
      BY <2>2, <3>9, <3>10 DEF Rank
    <3>12. QED
      BY <3>8, <3>11
  <2>5. QED
    BY <2>3, <2>4
<1>3. QED
  BY <1>1, <1>2

-----------------------------------------------------------------------------
(* The roots of a length are numbered by their depths, all of them.        *)
LEMMA RootDepthsFinite ==
  ASSUME NEW n \in Nat
  PROVE  /\ RootDepths(n) \in SUBSET Nat /\ IsFiniteSet(RootDepths(n))
         /\ \A x \in RootDepths(n) : x <= MaxDepth
         /\ RootCount(n) \in Nat
<1>1. RootDepths(n) \subseteq Depths /\ Depths \subseteq Nat
  BY MaxDepthAssumption DEF RootDepths, Depths
<1>2. IsFiniteSet(Depths)
  BY FS_Interval, MaxDepthAssumption DEF Depths
<1>3. IsFiniteSet(RootDepths(n))
  BY <1>1, <1>2, FS_Subset
<1>4. QED
  BY <1>1, <1>3, FS_CardinalityType, MaxDepthAssumption DEF RootCount, Depths

(* RootDepth(n, k) is the depth that stands in place k.                    *)
LEMMA RootDepthIs ==
  ASSUME NEW n \in Nat, NEW k \in 1..RootCount(n)
  PROVE  /\ RootDepth(n, k) \in RootDepths(n)
         /\ Rank(RootDepths(n), RootDepth(n, k)) = k
<1>1. \E e \in RootDepths(n) : Rank(RootDepths(n), e) = k
  BY RootDepthsFinite, RankTaken, MaxDepthAssumption DEF RootCount
<1>2. RootDepth(n, k) =
        CHOOSE e \in RootDepths(n) : Rank(RootDepths(n), e) = k
  BY DEF RootDepth, Rank
<1>3. QED
  BY <1>1, <1>2

(* And the only one.                                                       *)
LEMMA RootDepthOf ==
  ASSUME NEW n \in Nat, NEW e \in RootDepths(n),
         Rank(RootDepths(n), e) \in 1..RootCount(n)
  PROVE  RootDepth(n, Rank(RootDepths(n), e)) = e
<1> DEFINE k == Rank(RootDepths(n), e)
           D == RootDepths(n)
<1>1. D \in SUBSET Nat /\ IsFiniteSet(D)
  BY RootDepthsFinite
<1>2. k \in 1..RootCount(n)
  OBVIOUS
<1>3. RootDepth(n, k) \in D /\ Rank(D, RootDepth(n, k)) = k
  BY <1>2, RootDepthIs
<1>4. e \in D /\ Rank(D, e) = k
  OBVIOUS
<1> HIDE DEF k, D
<1>5. RootDepth(n, k) = e
  BY <1>1, <1>3, <1>4, RankUnique
<1>6. QED
  BY <1>5 DEF k, D

(* After an aligned length a subtree of 2^d leaves is one more root; the   *)
(* others stay where they are.                                             *)
LEMMA RootsNext ==
  ASSUME NEW p \in Nat, NEW d \in Depths, p % 2^(d + 1) = 0
  PROVE  /\ RootCount(p + 2^d) = RootCount(p) + 1
         /\ \A k \in 1..RootCount(p) :
              /\ RootDepth(p + 2^d, k) = RootDepth(p, k)
              /\ RootStart(p + 2^d, k) = RootStart(p, k)
         /\ RootDepth(p + 2^d, RootCount(p) + 1) = d
         /\ RootStart(p + 2^d, RootCount(p) + 1) = p
<1> DEFINE n == p + 2^d
           D == RootDepths(p)
           E == RootDepths(n)
<1>1. d \in Nat /\ d + 1 \in Nat /\ 2^d \in Nat /\ 2^d > 0 /\ n \in Nat
  BY PowerGrows DEF Depths
<1>2. E = D \cup {d} /\ d \notin D
  BY RootDepthsNext
<1>3. \A e \in D : e > d
  BY <1>1, RootsAbove
<1>4. /\ D \in SUBSET Nat /\ IsFiniteSet(D) /\ E \in SUBSET Nat
      /\ IsFiniteSet(E) /\ RootCount(p) \in Nat /\ RootCount(n) \in Nat
  BY <1>1, RootDepthsFinite
<1>5. RootCount(n) = RootCount(p) + 1
  BY <1>2, <1>4, FS_AddElement DEF RootCount
<1>6. ASSUME NEW e \in D
      PROVE  Rank(E, e) = Rank(D, e)
  <2>1. e \in Nat /\ e > d
    BY <1>3, <1>4
  <2>2. {x \in E : x >= e} = {x \in D : x >= e}
    BY <1>1, <1>2, <2>1
  <2>3. QED
    BY <2>2 DEF Rank
<1>7. Rank(E, d) = RootCount(p) + 1
  <2>1. \A e \in D : e >= d
    BY <1>1, <1>3, <1>4
  <2>2. {x \in E : x >= d} = E
    BY <1>1, <1>2, <2>1
  <2>3. QED
    BY <1>5, <2>2 DEF Rank, RootCount
<1>8. ASSUME NEW k \in 1..RootCount(p)
      PROVE  RootDepth(n, k) = RootDepth(p, k)
  <2> DEFINE e == RootDepth(p, k)
  <2>1. e \in D /\ Rank(D, e) = k
    BY RootDepthIs
  <2> HIDE DEF e
  <2>2. e \in E /\ Rank(E, e) = k
    BY <1>2, <1>6, <2>1
  <2>3. k \in 1..RootCount(n)
    BY <1>4, <1>5
  <2> HIDE DEF n
  <2>4. RootDepth(n, k) = e
    BY <1>1, <2>2, <2>3, RootDepthOf
  <2>5. QED
    BY <2>4 DEF e
<1>9. RootDepth(n, RootCount(p) + 1) = d
  <2>1. d \in E /\ RootCount(p) + 1 \in 1..RootCount(n)
    BY <1>2, <1>4, <1>5
  <2> HIDE DEF n
  <2>2. QED
    BY <1>1, <1>7, <2>1, RootDepthOf
<1>10. ASSUME NEW k \in 1..RootCount(p)
       PROVE  RootStart(n, k) = RootStart(p, k)
  <2> DEFINE e == RootDepth(p, k)
  <2>1. e \in D
    BY RootDepthIs
  <2> HIDE DEF e
  <2>2. e \in Nat /\ e + 1 \in Nat /\ d < e + 1
    BY <1>1, <1>3, <1>4, <2>1
  <2>3. n \div 2^(e + 1) = p \div 2^(e + 1)
    BY <1>1, <2>2, SameBlock
  <2> HIDE DEF n
  <2>4. RootDepth(n, k) = e
    BY <1>8 DEF e
  <2>5. RootStart(n, k) = (n \div 2^(e + 1)) * 2^(e + 1)
    BY <2>4 DEF RootStart
  <2>6. RootStart(p, k) = (p \div 2^(e + 1)) * 2^(e + 1)
    BY DEF RootStart, e
  <2>7. QED
    BY <2>3, <2>5, <2>6
<1>11. RootStart(n, RootCount(p) + 1) = p
  <2>1. PICK q \in Nat : p = q * 2^(d + 1)
    BY <1>1, AlignedMultiple
  <2> DEFINE w == 2^(d + 1)
             h == 2^d
  <2>2. w = 2 * h /\ h \in Nat /\ h > 0
    BY <1>1, PowerDoubles
  <2> HIDE DEF w, h
  <2>3. w \in Nat /\ w > 0 /\ h < w
    BY <2>2
  <2>4. n = q * w + h
    BY <2>1 DEF w, h
  <2> HIDE DEF n
  <2>5. n \div w = q
    BY <1>1, <2>2, <2>3, <2>4, DivIs
  <2>6. RootStart(n, RootCount(p) + 1) = (n \div w) * w
    BY <1>9 DEF RootStart, w
  <2>7. QED
    BY <2>1, <2>5, <2>6 DEF w
<1>12. QED
  BY <1>5, <1>8, <1>9, <1>10, <1>11

-----------------------------------------------------------------------------
(* A length of 0 has no roots.                                             *)
LEMMA RootsOfNone == RootCount(0) = 0
<1>1. ASSUME NEW e \in Depths
      PROVE  (0 \div 2^e) % 2 # 1
  <2>1. e \in Nat
    BY DEF Depths
  <2>2. 0 = 0 * 2^e
    BY <2>1, PowerGrows
  <2>3. 0 \div 2^e = 0
    BY <2>1, <2>2, MultipleAligned
  <2>4. QED
    BY <2>3
<1>2. RootDepths(0) = {}
  BY <1>1 DEF RootDepths
<1>3. QED
  BY <1>2, FS_EmptySet DEF RootCount

(* The roots of a length are complete subtrees over it.                    *)
LEMMA RootIsSubtree ==
  ASSUME NEW n \in Nat, NEW k \in 1..RootCount(n)
  PROVE  <<RootStart(n, k), RootDepth(n, k)>> \in Subtrees(n)
<1> DEFINE d == RootDepth(n, k)
           w == 2^d
<1>1. d \in Depths /\ d \in Nat /\ (n \div w) % 2 = 1
  <2>1. d \in RootDepths(n)
    BY RootDepthIs
  <2> HIDE DEF d
  <2>2. QED
    BY <2>1 DEF RootDepths, Depths
<1>2. w \in Nat /\ w > 0 /\ 2^(d + 1) = 2 * w
  BY <1>1, PowerGrows, PowerDoubles
<1> DEFINE s == (n \div (2 * w)) * (2 * w)
<1>3. RootStart(n, k) = s
  BY <1>2 DEF RootStart
<1> HIDE DEF d, w
<1> DEFINE q == n \div w
           r == n % w
<1>4. q \in Nat /\ r \in Nat /\ r < w /\ n = q * w + r
  BY <1>2, DivRest
<1>5. n \div (2 * w) = q \div 2
  BY <1>2
<1> HIDE DEF q, r
<1>6. PICK a \in Nat : q = 2 * a + 1
  BY <1>1, <1>4 DEF q
<1>7. q \div 2 = a
  BY <1>6
<1>8. s = (2 * a) * w /\ 2 * a \in Nat
  BY <1>2, <1>5, <1>6, <1>7
<1>9. s % w = 0
  BY <1>1, <1>8, MultipleAligned DEF w
<1>10. s \in Nat /\ s + w <= n
  <2>1. (2 * a) * w \in Nat /\ (2 * a + 1) * w = (2 * a) * w + w
    BY <1>2, <1>6
  <2> DEFINE x == (2 * a) * w
  <2> HIDE DEF s
  <2>2. n = x + w + r /\ s = x /\ x \in Nat
    BY <1>4, <1>6, <1>8, <2>1
  <2> HIDE DEF x
  <2>3. QED
    BY <1>2, <1>4, <2>2
<1>11. s \in 0..n
  <2> HIDE DEF s
  <2>1. QED
    BY <1>2, <1>10
<1> HIDE DEF s
<1>12. <<s, d>> \in Subtrees(n)
  BY <1>1, <1>9, <1>10, <1>11 DEF Subtrees, w
<1>13. QED
  BY <1>3, <1>12 DEF d

(* A complete subtree, in the terms that the proofs use.                   *)
LEMMA SubtreeIs ==
  ASSUME NEW n \in Nat, NEW s, NEW d
  PROVE  <<s, d>> \in Subtrees(n) <=>
           /\ s \in Nat /\ d \in Depths /\ s % 2^d = 0 /\ s + 2^d <= n
<1>1. ASSUME s \in Nat, d \in Depths, s + 2^d <= n
      PROVE  s \in 0..n
  <2>1. 2^d \in Nat
    BY <1>1, PowerGrows DEF Depths
  <2>2. QED
    BY <1>1, <2>1
<1>2. QED
  BY <1>1 DEF Subtrees

(* Two subtrees of different depths or first leaves have different         *)
(* indices.                                                                *)
LEMMA IndexSeparates ==
  ASSUME NEW s \in Nat, NEW d \in Nat, s % 2^d = 0,
         NEW t \in Nat, NEW e \in Nat, t % 2^e = 0, d < e
  PROVE  NodeIndex(s, d) # NodeIndex(t, e)
<1> DEFINE w == 2^d
<1>1. w \in Nat /\ w > 0 /\ d + 1 \in Nat /\ 2^(d + 1) = 2 * w /\ d + 1 <= e
  BY PowerGrows, PowerDoubles
<1>2. PICK a \in Nat : s = a * 2^d
  BY AlignedMultiple
<1>3. PICK b \in Nat : t = b * 2^e
  BY AlignedMultiple
<1>4. PICK q \in Nat : 2^e = q * 2^(d + 1)
  BY <1>1, PowerDivides
<1>5. 2^e \in Nat
  BY PowerGrows
<1> DEFINE v == 2^e
<1> HIDE DEF w, v
<1>6. v = (2 * q) * w
  BY <1>1, <1>4 DEF v
<1>7. SUFFICES ASSUME 2 * s + w - 1 = 2 * t + v - 1
      PROVE  FALSE
  BY DEF NodeIndex, w, v
<1>8. s \in Nat /\ t \in Nat /\ v \in Nat /\ 2 * s + w = 2 * t + v
  BY <1>1, <1>5, <1>7 DEF v
<1>9. (2 * a + 1) * w = (2 * (b * (2 * q)) + 2 * q) * w
  <2>1. 2 * s + w = (2 * a + 1) * w
    BY <1>1, <1>2 DEF w
  <2>2. t = (b * (2 * q)) * w
    <3>1. t = b * v
      BY <1>3 DEF v
    <3>2. QED
      BY <1>1, <1>6, <3>1
  <2> DEFINE c == b * (2 * q)
  <2>3. c \in Nat
    OBVIOUS
  <2> HIDE DEF c
  <2>4. 2 * t + v = (2 * c + 2 * q) * w
    BY <1>1, <1>6, <2>2, <2>3 DEF c
  <2>5. QED
    BY <1>8, <2>1, <2>4 DEF c
<1> DEFINE x == b * (2 * q) + q
<1>10. x \in Nat /\ 2 * (b * (2 * q)) + 2 * q = 2 * x
  OBVIOUS
<1> HIDE DEF x
<1>11. (2 * a + 1) * w = (2 * x) * w
  BY <1>9, <1>10
<1>12. 2 * a + 1 = 2 * x
  BY <1>1, <1>10, <1>11
<1>13. QED
  BY <1>10, <1>12

LEMMA IndexNames ==
  ASSUME NEW s \in Nat, NEW d \in Nat, s % 2^d = 0,
         NEW t \in Nat, NEW e \in Nat, t % 2^e = 0,
         NodeIndex(s, d) = NodeIndex(t, e)
  PROVE  s = t /\ d = e
<1>1. ~(d < e)
  BY IndexSeparates
<1>2. ~(e < d)
  BY IndexSeparates
<1>3. d = e
  BY <1>1, <1>2
<1> DEFINE w == 2^d
<1>4. w \in Nat /\ 2 * s + w - 1 = 2 * t + w - 1
  BY <1>3, PowerGrows DEF NodeIndex
<1> HIDE DEF w
<1>5. s = t
  BY <1>4
<1>6. QED
  BY <1>3, <1>5

-----------------------------------------------------------------------------
(* Of the subtrees that end at a length, one whose parent does not end     *)
(* there is the deepest.                                                   *)
LEMMA DeepestAtEnd ==
  ASSUME NEW p \in Nat, NEW d \in Nat, p % 2^(d + 1) = 0,
         NEW s \in Nat, NEW e \in Nat, s % 2^e = 0, s + 2^e = p + 2^d
  PROVE  e <= d
<1> SUFFICES ASSUME e > d PROVE FALSE
  OBVIOUS
<1>1. d + 1 \in Nat /\ d + 1 <= e
  OBVIOUS
<1>2. PICK q \in Nat : 2^e = q * 2^(d + 1)
  BY <1>1, PowerDivides
<1>3. PICK a \in Nat : s = a * 2^e
  BY AlignedMultiple
<1>4. PICK b \in Nat : p = b * 2^(d + 1)
  BY <1>1, AlignedMultiple
<1> DEFINE h == 2^d
           w == 2^(d + 1)
           v == 2^e
<1>5. h \in Nat /\ h > 0 /\ w = 2 * h /\ w \in Nat /\ h < w
  BY PowerGrows, PowerDoubles
<1> HIDE DEF h, w, v
<1>6. v = q * w /\ s = a * v /\ s + v = b * w + h
  BY <1>2, <1>3, <1>4 DEF h, w, v
<1>7. (a * q + q) * w = b * w + h
  <2>1. s = (a * q) * w
    BY <1>5, <1>6
  <2> DEFINE x == a * q
  <2>2. x \in Nat
    OBVIOUS
  <2> HIDE DEF x
  <2>3. (x + q) * w = x * w + q * w
    BY <1>5, <2>2
  <2>4. QED
    BY <1>6, <2>1, <2>3 DEF x
<1> DEFINE y == a * q + q
<1>8. y \in Nat
  OBVIOUS
<1> HIDE DEF y
<1>9. y * w = b * w + h
  BY <1>7 DEF y
<1>10. (y * w) % w = 0
  <2>1. y * w \in Nat /\ y * w = y * w + 0 /\ w > 0
    BY <1>5, <1>8
  <2>2. QED
    BY <1>5, <1>8, <2>1, DivIs
<1>11. (y * w) % w = h
  <2>1. y * w \in Nat /\ w > 0
    BY <1>5, <1>8
  <2>2. QED
    BY <1>5, <1>9, <2>1, DivIs
<1>12. QED
  BY <1>5, <1>10, <1>11

(* A subtree that fits the greatest length has one of the depths.          *)
LEMMA DepthFits ==
  ASSUME NEW m \in Nat, m < 2^(MaxDepth + 1), NEW d \in Nat, 2^d <= m
  PROVE  d \in Depths
<1>1. MaxDepth + 1 \in Nat /\ 2^(MaxDepth + 1) \in Nat /\ 2^d \in Nat
  BY MaxDepthAssumption, PowerGrows
<1>2. ~(d >= MaxDepth + 1)
  <2> SUFFICES ASSUME MaxDepth + 1 <= d PROVE FALSE
    BY <1>1
  <2>1. PICK q \in Nat : q >= 1 /\ 2^d = q * 2^(MaxDepth + 1)
    BY <1>1, PowerDivides
  <2> DEFINE v == 2^(MaxDepth + 1)
  <2> HIDE DEF v
  <2>2. q * v >= v
    BY <1>1, <2>1 DEF v
  <2>3. QED
    BY <1>1, <2>1, <2>2 DEF v
<1>3. QED
  BY <1>2, MaxDepthAssumption DEF Depths

(* A length with fewer roots than there are depths is not the greatest.    *)
LEMMA LengthFits ==
  ASSUME NEW m \in Nat, m < 2^(MaxDepth + 1), RootCount(m) <= MaxDepth
  PROVE  m + 1 < 2^(MaxDepth + 1)
<1>1. MaxDepth + 1 \in Nat /\ 2^(MaxDepth + 1) \in Nat
  BY MaxDepthAssumption, PowerGrows
<1> SUFFICES ASSUME m + 1 = 2^(MaxDepth + 1) PROVE FALSE
  BY <1>1
<1>2. ASSUME NEW e \in Depths
      PROVE  (m \div 2^e) % 2 = 1
  <2>1. e \in Nat /\ e + 1 \in Nat /\ e + 1 <= MaxDepth + 1
    BY MaxDepthAssumption DEF Depths
  <2>2. PICK q \in Nat : q >= 1 /\ 2^(MaxDepth + 1) = q * 2^(e + 1)
    BY <1>1, <2>1, PowerDivides
  <2> DEFINE w == 2^e
  <2>3. w \in Nat /\ w > 0 /\ 2^(e + 1) = 2 * w
    BY <2>1, PowerGrows, PowerDoubles
  <2> HIDE DEF w
  <2>4. m = (2 * q - 1) * w + (w - 1)
    <3>1. m + 1 = q * (2 * w)
      BY <2>2, <2>3
    <3> DEFINE x == q * w
    <3>2. x \in Nat /\ q * (2 * w) = 2 * x /\ (2 * q - 1) * w = 2 * x - w
      BY <2>3
    <3> HIDE DEF x
    <3>3. m + 1 = 2 * x
      BY <3>1, <3>2
    <3>4. QED
      BY <2>3, <3>2, <3>3
  <2>5. 2 * q - 1 \in Nat /\ w - 1 \in Nat /\ w - 1 < w
    BY <2>2, <2>3
  <2> DEFINE y == 2 * q - 1
             z == w - 1
  <2>6. y % 2 = 1
    BY <2>2
  <2>7. m \div w = y
    <3>1. m = y * w + z /\ y \in Nat /\ z \in Nat /\ z < w
      BY <2>4, <2>5
    <3> HIDE DEF y, z
    <3>2. QED
      BY <2>3, <3>1, DivIs
  <2>8. QED
    BY <2>6, <2>7 DEF w
<1>3. RootDepths(m) = Depths
  BY <1>2 DEF RootDepths
<1>4. Cardinality(Depths) = MaxDepth + 1
  BY FS_Interval, MaxDepthAssumption DEF Depths
<1>5. QED
  BY <1>3, <1>4, MaxDepthAssumption DEF RootCount

(* An index of a root over n leaves is below 2n.                           *)
LEMMA RootIndexBelow ==
  ASSUME NEW n \in Nat, NEW k \in 1..RootCount(n)
  PROVE  FullRoots(n)[k] < 2 * n /\ FullRoots(n)[k] \in Nat
<1> DEFINE s == RootStart(n, k)
           d == RootDepth(n, k)
           w == 2^d
<1>1. <<s, d>> \in Subtrees(n)
  BY RootIsSubtree
<1>2. FullRoots(n)[k] = 2 * s + w - 1
  BY DEF FullRoots, NodeIndex
<1> HIDE DEF s, d
<1>3. s \in Nat /\ d \in Nat /\ s + w <= n
  BY <1>1, SubtreeIs DEF Depths
<1>4. w \in Nat /\ w > 0
  BY <1>3, PowerGrows
<1> HIDE DEF w
<1>5. QED
  BY <1>2, <1>3, <1>4

-----------------------------------------------------------------------------
(* A cursor on the node of depth d over the leaves s .. s + 2^d - 1.       *)
CursorOn(ite, s, d) ==
  ite = [index  |-> NodeIndex(s, d),
         offset |-> s \div 2^d,
         factor |-> 2^(d + 1)]

(* A cursor begins on a leaf.                                              *)
LEMMA CursorOnLeaf ==
  ASSUME NEW n \in Nat
  PROVE  CursorOn(LeafIterator(n), n, 0)
<1>1. 2^0 = 1
  BY PowerZero
<1>2. 2^(0 + 1) = 2 * 2^0
  BY PowerDoubles
<1>3. n \div 1 = n /\ 2 * n + 1 - 1 = 2 * n
  BY DivIs
<1>4. NodeIndex(n, 0) = 2 * n + 2^0 - 1
  BY DEF NodeIndex
<1>5. NodeIndex(n, 0) = 2 * n /\ n \div 2^0 = n /\ 2^(0 + 1) = 2
  BY <1>1, <1>2, <1>3, <1>4
<1>6. QED
  BY <1>5 DEF CursorOn, LeafIterator

(* The sibling of a left child is to the right.                            *)
LEMMA SiblingOfLeft ==
  ASSUME NEW p \in Nat, NEW d \in Nat, p % 2^(d + 1) = 0,
         NEW ite, CursorOn(ite, p, d)
  PROVE  Sibling(ite).index = NodeIndex(p + 2^d, d)
<1> DEFINE w == 2^d
<1>1. w \in Nat /\ w > 0 /\ 2^(d + 1) = 2 * w /\ d + 1 \in Nat /\ d <= d + 1
  BY PowerGrows, PowerDoubles
<1>2. p % 2^d = 0
  BY <1>1, AlignedBelow
<1>3. (p \div w) % 2 = 0
  <2>1. PICK q \in Nat : p = q * 2^(d + 1)
    BY <1>1, AlignedMultiple
  <2> HIDE DEF w
  <2>2. p = (2 * q) * w
    BY <1>1, <2>1
  <2>3. p \div w = 2 * q
    BY <2>2, MultipleAligned DEF w
  <2>4. QED
    BY <2>3
<1>4. ite.offset = p \div w /\ ite.index = NodeIndex(p, d) /\ ite.factor = 2 * w
  BY <1>1 DEF CursorOn
<1> HIDE DEF w
<1>5. Sibling(ite).index = NodeIndex(p, d) + 2 * w
  BY <1>3, <1>4 DEF Sibling
<1>6. QED
  BY <1>1, <1>5 DEF NodeIndex, w

(* The sibling of a right child is to the left, and their parent spans     *)
(* both.                                                                   *)
LEMMA SiblingOfRight ==
  ASSUME NEW p \in Nat, NEW d \in Nat, p % 2^(d + 1) = 0,
         NEW ite, CursorOn(ite, p + 2^d, d)
  PROVE  /\ Sibling(ite).index = NodeIndex(p, d)
         /\ CursorOn(Parent(Sibling(ite)), p, d + 1)
<1> DEFINE w == 2^d
           v == 2^(d + 1)
<1>1. /\ w \in Nat /\ w > 0 /\ v = 2 * w /\ d + 1 \in Nat
      /\ 2^((d + 1) + 1) = 2 * v
  BY PowerGrows, PowerDoubles
<1>2. PICK q \in Nat : p = q * v
  BY <1>1, AlignedMultiple
<1> HIDE DEF w, v
<1>3. p = (2 * q) * w /\ p + w = (2 * q + 1) * w
  BY <1>1, <1>2
<1>4. p \div v = q /\ (p + w) \div w = 2 * q + 1
  BY <1>1, <1>2, <1>3, MultipleAligned DEF w, v
<1> DEFINE index == 2 * (p + w) + w - 1
           offset == 2 * q + 1
<1>5. ite.offset = offset /\ ite.factor = v /\ ite.index = index
  BY <1>4 DEF CursorOn, NodeIndex, w, v
<1>6. offset % 2 # 0 /\ (2 * q) % 2 = 0 /\ (2 * q) \div 2 = q
  OBVIOUS
<1> HIDE DEF index, offset
<1>7. Sibling(ite) = [index |-> index - v, offset |-> offset - 1,
                      factor |-> v]
  BY <1>5, <1>6 DEF Sibling
<1>8. index - v = 2 * p + w - 1 /\ offset - 1 = 2 * q
  BY <1>1 DEF index, offset
<1>9. Sibling(ite) = [index |-> 2 * p + w - 1, offset |-> 2 * q, factor |-> v]
  BY <1>7, <1>8
<1>10. Parent(Sibling(ite)) = [index |-> 2 * p + w - 1 + v \div 2,
                               offset |-> q, factor |-> 2 * v]
  BY <1>6, <1>9 DEF Parent
<1>11. 2 * p + w - 1 + v \div 2 = 2 * p + v - 1
  BY <1>1
<1>12. Parent(Sibling(ite)) = [index |-> NodeIndex(p, d + 1),
                               offset |-> p \div 2^(d + 1),
                               factor |-> 2^((d + 1) + 1)]
  BY <1>1, <1>4, <1>10, <1>11 DEF NodeIndex, v
<1>13. QED
  BY <1>9, <1>12 DEF CursorOn, NodeIndex, w

-----------------------------------------------------------------------------
(* The number of roots is a number, and at most one per bit of the count.  *)
LEMMA RootCountBound ==
  ASSUME NEW n \in Nat
  PROVE  RootCount(n) \in Nat /\ RootCount(n) <= MaxDepth + 1
<1>1. IsFiniteSet(Depths) /\ Cardinality(Depths) = MaxDepth + 1
  BY FS_Interval, MaxDepthAssumption DEF Depths
<1>2. RootDepths(n) \subseteq Depths
  BY DEF RootDepths
<1>3. QED
  BY <1>1, <1>2, FS_Subset, FS_CardinalityType DEF RootCount

(* Putting one value into a map, or a batch of them.                       *)
LEMMA PutType ==
  ASSUME NEW S, NEW map, IsMap(map, S), NEW k \in Nat, NEW v \in S
  PROVE  IsMap(Put(map, k, v), S)
BY DEF IsMap, Put

(* A batch of puts on a map of values leaves a map of values.              *)
LEMMA PutAllType ==
  ASSUME NEW S, NEW map, IsMap(map, S), NEW batch, IsMap(batch, S)
  PROVE  IsMap(PutAll(map, batch), S)
BY DEF IsMap, PutAll

(* A cursor on a leaf is an iterator.                                      *)
LEMMA LeafIteratorType ==
  ASSUME NEW n \in Nat
  PROVE  LeafIterator(n) \in Iterator
BY DEF LeafIterator, Iterator

(* The parent of a sibling that exists is a position of the flat tree.     *)
LEMMA ParentType ==
  ASSUME NEW ite \in Iterator, Sibling(ite).index \in Nat
  PROVE  Parent(Sibling(ite)) \in Iterator
<1>1. CASE ite.offset % 2 = 0
  <2>1. Sibling(ite) = [index  |-> ite.index + ite.factor,
                        offset |-> ite.offset + 1,
                        factor |-> ite.factor]
    BY <1>1 DEF Sibling
  <2>2. (ite.offset + 1) % 2 # 0
    BY <1>1 DEF Iterator
  <2>3. ite.index + ite.factor - ite.factor \div 2 \in Nat
    BY DEF Iterator
  <2>4. (ite.offset + 1) \div 2 \in Nat /\ 2 * ite.factor \in Nat
    BY DEF Iterator
  <2>5. QED
    BY <2>1, <2>2, <2>3, <2>4 DEF Parent, Iterator
<1>2. CASE ite.offset % 2 # 0
  <2>1. Sibling(ite) = [index  |-> ite.index - ite.factor,
                        offset |-> ite.offset - 1,
                        factor |-> ite.factor]
    BY <1>2 DEF Sibling
  <2>2. (ite.offset - 1) % 2 = 0 /\ ite.offset - 1 \in Nat
    BY <1>2 DEF Iterator
  <2>3. ite.index - ite.factor \in Nat
    BY <2>1
  <2>4. ite.index - ite.factor + ite.factor \div 2 \in Nat
    BY <2>3 DEF Iterator
  <2>5. (ite.offset - 1) \div 2 \in Nat /\ 2 * ite.factor \in Nat
    BY <2>2 DEF Iterator
  <2>6. QED
    BY <2>1, <2>2, <2>4, <2>5 DEF Parent, Iterator
<1>3. QED
  BY <1>1, <1>2
-----------------------------------------------------------------------------
(* hc_crypto_data of a block makes a node.                                 *)
LEMMA LeafNodeType ==
  ASSUME NEW index \in Nat, NEW block \in Blocks
  PROVE  LeafNode(index, block) \in Node
BY BlockAssumption DEF LeafNode, Node

(* hc_crypto_parent of two nodes is a node.                                *)
LEMMA ParentNodeType ==
  ASSUME NEW index \in Nat, NEW a \in Node, NEW b \in Node
  PROVE  ParentNode(index, a, b) \in Node
<1>1. a.hash \o b.hash \in Seq(Blocks) /\ b.hash \o a.hash \in Seq(Blocks)
  BY DEF Node
<1>2. a.size + b.size \in Nat
  BY DEF Node
<1>3. QED
  BY <1>1, <1>2 DEF ParentNode, Node

UpgradeType == [forked : BOOLEAN, roots : Seq(Node), capacity : Nat,
                length : Nat, byte_length : Nat]

(* hc__array_grow allocates a whole number of entries, enough of them.     *)
LEMMA GrownToType ==
  ASSUME NEW min \in Nat, NEW capacity \in GrownTo(min)
  PROVE  capacity \in Nat /\ capacity >= min
BY InitialCapacityAssumption DEF GrownTo, Depths

(* The fork of a well-typed core is a well-typed upgrade.                  *)
LEMMA ForkedType ==
  ASSUME MerkleTypeOK, NEW c \in Core, NEW u \in ForkedFrom(c)
  PROVE  u \in UpgradeType
<1>1. CASE upgrade.forked
  BY <1>1 DEF ForkedFrom, UpgradeType, MerkleTypeOK
<1>2. CASE ~upgrade.forked
  <2>1. ForkCapacity(c, Len(frame.buffers)) \in Nat
    BY MaxRootsAssumption DEF ForkCapacity, Core, MerkleTypeOK
  <2>2. PICK capacity \in GrownTo(ForkCapacity(c, Len(frame.buffers))) :
          u = [forked |-> TRUE, roots |-> c.roots, capacity |-> capacity,
               length |-> c.length, byte_length |-> c.byte_length]
    BY <1>2 DEF ForkedFrom
  <2>3. capacity \in Nat
    BY <2>1, GrownToType
  <2>4. QED
    BY <2>2, <2>3 DEF UpgradeType, Core
<1>3. QED
  BY <1>1, <1>2
-----------------------------------------------------------------------------
(* A leaf pushed on the roots keeps the types.                             *)
LEMMA PushLeafType ==
  ASSUME MerkleTypeOK, PushLeaf
  PROVE  MerkleTypeOK'
<1> DEFINE block == frame.buffers[frame.i + 1]
           leaf  == LeafNode(2 * upgrade.length, block)
<1>1. upgrade \in UpgradeType /\ frame.buffers \in Seq(Blocks) /\ frame.i \in Nat
  BY DEF MerkleTypeOK, UpgradeType
<1>2. block \in Blocks
  BY <1>1 DEF PushLeaf
<1>3. 2 * upgrade.length \in Nat /\ upgrade.length \in Nat
  BY <1>1 DEF UpgradeType
<1>4. leaf \in Node /\ leaf.index \in Nat
  BY <1>2, <1>3, LeafNodeType DEF LeafNode
<1>5. BlockLen[block] \in Nat
  BY <1>2, BlockAssumption
<1>6. upgrade' \in UpgradeType
  <2>1. upgrade' = [upgrade EXCEPT !.roots = Append(@, leaf),
                                   !.length = @ + 1,
                                   !.byte_length = @ + BlockLen[block]]
    BY DEF PushLeaf
  <2>2. Append(upgrade.roots, leaf) \in Seq(Node)
    BY <1>1, <1>4 DEF UpgradeType
  <2> HIDE DEF leaf, block
  <2>3. /\ upgrade.length + 1 \in Nat
        /\ upgrade.byte_length + BlockLen[block] \in Nat
    BY <1>1, <1>5 DEF UpgradeType
  <2>4. QED
    BY <1>1, <2>1, <2>2, <2>3 DEF UpgradeType
<1>7. frame' \in [buffers : Seq(Blocks), i : Nat, ite : Iterator]
  BY <1>3, LeafIteratorType DEF PushLeaf, MerkleTypeOK
<1>8. IsMap(Put(write.tree, leaf.index, leaf), Node)
  BY <1>4, PutType DEF MerkleTypeOK
<1>9. CASE UNCHANGED write
  BY <1>6, <1>7, <1>9 DEF MerkleTypeOK, UpgradeType
<1>10. CASE write' = [write EXCEPT !.tree = Put(@, leaf.index, leaf)]
  <2>1. write' = [tree |-> Put(write.tree, leaf.index, leaf),
                  blocks |-> write.blocks, head |-> write.head]
    BY <1>10 DEF MerkleTypeOK
  <2>2. QED
    BY <1>6, <1>7, <1>8, <2>1 DEF MerkleTypeOK, UpgradeType
<1>11. QED
  BY <1>9, <1>10 DEF PushLeaf

(* So does a parent that replaces the last two roots.                      *)
LEMMA MergeType ==
  ASSUME MerkleTypeOK, Merge
  PROVE  MerkleTypeOK'
<1> DEFINE n      == Len(upgrade.roots)
           ite    == Parent(Sibling(frame.ite))
           parent == ParentNode(ite.index, upgrade.roots[n], upgrade.roots[n - 1])
<1>1. upgrade \in UpgradeType /\ upgrade.roots \in Seq(Node) /\ n \in Nat
  BY DEF MerkleTypeOK, UpgradeType
<1>2. n > 1
  BY DEF Merge, CanMerge
<1>3. upgrade.roots[n] \in Node /\ upgrade.roots[n - 1] \in Node
  BY <1>1, <1>2
<1>4. Sibling(frame.ite).index \in Nat
  BY <1>3 DEF Merge, CanMerge, Node
<1>5. ite \in Iterator /\ ite.index \in Nat
  BY <1>4, ParentType DEF MerkleTypeOK, Iterator
<1>6. parent \in Node /\ parent.index \in Nat
  BY <1>3, <1>5, ParentNodeType DEF ParentNode
<1>7. Append(SubSeq(upgrade.roots, 1, n - 2), parent) \in Seq(Node)
  <2>1. SubSeq(upgrade.roots, 1, n - 2) \in Seq(Node)
    BY <1>1, <1>2
  <2>2. QED
    BY <1>6, <2>1
<1>8. upgrade' \in UpgradeType
  BY <1>1, <1>7 DEF Merge, UpgradeType
<1>9. frame' \in [buffers : Seq(Blocks), i : Nat, ite : Iterator]
  BY <1>5 DEF Merge, MerkleTypeOK
<1>10. IsMap(Put(write.tree, parent.index, parent), Node)
  BY <1>6, PutType DEF MerkleTypeOK
<1>11. CASE UNCHANGED write
  BY <1>8, <1>9, <1>11 DEF MerkleTypeOK, UpgradeType
<1>12. CASE write' = [write EXCEPT !.tree = Put(@, parent.index, parent)]
  <2>1. write' = [tree |-> Put(write.tree, parent.index, parent),
                  blocks |-> write.blocks, head |-> write.head]
    BY <1>12 DEF MerkleTypeOK
  <2>2. QED
    BY <1>8, <1>9, <1>10, <2>1 DEF MerkleTypeOK, UpgradeType
<1>13. QED
  BY <1>11, <1>12 DEF Merge

(* Every step of hc_merkle_tree_append on a well-typed core keeps the      *)
(* types.                                                                  *)
LEMMA MerkleStepType ==
  ASSUME MerkleTypeOK, NEW c \in Core, MerkleStep(c)
  PROVE  MerkleTypeOK'
<1>1. CASE AppendNothing
  BY <1>1 DEF AppendNothing, MerkleTypeOK
<1>2. CASE ForkUpgrade(c)
  <2>1. upgrade' \in UpgradeType
    BY <1>2, ForkedType DEF ForkUpgrade
  <2>2. QED
    BY <1>2, <2>1 DEF ForkUpgrade, MerkleTypeOK, UpgradeType
<1>3. CASE ForkFails(c)
  <2>1. upgrade' \in UpgradeType
    BY <1>3, ForkedType DEF ForkFails, MerkleTypeOK, UpgradeType
  <2>2. QED
    BY <1>3, <2>1 DEF ForkFails, MerkleTypeOK, UpgradeType
<1>4. CASE PushLeaf
  BY <1>4, PushLeafType
<1>5. CASE RootsFull
  BY <1>5 DEF RootsFull, MerkleTypeOK
<1>6. CASE Merge
  BY <1>6, MergeType
<1>7. CASE MergeDone
  <2>1. frame' \in [buffers : Seq(Blocks), i : Nat, ite : Iterator]
    BY <1>7 DEF MergeDone, MerkleTypeOK
  <2>2. QED
    BY <1>7, <2>1 DEF MergeDone, MerkleTypeOK
<1>8. CASE LeavesDone
  BY <1>8 DEF LeavesDone, MerkleTypeOK
<1>9. QED
  BY <1>1, <1>2, <1>3, <1>4, <1>5, <1>6, <1>7, <1>8 DEF MerkleStep
-----------------------------------------------------------------------------
(* The capacity the fork asks for.                                         *)
LEMMA ForkCapacityBound ==
  ASSUME NEW c, Len(c.roots) \in Nat, NEW count \in Nat
  PROVE  /\ ForkCapacity(c, count) \in Nat
         /\ \/ ForkCapacity(c, count) = MaxRoots
            \/ ForkCapacity(c, count) = Len(c.roots) + 2 * count
         /\ Len(c.roots) <= MaxRoots => Len(c.roots) <= ForkCapacity(c, count)
<1> DEFINE m == Len(c.roots)
<1>1. m \in Nat /\ MaxRoots \in Nat
  BY MaxRootsAssumption
<1>2. ForkCapacity(c, count) = IF m + 2 * count > MaxRoots THEN MaxRoots
                                                          ELSE m + 2 * count
  BY DEF ForkCapacity
<1> HIDE DEF m
<1>3. m + 2 * count \in Nat /\ m <= m + 2 * count
  BY <1>1
<1>4. QED
  BY <1>1, <1>2, <1>3 DEF m

(* What the fork leaves behind.                                            *)
LEMMA ForkRoom ==
  ASSUME MerkleTypeOK, NEW c \in Core, Len(c.roots) <= MaxRoots,
         ~upgrade.forked, frame.buffers # <<>>, NEW u \in ForkedFrom(c)
  PROVE  /\ u.roots = c.roots
         /\ u.capacity >= ForkCapacity(c, Len(frame.buffers))
         /\ Len(u.roots) <= u.capacity
<1> DEFINE wanted == ForkCapacity(c, Len(frame.buffers))
<1>1. Len(c.roots) \in Nat /\ Len(frame.buffers) \in Nat
  BY DEF Core, MerkleTypeOK
<1>2. wanted \in Nat /\ Len(c.roots) <= wanted
  BY <1>1, ForkCapacityBound
<1>3. PICK capacity \in GrownTo(wanted) :
        u = [forked |-> TRUE, roots |-> c.roots, capacity |-> capacity,
             length |-> c.length, byte_length |-> c.byte_length]
  BY DEF ForkedFrom
<1>4. capacity \in Nat /\ capacity >= wanted
  BY <1>2, GrownToType
<1> HIDE DEF wanted
<1>5. u.roots = c.roots /\ u.capacity = capacity
  BY <1>3
<1>6. QED
  BY <1>1, <1>2, <1>4, <1>5 DEF wanted

(* A leaf is pushed only where there is room for it.                       *)
LEMMA PushLeafRoom ==
  ASSUME MerkleTypeOK, NEW c \in Core, Room(c), PushLeaf
  PROVE  Room(c)'
<1> DEFINE leaf == LeafNode(2 * upgrade.length, frame.buffers[frame.i + 1])
           n    == Len(upgrade.roots)
           m    == Len(c.roots)
<1>1. /\ upgrade.roots \in Seq(Node) /\ upgrade.capacity \in Nat
      /\ frame.i \in Nat /\ frame.buffers \in Seq(Blocks)
      /\ Len(frame.buffers) \in Nat /\ n \in Nat /\ m \in Nat
  BY DEF MerkleTypeOK, Core
<1>2. leaf \in Node
  <2>1. 2 * upgrade.length \in Nat
    BY DEF MerkleTypeOK
  <2>2. frame.buffers[frame.i + 1] \in Blocks
    BY <1>1 DEF PushLeaf
  <2>3. QED
    BY <2>1, <2>2, LeafNodeType
<1>3. /\ upgrade'.roots = Append(upgrade.roots, leaf)
      /\ upgrade'.capacity = upgrade.capacity
      /\ frame'.i = frame.i /\ frame'.buffers = frame.buffers
  BY DEF PushLeaf, MerkleTypeOK
<1>4. Len(upgrade'.roots) = n + 1
  BY <1>1, <1>2, <1>3
<1>5. /\ n < MaxRoots /\ frame.i < Len(frame.buffers)
      /\ n <= m + frame.i
      /\ upgrade.capacity >= ForkCapacity(c, Len(frame.buffers))
  BY DEF PushLeaf, Room
<1> HIDE DEF leaf, n, m
<1>6. n + 1 <= MaxRoots /\ n + 1 <= m + frame.i + 1
  BY <1>1, <1>5, MaxRootsAssumption
<1>7. /\ ForkCapacity(c, Len(frame.buffers)) \in Nat
      /\ \/ ForkCapacity(c, Len(frame.buffers)) = MaxRoots
         \/ ForkCapacity(c, Len(frame.buffers)) = m + 2 * Len(frame.buffers)
  BY <1>1, ForkCapacityBound DEF m
<1>8. n + 1 <= ForkCapacity(c, Len(frame.buffers))
  BY <1>1, <1>5, <1>6, <1>7, MaxRootsAssumption
<1>9. n + 1 <= upgrade.capacity
  BY <1>1, <1>5, <1>7, <1>8
<1>10. pc' \in {"merge", "failed"}
  BY DEF PushLeaf
<1>11. ForkCapacity(c, Len(frame'.buffers)) = ForkCapacity(c, Len(frame.buffers))
  BY <1>3
<1>12. QED
  BY <1>3, <1>4, <1>5, <1>6, <1>9, <1>10, <1>11
     DEF Room, RootsFitCapacity, m, ForkCapacity

(* A merge needs one entry less than before.                               *)
LEMMA MergeRoom ==
  ASSUME MerkleTypeOK, NEW c \in Core, Room(c), Merge
  PROVE  Room(c)'
<1> DEFINE n      == Len(upgrade.roots)
           ite    == Parent(Sibling(frame.ite))
           parent == ParentNode(ite.index, upgrade.roots[n], upgrade.roots[n - 1])
<1>1. /\ upgrade.roots \in Seq(Node) /\ upgrade.capacity \in Nat
      /\ frame.i \in Nat /\ n \in Nat /\ Len(c.roots) \in Nat
  BY DEF MerkleTypeOK, Core
<1>2. n > 1
  BY DEF Merge, CanMerge
<1>3. /\ upgrade'.roots = Append(SubSeq(upgrade.roots, 1, n - 2), parent)
      /\ upgrade'.capacity = upgrade.capacity
      /\ frame'.i = frame.i /\ frame'.buffers = frame.buffers
  BY DEF Merge, MerkleTypeOK
<1>4. pc = "merge" /\ pc' \in {"merge", "failed"}
  BY DEF Merge
<1>5. Len(upgrade'.roots) = n - 1
  <2>1. /\ SubSeq(upgrade.roots, 1, n - 2) \in Seq(Node)
        /\ Len(SubSeq(upgrade.roots, 1, n - 2)) = n - 2
    BY <1>1, <1>2
  <2>2. Len(Append(SubSeq(upgrade.roots, 1, n - 2), parent)) = n - 2 + 1
    BY <2>1
  <2>3. QED
    BY <1>1, <1>3, <2>2
<1> HIDE DEF ite, parent
<1>6. Len(upgrade'.roots) \in Nat /\ Len(upgrade'.roots) <= n
  BY <1>1, <1>2, <1>5
<1>7. /\ n <= MaxRoots /\ n <= upgrade.capacity
      /\ frame.i < Len(frame.buffers) /\ n <= Len(c.roots) + frame.i + 1
      /\ upgrade.capacity >= ForkCapacity(c, Len(frame.buffers))
  BY <1>4 DEF Room, RootsFitCapacity
<1> HIDE DEF n
<1>8. /\ Len(upgrade'.roots) <= MaxRoots
      /\ Len(upgrade'.roots) <= upgrade.capacity
      /\ Len(upgrade'.roots) <= Len(c.roots) + frame.i + 1
  <2>1. ASSUME NEW limit \in Nat, n <= limit
        PROVE  Len(upgrade'.roots) <= limit
    BY <1>1, <1>6, <2>1
  <2>2. Len(c.roots) + frame.i + 1 \in Nat
    BY <1>1
  <2>3. MaxRoots \in Nat
    BY MaxRootsAssumption
  <2>4. QED
    BY <1>1, <1>7, <2>1, <2>2, <2>3
<1>9. QED
  BY <1>3, <1>4, <1>7, <1>8 DEF Room, RootsFitCapacity

(* Every step of hc_merkle_tree_append keeps its room.                     *)
LEMMA MerkleStepRoom ==
  ASSUME MerkleTypeOK, NEW c \in Core, Len(c.roots) <= MaxRoots, Room(c),
         MerkleStep(c)
  PROVE  Room(c)'
<1>0. Len(c.roots) \in Nat /\ Len(frame.buffers) \in Nat /\ frame.i \in Nat
  BY DEF Core, MerkleTypeOK
<1>1. CASE AppendNothing
  BY <1>1 DEF AppendNothing, Room, RootsFitCapacity
<1>2. CASE ForkUpgrade(c)
  <2>1. ~upgrade.forked /\ frame.buffers # <<>> /\ upgrade' \in ForkedFrom(c)
    BY <1>2 DEF ForkUpgrade, Room
  <2>2. /\ upgrade'.roots = c.roots
        /\ upgrade'.capacity >= ForkCapacity(c, Len(frame.buffers))
        /\ Len(upgrade'.roots) <= upgrade'.capacity
    BY <2>1, ForkRoom
  <2>3. pc' = "leaf" /\ frame' = frame
    BY <1>2 DEF ForkUpgrade
  <2>4. Len(c.roots) <= Len(c.roots) + frame.i
    BY <1>0
  <2>5. QED
    BY <2>2, <2>3, <2>4 DEF Room, RootsFitCapacity
<1>3. CASE ForkFails(c)
  <2>1. ~upgrade.forked /\ frame.buffers # <<>>
        /\ upgrade' \in ForkedFrom(c) \cup {upgrade}
    BY <1>3 DEF ForkFails, Room
  <2>2. /\ Len(upgrade'.roots) <= upgrade'.capacity
        /\ Len(upgrade'.roots) <= MaxRoots
    BY <2>1, ForkRoom DEF Room, RootsFitCapacity
  <2>3. QED
    BY <1>3, <2>2 DEF ForkFails, Room, RootsFitCapacity
<1>4. CASE PushLeaf
  BY <1>4, PushLeafRoom
<1>5. CASE RootsFull
  BY <1>5 DEF RootsFull, Room, RootsFitCapacity
<1>6. CASE Merge
  BY <1>6, MergeRoom
<1>7. CASE MergeDone
  <2>1. frame'.i = frame.i + 1 /\ frame'.buffers = frame.buffers
    BY <1>7 DEF MergeDone, MerkleTypeOK
  <2>2. upgrade' = upgrade /\ pc = "merge" /\ pc' = "leaf"
    BY <1>7 DEF MergeDone
  <2>3. Len(upgrade.roots) <= Len(c.roots) + frame.i + 1
    BY <2>2 DEF Room
  <2>4. Len(c.roots) + frame.i + 1 = Len(c.roots) + (frame.i + 1)
    BY <1>0
  <2>5. QED
    BY <2>1, <2>2, <2>3, <2>4 DEF Room, RootsFitCapacity
<1>8. CASE LeavesDone
  BY <1>8 DEF LeavesDone, Room, RootsFitCapacity
<1>9. QED
  BY <1>1, <1>2, <1>3, <1>4, <1>5, <1>6, <1>7, <1>8 DEF MerkleStep

-----------------------------------------------------------------------------
(* Why the roots are right.  A place is the first leaf and the depth of a  *)
(* subtree; nodes[place] are the nodes that may stand there.  Behind a     *)
(* stale handle all that is known of a node is its index; where one log is *)
(* appended to, the blocks under it are.                                   *)
Places == Nat \X Depths

IndexedNodes ==
  [place \in Places |->
     {node \in Node : node.index = NodeIndex(place[1], place[2])}]

NodesOver(blocks) ==
  [place \in Places |-> {TreeNode(blocks, place[1], place[2])}]

(* The roots stand at the places of the roots over n leaves.               *)
RootsFit(nodes, roots, n) ==
  /\ Len(roots) = RootCount(n)
  /\ \A k \in 1..RootCount(n) :
       roots[k] \in nodes[<<RootStart(n, k), RootDepth(n, k)>>]

(* A store of nodes has a fitting node for a place, for all of some.       *)
Stands(nodes, tree, place) ==
  LET index == NodeIndex(place[1], place[2])
  IN  index \in DOMAIN tree /\ tree[index] \in nodes[place]

StandAll(nodes, tree, places) ==
  \A place \in places : Stands(nodes, tree, place)

(* The batch has nodes of the upgrade and no others.                       *)
WritesFit(nodes, tree, n) ==
  \A index \in DOMAIN tree :
    \E place \in Subtrees(n) :
      /\ index = NodeIndex(place[1], place[2])
      /\ tree[index] \in nodes[place]

LengthInRange(n) == n < 2^(MaxDepth + 1)

(* Between two leaves: the roots are those of the length, and the batch    *)
(* has every subtree that was completed since the length base.             *)
Grown(nodes, base) ==
  /\ LengthInRange(upgrade.length)
  /\ upgrade.byte_length = Total(SizesOf(upgrade.roots))
  /\ RootsFit(nodes, upgrade.roots, upgrade.length)
  /\ StandAll(nodes, write.tree, Subtrees(upgrade.length) \ Subtrees(base))
  /\ WritesFit(nodes, write.tree, upgrade.length)

(* In the merge loop: the last root, under the cursor, is the subtree of   *)
(* depth d that ends at the length; before it are the roots of what it     *)
(* begins at, and in the batch all but the deeper subtrees that end here.  *)
MergingAt(nodes, base, d) ==
  LET n     == upgrade.length
      start == n - 2^d
      count == RootCount(start)
  IN  /\ start \in Nat
      /\ start % 2^d = 0
      /\ CursorOn(frame.ite, start, d)
      /\ Len(upgrade.roots) = count + 1
      /\ RootsFit(nodes, SubSeq(upgrade.roots, 1, count), start)
      /\ upgrade.roots[count + 1] \in nodes[<<start, d>>]
      /\ \A place \in Subtrees(n) \ Subtrees(base) :
           \/ place[1] + 2^place[2] = n /\ place[2] > d
           \/ Stands(nodes, write.tree, place)

Merging(nodes, base) ==
  /\ LengthInRange(upgrade.length)
  /\ upgrade.byte_length = Total(SizesOf(upgrade.roots))
  /\ \E d \in Depths : MergingAt(nodes, base, d)
  /\ WritesFit(nodes, write.tree, upgrade.length)

(* The roots of a core are those of its length.                            *)
CoreFits(nodes, c) ==
  /\ LengthInRange(c.length)
  /\ c.byte_length = Total(SizesOf(c.roots))
  /\ RootsFit(nodes, c.roots, c.length)

(* An append that no step of has failed: the upgrade grows from the core.  *)
Growing(nodes, c) ==
  /\ pc # "failed" /\ ~upgrade.forked => write.tree = EmptyMap
  /\ pc \in {"leaf", "merge"} => upgrade.forked
  /\ pc \in {"appended", "flush"} /\ frame.buffers # <<>> => upgrade.forked
  /\ pc \in {"idle", "append", "leaf", "appended", "flush"} /\ upgrade.forked =>
       Grown(nodes, c.length)
  /\ pc = "merge" => Merging(nodes, c.length)

-----------------------------------------------------------------------------
(* Two lists of blocks, one after the other.                               *)
LEMMA ConcatBlocks ==
  ASSUME NEW s \in Seq(Blocks), NEW t \in Seq(Blocks)
  PROVE  s \o t \in Seq(Blocks) /\ Len(s \o t) = Len(s) + Len(t)
OBVIOUS

(* The byte length of blocks is a number, and adds up.                     *)
LEMMA ByteLengthConcat ==
  ASSUME NEW s \in Seq(Blocks), NEW t \in Seq(Blocks)
  PROVE  /\ ByteLength(s) \in Nat /\ ByteLength(t) \in Nat
         /\ ByteLength(s \o t) = ByteLength(s) + ByteLength(t)
<1> DEFINE sizes(b) == [k \in DOMAIN b |-> BlockLen[b[k]]]
<1>1. ASSUME NEW b \in Seq(Blocks)
      PROVE  sizes(b) \in Seq(Nat) /\ Len(sizes(b)) = Len(b)
  <2>1. DOMAIN b = 1..Len(b) /\ Len(b) \in Nat
    OBVIOUS
  <2>2. \A k \in 1..Len(b) : BlockLen[b[k]] \in Nat
    BY BlockAssumption
  <2>3. QED
    BY <2>1, <2>2
<1>2. sizes(s \o t) = sizes(s) \o sizes(t)
  <2>1. s \o t \in Seq(Blocks) /\ Len(s \o t) = Len(s) + Len(t)
    OBVIOUS
  <2>2. /\ sizes(s \o t) \in Seq(Nat) /\ Len(sizes(s \o t)) = Len(s) + Len(t)
        /\ sizes(s) \in Seq(Nat) /\ Len(sizes(s)) = Len(s)
        /\ sizes(t) \in Seq(Nat) /\ Len(sizes(t)) = Len(t)
    BY <1>1, <2>1
  <2>3. sizes(s) \o sizes(t) \in Seq(Nat)
        /\ Len(sizes(s) \o sizes(t)) = Len(s) + Len(t)
    <3> DEFINE p == sizes(s)
               q == sizes(t)
    <3>1. p \in Seq(Nat) /\ q \in Seq(Nat) /\ Len(p) = Len(s) /\ Len(q) = Len(t)
      BY <2>2
    <3> HIDE DEF p, q
    <3>2. p \o q \in Seq(Nat) /\ Len(p \o q) = Len(p) + Len(q)
      BY <3>1, ConcatSizes
    <3>3. QED
      BY <3>1, <3>2 DEF p, q
  <2>4. ASSUME NEW k \in 1..Len(s) + Len(t)
        PROVE  sizes(s \o t)[k] = (sizes(s) \o sizes(t))[k]
    <3>1. (s \o t)[k] = IF k <= Len(s) THEN s[k] ELSE t[k - Len(s)]
      OBVIOUS
    <3>2. (sizes(s) \o sizes(t))[k]
             = IF k <= Len(s) THEN sizes(s)[k] ELSE sizes(t)[k - Len(s)]
      <4> HIDE DEF sizes
      <4>1. QED
        BY <2>2
    <3>3. sizes(s \o t)[k] = BlockLen[(s \o t)[k]]
      <4>1. k \in DOMAIN (s \o t)
        BY <2>1
      <4>2. QED
        BY <4>1
    <3>4. CASE k <= Len(s)
      <4>1. k \in DOMAIN s
        BY <3>4
      <4>2. sizes(s)[k] = BlockLen[s[k]]
        BY <4>1
      <4> HIDE DEF sizes
      <4>3. QED
        BY <3>1, <3>2, <3>3, <3>4, <4>2
    <3>5. CASE ~(k <= Len(s))
      <4>1. k - Len(s) \in DOMAIN t
        BY <3>5
      <4>2. sizes(t)[k - Len(s)] = BlockLen[t[k - Len(s)]]
        BY <4>1
      <4> HIDE DEF sizes
      <4>3. QED
        BY <3>1, <3>2, <3>3, <3>5, <4>2
    <3>6. QED
      BY <3>4, <3>5
  <2> HIDE DEF sizes
  <2>5. QED
    BY <2>2, <2>3, <2>4, SeqEqual
<1>3. /\ ByteLength(s) = Total(sizes(s)) /\ ByteLength(t) = Total(sizes(t))
      /\ ByteLength(s \o t) = Total(sizes(s \o t))
  BY DEF ByteLength
<1>4. sizes(s) \in Seq(Nat) /\ sizes(t) \in Seq(Nat)
  BY <1>1
<1> HIDE DEF sizes
<1>5. QED
  BY <1>2, <1>3, <1>4, TotalConcat, TotalType

(* The sizes of one more node, and of a list of nodes up to one of them.   *)
LEMMA SizesAppend ==
  ASSUME NEW s \in Seq(Node), NEW x \in Node
  PROVE  /\ SizesOf(s) \in Seq(Nat) /\ Len(SizesOf(s)) = Len(s)
         /\ Total(SizesOf(s)) \in Nat
         /\ Total(SizesOf(Append(s, x))) = Total(SizesOf(s)) + x.size
<1>1. ASSUME NEW b \in Seq(Node)
      PROVE  SizesOf(b) \in Seq(Nat) /\ Len(SizesOf(b)) = Len(b)
  <2>1. DOMAIN b = 1..Len(b) /\ Len(b) \in Nat
    OBVIOUS
  <2>2. ASSUME NEW k \in 1..Len(b)
        PROVE  b[k].size \in Nat
    <3>1. b[k] \in Node
      OBVIOUS
    <3>2. QED
      BY <3>1 DEF Node
  <2>3. QED
    BY <2>1, <2>2 DEF SizesOf
<1>2. x.size \in Nat
  BY DEF Node
<1>3. SizesOf(Append(s, x)) = Append(SizesOf(s), x.size)
  <2>1. Append(s, x) \in Seq(Node) /\ Len(Append(s, x)) = Len(s) + 1
    OBVIOUS
  <2>2. SizesOf(s) \in Seq(Nat) /\ Len(SizesOf(s)) = Len(s)
    BY <1>1
  <2>3. /\ Append(SizesOf(s), x.size) \in Seq(Nat)
        /\ Len(Append(SizesOf(s), x.size)) = Len(s) + 1
    BY <1>2, <2>2
  <2>4. SizesOf(Append(s, x)) \in Seq(Nat) /\ Len(SizesOf(Append(s, x))) = Len(s) + 1
    BY <1>1, <2>1
  <2>5. ASSUME NEW k \in 1..Len(s) + 1
        PROVE  SizesOf(Append(s, x))[k] = Append(SizesOf(s), x.size)[k]
    <3>1. SizesOf(Append(s, x))[k] = Append(s, x)[k].size
      BY <2>1 DEF SizesOf
    <3>2. CASE k = Len(s) + 1
      <4>1. Append(s, x)[k] = x
        BY <3>2
      <4>2. Append(SizesOf(s), x.size)[k] = x.size
        BY <1>2, <2>2, <3>2
      <4>3. QED
        BY <3>1, <4>1, <4>2
    <3>3. CASE k # Len(s) + 1
      <4>1. k \in 1..Len(s)
        BY <3>3
      <4>2. Append(s, x)[k] = s[k]
        BY <4>1
      <4>3. Append(SizesOf(s), x.size)[k] = SizesOf(s)[k]
        BY <1>2, <2>2, <4>1
      <4>4. SizesOf(s)[k] = s[k].size
        BY <4>1 DEF SizesOf
      <4>5. QED
        BY <3>1, <4>2, <4>3, <4>4
    <3>4. QED
      BY <3>2, <3>3
  <2>6. QED
    BY <2>3, <2>4, <2>5, SeqEqual
<1>4. QED
  BY <1>1, <1>2, <1>3, TotalAppend, TotalType

-----------------------------------------------------------------------------
(* The node over some of the blocks is a node.                             *)
LEMMA TreeNodeType ==
  ASSUME NEW blocks \in Seq(Blocks), NEW s \in Nat, NEW d \in Nat,
         s + 2^d <= Len(blocks)
  PROVE  /\ TreeNode(blocks, s, d) \in Node
         /\ TreeNode(blocks, s, d).hash = SubSeq(blocks, s + 1, s + 2^d)
         /\ SubSeq(blocks, s + 1, s + 2^d) \in Seq(Blocks)
<1> DEFINE covered == SubSeq(blocks, s + 1, s + 2^d)
           w == 2^d
<1>1. w \in Nat /\ w > 0
  BY PowerGrows
<1>2. covered \in Seq(Blocks)
  <2> HIDE DEF w
  <2>1. s + 1 \in Nat /\ s + w \in Nat /\ s + w <= Len(blocks)
    BY <1>1 DEF w
  <2>2. \A i \in s + 1..s + w : blocks[i] \in Blocks
    BY <1>1, <2>1
  <2>3. SubSeq(blocks, s + 1, s + w) \in Seq(Blocks)
    BY <2>1, <2>2, SubSeqProperties
  <2>4. QED
    BY <2>3 DEF w
<1>3. ByteLength(covered) \in Nat
  BY <1>2, ByteLengthConcat
<1>4. NodeIndex(s, d) \in Nat
  <2> HIDE DEF w
  <2>1. 2 * s + w - 1 \in Nat
    BY <1>1
  <2>2. QED
    BY <2>1 DEF NodeIndex, w
<1>5. TreeNode(blocks, s, d) = [index |-> NodeIndex(s, d),
                                size |-> ByteLength(covered),
                                hash |-> covered]
  BY DEF TreeNode
<1> HIDE DEF covered
<1>6. QED
  BY <1>2, <1>3, <1>4, <1>5 DEF Node, covered

(* Later blocks do not change the nodes over the first ones.               *)
LEMMA NodeOfPrefix ==
  ASSUME NEW s \in Seq(Blocks), NEW t \in Seq(Blocks), NEW a \in Nat,
         NEW d \in Nat, a + 2^d <= Len(s)
  PROVE  TreeNode(s \o t, a, d) = TreeNode(s, a, d)
<1> DEFINE w == 2^d
<1>1. w \in Nat /\ w > 0
  BY PowerGrows
<1> HIDE DEF w
<1>2. a + 1 \in 1..Len(s) /\ a + w \in 1..Len(s)
  BY <1>1 DEF w
<1>3. SubSeq(s \o t, a + 1, a + w) = SubSeq(s, a + 1, a + w)
  BY <1>2, SubSeqOfConcat1
<1>4. QED
  BY <1>3 DEF TreeNode, w

(* The first blocks of a sequence.                                         *)
LEMMA PrefixOf ==
  ASSUME NEW blocks \in Seq(Blocks), NEW n \in 0..Len(blocks)
  PROVE  /\ SubSeq(blocks, 1, n) \in Seq(Blocks)
         /\ Len(SubSeq(blocks, 1, n)) = n
         /\ SubSeq(blocks, n + 1, Len(blocks)) \in Seq(Blocks)
         /\ blocks = SubSeq(blocks, 1, n) \o SubSeq(blocks, n + 1, Len(blocks))
<1>1. Len(blocks) \in Nat
  OBVIOUS
<1>2. /\ SubSeq(blocks, 1, n) \in Seq(Blocks)
      /\ Len(SubSeq(blocks, 1, n)) = n
  BY <1>1, SubSeqProperties
<1>3. SubSeq(blocks, n + 1, Len(blocks)) \in Seq(Blocks)
  BY <1>1, SubSeqProperties
<1>4. SubSeq(blocks, 1, n) \o SubSeq(blocks, n + 1, Len(blocks))
        = SubSeq(blocks, 1, Len(blocks))
  <2>1. 1 \in 1..Len(blocks) + 1 /\ n \in (1 - 1)..Len(blocks)
        /\ Len(blocks) \in n..Len(blocks)
    BY <1>1
  <2>2. QED
    BY <2>1, ConcatAdjacentSubSeq
<1>5. SubSeq(blocks, 1, Len(blocks)) = blocks
  BY SubSeqFull
<1>6. QED
  BY <1>2, <1>3, <1>4, <1>5

(* Two neighbours have the node over both as their parent, whichever comes *)
(* first.                                                                  *)
LEMMA ParentIsTreeNode ==
  ASSUME NEW blocks \in Seq(Blocks), NEW p \in Nat, NEW d \in Nat,
         p + 2^(d + 1) <= Len(blocks)
  PROVE  ParentNode(NodeIndex(p, d + 1), TreeNode(blocks, p + 2^d, d),
                    TreeNode(blocks, p, d)) = TreeNode(blocks, p, d + 1)
<1> DEFINE w == 2^d
           left == SubSeq(blocks, p + 1, p + w)
           right == SubSeq(blocks, p + w + 1, p + 2 * w)
<1>1. w \in Nat /\ w > 0 /\ 2^(d + 1) = 2 * w
  BY PowerGrows, PowerDoubles
<1>2. p + 2 * w <= Len(blocks) /\ p + w <= Len(blocks)
      /\ p + w \in Nat /\ (p + w) + w = p + 2 * w /\ (p + w) + 1 = p + w + 1
  <2> HIDE DEF w
  <2>1. p + 2 * w <= Len(blocks)
    BY <1>1
  <2>2. QED
    BY <1>1, <2>1
<1>3. /\ TreeNode(blocks, p, d) = [index |-> NodeIndex(p, d),
                                   size |-> ByteLength(left), hash |-> left]
      /\ TreeNode(blocks, p + w, d) = [index |-> NodeIndex(p + w, d),
                                   size |-> ByteLength(right), hash |-> right]
  <2>1. right = SubSeq(blocks, (p + w) + 1, (p + w) + w)
    BY <1>2
  <2>2. QED
    BY <2>1 DEF TreeNode
<1>4. left \in Seq(Blocks) /\ right \in Seq(Blocks)
  <2>1. left \in Seq(Blocks)
    BY <1>2, TreeNodeType
  <2>2. SubSeq(blocks, (p + w) + 1, (p + w) + w) \in Seq(Blocks)
    <3>1. (p + w) + 2^d <= Len(blocks)
      BY <1>2
    <3>2. QED
      BY <1>2, <3>1, TreeNodeType
  <2>3. QED
    BY <1>2, <2>1, <2>2
<1>5. left \o right = SubSeq(blocks, p + 1, p + 2 * w)
  <2> HIDE DEF w
  <2>1. Len(blocks) \in Nat
    OBVIOUS
  <2>2. p + 1 \in 1..Len(blocks) + 1 /\ p + w \in (p + 1) - 1..Len(blocks)
        /\ p + 2 * w \in p + w..Len(blocks)
    BY <1>1, <1>2, <2>1
  <2>3. QED
    BY <2>2, ConcatAdjacentSubSeq
<1>6. NodeIndex(p, d) < NodeIndex(p + w, d)
      /\ ~(NodeIndex(p + w, d) < NodeIndex(p, d))
  <2>1. NodeIndex(p, d) = 2 * p + w - 1 /\ NodeIndex(p + w, d) = 2 * (p + w) + w - 1
    BY DEF NodeIndex
  <2> HIDE DEF w
  <2>2. QED
    BY <1>1, <2>1
<1>7. ByteLength(left \o right) = ByteLength(right) + ByteLength(left)
  <2> HIDE DEF left, right
  <2>1. QED
    BY <1>4, ByteLengthConcat
<1>8. TreeNode(blocks, p, d + 1) = [index |-> NodeIndex(p, d + 1),
                                    size |-> ByteLength(left \o right),
                                    hash |-> left \o right]
  BY <1>1, <1>5 DEF TreeNode
<1>9. ParentNode(NodeIndex(p, d + 1), TreeNode(blocks, p + w, d),
                 TreeNode(blocks, p, d))
        = [index |-> NodeIndex(p, d + 1),
           size |-> ByteLength(right) + ByteLength(left),
           hash |-> left \o right]
  <2> DEFINE a == TreeNode(blocks, p + w, d)
             b == TreeNode(blocks, p, d)
             ia == NodeIndex(p + w, d)
             ib == NodeIndex(p, d)
             i == NodeIndex(p, d + 1)
  <2>1. /\ a = [index |-> ia, size |-> ByteLength(right), hash |-> right]
        /\ b = [index |-> ib, size |-> ByteLength(left), hash |-> left]
        /\ ~(ia < ib)
    BY <1>3, <1>6
  <2> HIDE DEF w, left, right, a, b, ia, ib, i
  <2>2. ParentNode(i, a, b) = [index |-> i,
                               size |-> ByteLength(right) + ByteLength(left),
                               hash |-> left \o right]
    BY <2>1 DEF ParentNode
  <2>3. QED
    BY <2>2 DEF a, b, i
<1>10. QED
  BY <1>7, <1>8, <1>9

-----------------------------------------------------------------------------
(* Some leaves end with a complete subtree, the last of their roots.       *)
LEMMA LastRoot ==
  ASSUME NEW n \in Nat, n > 0, LengthInRange(n)
  PROVE  \E d \in Depths : \E p \in Nat : p % 2^(d + 1) = 0 /\ n = p + 2^d
<1> DEFINE deep == {e \in Nat : n % 2^e = 0}
<1>1. 0 \in deep
  <2>1. n % 1 = 0
    OBVIOUS
  <2>2. QED
    BY <2>1, PowerZero
<1>2. ASSUME NEW e \in deep
      PROVE  e <= n /\ 2^e <= n
  <2>1. PICK q \in Nat : n = q * 2^e
    BY AlignedMultiple
  <2> DEFINE w == 2^e
  <2>2. w \in Nat /\ w > e /\ n = q * w
    BY <2>1, PowerGrows
  <2> HIDE DEF w
  <2>3. q # 0
    BY <2>2
  <2>4. q * w >= w
    BY <2>2, <2>3
  <2>5. w <= n /\ e <= n
    BY <2>2, <2>4
  <2>6. QED
    BY <2>5 DEF w
<1>3. PICK d \in deep : \A e \in deep : d >= e
  <2>1. deep \subseteq Nat /\ deep # {} /\ \A e \in deep : e <= n
    BY <1>1, <1>2
  <2> HIDE DEF deep
  <2>2. QED
    BY <2>1, GreatestNumber
<1>4. d \in Nat /\ n % 2^d = 0 /\ d + 1 \notin deep
  <2>1. ~(d >= d + 1)
    OBVIOUS
  <2>2. QED
    BY <1>3, <2>1
<1>5. n % 2^(d + 1) # 0
  BY <1>4
<1>6. n - 2^d \in Nat /\ (n - 2^d) % 2^(d + 1) = 0
  BY <1>4, <1>5, AlignedHalves
<1>7. d \in Depths
  BY <1>2, <1>4, DepthFits DEF LengthInRange
<1>8. n = (n - 2^d) + 2^d
  <2> DEFINE w == 2^d
  <2>1. w \in Nat
    BY <1>4, PowerGrows
  <2> HIDE DEF w
  <2>2. n = (n - w) + w
    BY <2>1
  <2>3. QED
    BY <2>2 DEF w
<1>9. QED
  BY <1>6, <1>7, <1>8

(* The roots over some blocks are roots of the flat tree.                  *)
LEMMA TreeRootsType ==
  ASSUME NEW blocks \in Seq(Blocks)
  PROVE  /\ TreeRoots(blocks) \in Seq(Node)
         /\ Len(TreeRoots(blocks)) = RootCount(Len(blocks))
         /\ RootCount(Len(blocks)) \in Nat
<1> DEFINE n == Len(blocks)
<1>1. n \in Nat /\ RootCount(n) \in Nat
  BY RootDepthsFinite
<1>2. ASSUME NEW k \in 1..RootCount(n)
      PROVE  TreeNode(blocks, RootStart(n, k), RootDepth(n, k)) \in Node
  <2> DEFINE s == RootStart(n, k)
             d == RootDepth(n, k)
  <2>1. <<s, d>> \in Subtrees(n)
    BY <1>1, RootIsSubtree
  <2> HIDE DEF s, d
  <2>2. s \in Nat /\ d \in Nat /\ s + 2^d <= n
    BY <1>1, <2>1, SubtreeIs DEF Depths
  <2>3. TreeNode(blocks, s, d) \in Node
    BY <2>2, TreeNodeType
  <2>4. QED
    BY <2>3 DEF s, d
<1>3. TreeRoots(blocks) = [k \in 1..RootCount(n) |->
                             TreeNode(blocks, RootStart(n, k), RootDepth(n, k))]
  BY DEF TreeRoots
<1> HIDE DEF n
<1>4. TreeRoots(blocks) \in [1..RootCount(n) -> Node]
  BY <1>2, <1>3
<1>5. QED
  BY <1>1, <1>4 DEF n

(* The last root is over the last complete subtree, the others are the     *)
(* roots over what is before it.                                           *)
LEMMA TreeRootsNext ==
  ASSUME NEW s \in Seq(Blocks), NEW t \in Seq(Blocks), NEW d \in Depths,
         Len(s) % 2^(d + 1) = 0, Len(t) = 2^d
  PROVE  TreeRoots(s \o t) = Append(TreeRoots(s), TreeNode(s \o t, Len(s), d))
<1> DEFINE p == Len(s)
           n == Len(s \o t)
           c == RootCount(p)
           last == TreeNode(s \o t, p, d)
<1>1. /\ p \in Nat /\ d \in Nat /\ s \o t \in Seq(Blocks) /\ n = p + 2^d
      /\ c \in Nat
  <2>1. p \in Nat /\ c \in Nat /\ d \in Nat
    BY RootDepthsFinite DEF Depths
  <2>2. s \o t \in Seq(Blocks) /\ n = p + Len(t)
    BY ConcatBlocks
  <2>3. QED
    BY <2>1, <2>2
<1>2. /\ RootCount(n) = c + 1
      /\ \A k \in 1..c : RootDepth(n, k) = RootDepth(p, k)
                         /\ RootStart(n, k) = RootStart(p, k)
      /\ RootDepth(n, c + 1) = d /\ RootStart(n, c + 1) = p
  BY <1>1, RootsNext
<1>3. /\ TreeRoots(s \o t) \in Seq(Node) /\ Len(TreeRoots(s \o t)) = c + 1
      /\ TreeRoots(s) \in Seq(Node) /\ Len(TreeRoots(s)) = c
  BY <1>1, <1>2, TreeRootsType
<1>4. last \in Node
  <2> DEFINE b == s \o t
             w == 2^d
  <2>1. b \in Seq(Blocks) /\ Len(b) = p + w /\ w \in Nat
    BY <1>1, PowerGrows
  <2> HIDE DEF b, w
  <2>2. p + w <= Len(b)
    BY <1>1, <2>1
  <2>3. TreeNode(b, p, d) \in Node
    BY <1>1, <2>1, <2>2, TreeNodeType DEF w
  <2>4. QED
    BY <2>3 DEF b
<1>5. ASSUME NEW k \in 1..c + 1
      PROVE  TreeRoots(s \o t)[k] = Append(TreeRoots(s), last)[k]
  <2>1. TreeRoots(s \o t)[k] = TreeNode(s \o t, RootStart(n, k), RootDepth(n, k))
    BY <1>2 DEF TreeRoots
  <2>2. CASE k = c + 1
    <3>1. Append(TreeRoots(s), last)[k] = last
      BY <1>3, <2>2
    <3>2. QED
      BY <1>2, <2>1, <2>2, <3>1
  <2>3. CASE k # c + 1
    <3> DEFINE a == RootStart(p, k)
               e == RootDepth(p, k)
    <3>1. k \in 1..c
      BY <1>1, <2>3
    <3>2. <<a, e>> \in Subtrees(p)
      BY <1>1, <3>1, RootIsSubtree
    <3>3. TreeRoots(s)[k] = TreeNode(s, a, e)
      BY <3>1 DEF TreeRoots
    <3>4. TreeRoots(s \o t)[k] = TreeNode(s \o t, a, e)
      BY <1>2, <2>1, <3>1
    <3>5. Append(TreeRoots(s), last)[k] = TreeRoots(s)[k]
      <4> HIDE DEF last, c
      <4>1. QED
        BY <1>3, <1>4, <3>1
    <3> HIDE DEF a, e
    <3>6. a \in Nat /\ e \in Nat /\ a + 2^e <= p
      BY <1>1, <3>2, SubtreeIs DEF Depths
    <3>7. TreeNode(s \o t, a, e) = TreeNode(s, a, e)
      BY <3>6, NodeOfPrefix
    <3>8. QED
      BY <3>3, <3>4, <3>5, <3>7
  <2>4. QED
    BY <2>2, <2>3
<1> HIDE DEF last, c
<1>6. /\ Append(TreeRoots(s), last) \in Seq(Node)
      /\ Len(Append(TreeRoots(s), last)) = c + 1
  BY <1>3, <1>4
<1>7. TreeRoots(s \o t) = Append(TreeRoots(s), last)
  BY <1>3, <1>5, <1>6, SeqEqual
<1>8. QED
  BY <1>7 DEF last

(* The sizes of the roots add up to the bytes of the blocks.               *)
LEMMA RootSizes ==
  ASSUME NEW blocks \in Seq(Blocks), LengthInRange(Len(blocks))
  PROVE  Total(SizesOf(TreeRoots(blocks))) = ByteLength(blocks)
<1> DEFINE wrong == {n \in Nat : \E b \in Seq(Blocks) :
                       /\ Len(b) = n /\ LengthInRange(n)
                       /\ Total(SizesOf(TreeRoots(b))) # ByteLength(b)}
<1>1. CASE wrong = {}
  BY <1>1
<1>2. CASE wrong # {}
  <2>1. PICK n \in wrong : n \in Nat /\ \A i \in Nat : i < n => i \notin wrong
    <3>1. wrong \subseteq Nat
      OBVIOUS
    <3> HIDE DEF wrong
    <3>2. QED
      BY <1>2, <3>1, FirstNumber
  <2>2. PICK b \in Seq(Blocks) :
          /\ Len(b) = n /\ LengthInRange(n)
          /\ Total(SizesOf(TreeRoots(b))) # ByteLength(b)
    BY <2>1
  <2>3. n > 0
    <3>1. ASSUME n = 0
          PROVE  Total(SizesOf(TreeRoots(b))) = ByteLength(b)
      <4>1. b = <<>>
        BY <2>2, <3>1
      <4>2. ByteLength(b) = 0
        <5>1. [k \in DOMAIN b |-> BlockLen[b[k]]] = <<>>
          BY <4>1
        <5>2. QED
          BY <5>1, TotalEmpty DEF ByteLength
      <4>3. TreeRoots(b) \in Seq(Node) /\ Len(TreeRoots(b)) = 0
        BY <2>2, <3>1, TreeRootsType, RootsOfNone
      <4>4. SizesOf(TreeRoots(b)) = <<>>
        <5>1. TreeRoots(b) = <<>>
          BY <4>3
        <5>2. QED
          BY <5>1 DEF SizesOf
      <4>5. QED
        BY <4>2, <4>4, TotalEmpty
    <3>2. QED
      BY <2>1, <2>2, <3>1
  <2>4. PICK d \in Depths, p \in Nat : p % 2^(d + 1) = 0 /\ n = p + 2^d
    BY <2>1, <2>2, <2>3, LastRoot
  <2> DEFINE w == 2^d
             s == SubSeq(b, 1, p)
             t == SubSeq(b, p + 1, n)
             last == TreeNode(b, p, d)
  <2>5. w \in Nat /\ w > 0 /\ n = p + w /\ d \in Nat
    BY <2>4, PowerGrows DEF Depths
  <2>6. p \in 0..Len(b) /\ p < n /\ n - p = w
    <3> HIDE DEF w
    <3>1. QED
      BY <2>2, <2>5
  <2>7. /\ s \in Seq(Blocks) /\ Len(s) = p /\ t \in Seq(Blocks) /\ b = s \o t
    BY <2>2, <2>6, PrefixOf
  <2>8. Len(t) = w
    <3> HIDE DEF w, s, t
    <3>1. Len(b) = Len(s) + Len(t)
      BY <2>7, ConcatBlocks
    <3>2. QED
      BY <2>2, <2>5, <2>7, <3>1
  <2>9. /\ last \in Node /\ last.size = ByteLength(t)
    <3>1. p + 2^d <= Len(b)
      BY <2>2, <2>4, <2>5
    <3>2. last \in Node
      BY <2>5, <3>1, TreeNodeType
    <3>3. SubSeq(b, p + 1, p + 2^d) = t
      BY <2>4
    <3>4. QED
      BY <3>2, <3>3 DEF TreeNode
  <2>10. TreeRoots(b) = Append(TreeRoots(s), last)
    <3>1. TreeRoots(s \o t) = Append(TreeRoots(s), TreeNode(s \o t, Len(s), d))
      <4> HIDE DEF s, t
      <4>1. Len(s) % 2^(d + 1) = 0 /\ Len(t) = 2^d
        BY <2>4, <2>7, <2>8
      <4>2. QED
        BY <2>7, <4>1, TreeRootsNext
    <3>2. QED
      BY <2>7, <3>1
  <2>11. Total(SizesOf(TreeRoots(b))) = Total(SizesOf(TreeRoots(s))) + ByteLength(t)
    <3>1. TreeRoots(s) \in Seq(Node)
      BY <2>7, TreeRootsType
    <3> HIDE DEF s, t, last
    <3>2. QED
      BY <2>9, <2>10, <3>1, SizesAppend
  <2>12. Total(SizesOf(TreeRoots(s))) = ByteLength(s)
    <3>1. LengthInRange(p)
      <4> DEFINE all == 2^(MaxDepth + 1)
      <4>1. all \in Nat /\ n < all
        BY <2>2, MaxDepthAssumption, PowerGrows DEF LengthInRange
      <4> HIDE DEF all
      <4>2. p < all
        BY <2>1, <2>6, <4>1
      <4>3. QED
        BY <4>2 DEF all, LengthInRange
    <3>2. p \notin wrong
      <4> HIDE DEF wrong
      <4>1. QED
        BY <2>1, <2>6
    <3> HIDE DEF s
    <3>3. QED
      BY <2>7, <3>1, <3>2
  <2>13. ByteLength(b) = ByteLength(s) + ByteLength(t)
    BY <2>7, ByteLengthConcat
  <2>14. QED
    BY <2>2, <2>11, <2>12, <2>13
<1>3. QED
  BY <1>1, <1>2

-----------------------------------------------------------------------------
(* The nodes that may stand at a place have its index, and parents of them *)
(* may stand above them.                                                   *)
IsNodeMap(nodes, top) ==
  /\ \A s \in Nat, d \in Depths :
       \A node \in nodes[<<s, d>>] : node.index = NodeIndex(s, d)
  /\ \A p \in Nat, d \in Depths :
       p % 2^(d + 1) = 0 /\ d + 1 \in Depths /\ p + 2^(d + 1) <= top =>
         \A a \in nodes[<<p + 2^d, d>>], b \in nodes[<<p, d>>] :
           ParentNode(NodeIndex(p, d + 1), a, b) \in nodes[<<p, d + 1>>]

(* Nodes of which the index is known.                                      *)
LEMMA IndexedNodeMap ==
  ASSUME NEW top
  PROVE  IsNodeMap(IndexedNodes, top)
<1>1. ASSUME NEW s \in Nat, NEW d \in Depths
      PROVE  /\ NodeIndex(s, d) \in Nat
             /\ IndexedNodes[<<s, d>>]
                  = {node \in Node : node.index = NodeIndex(s, d)}
  <2>1. 2^d \in Nat /\ 2^d > 0
    BY PowerGrows DEF Depths
  <2>2. NodeIndex(s, d) \in Nat
    <3> DEFINE w == 2^d
    <3> HIDE DEF w
    <3>1. 2 * s + w - 1 \in Nat
      BY <2>1 DEF w
    <3>2. QED
      BY <3>1 DEF NodeIndex, w
  <2>3. <<s, d>> \in Places
    BY DEF Places
  <2>4. QED
    BY <2>2, <2>3 DEF IndexedNodes
<1>2. ASSUME NEW p \in Nat, NEW d \in Depths, d + 1 \in Depths,
             NEW a \in IndexedNodes[<<p + 2^d, d>>],
             NEW b \in IndexedNodes[<<p, d>>]
      PROVE  ParentNode(NodeIndex(p, d + 1), a, b) \in IndexedNodes[<<p, d + 1>>]
  <2>1. p + 2^d \in Nat
    <3> DEFINE w == 2^d
    <3>1. w \in Nat
      BY PowerGrows DEF Depths
    <3> HIDE DEF w
    <3>2. p + w \in Nat
      BY <3>1
    <3>3. QED
      BY <3>2 DEF w
  <2>2. a \in Node /\ b \in Node
    BY <1>1, <2>1
  <2>3. NodeIndex(p, d + 1) \in Nat
    BY <1>1, <1>2
  <2>4. ParentNode(NodeIndex(p, d + 1), a, b) \in Node
    BY <2>2, <2>3, ParentNodeType
  <2>5. ParentNode(NodeIndex(p, d + 1), a, b).index = NodeIndex(p, d + 1)
    BY DEF ParentNode
  <2>6. IndexedNodes[<<p, d + 1>>]
          = {node \in Node : node.index = NodeIndex(p, d + 1)}
    BY <1>1, <1>2
  <2>7. QED
    BY <2>4, <2>5, <2>6
<1>3. QED
  BY <1>1, <1>2 DEF IsNodeMap

(* The nodes over some blocks.                                             *)
LEMMA TreeNodeMap ==
  ASSUME NEW blocks \in Seq(Blocks)
  PROVE  IsNodeMap(NodesOver(blocks), Len(blocks))
<1>1. ASSUME NEW s \in Nat, NEW d \in Depths
      PROVE  NodesOver(blocks)[<<s, d>>] = {TreeNode(blocks, s, d)}
  <2>1. <<s, d>> \in Places
    BY DEF Places
  <2>2. QED
    BY <2>1 DEF NodesOver
<1>2. ASSUME NEW s \in Nat, NEW d \in Depths
      PROVE  TreeNode(blocks, s, d).index = NodeIndex(s, d)
  BY DEF TreeNode
<1>3. ASSUME NEW p \in Nat, NEW d \in Depths, d + 1 \in Depths,
             p + 2^(d + 1) <= Len(blocks)
      PROVE  \A a \in NodesOver(blocks)[<<p + 2^d, d>>],
                b \in NodesOver(blocks)[<<p, d>>] :
               ParentNode(NodeIndex(p, d + 1), a, b)
                 \in NodesOver(blocks)[<<p, d + 1>>]
  <2>1. p + 2^d \in Nat
    <3> DEFINE w == 2^d
    <3>1. w \in Nat
      BY PowerGrows DEF Depths
    <3> HIDE DEF w
    <3>2. p + w \in Nat
      BY <3>1
    <3>3. QED
      BY <3>2 DEF w
  <2>2. /\ NodesOver(blocks)[<<p + 2^d, d>>] = {TreeNode(blocks, p + 2^d, d)}
        /\ NodesOver(blocks)[<<p, d>>] = {TreeNode(blocks, p, d)}
        /\ NodesOver(blocks)[<<p, d + 1>>] = {TreeNode(blocks, p, d + 1)}
    BY <1>1, <1>3, <2>1
  <2>3. ParentNode(NodeIndex(p, d + 1), TreeNode(blocks, p + 2^d, d),
                   TreeNode(blocks, p, d)) = TreeNode(blocks, p, d + 1)
    BY <1>3, ParentIsTreeNode DEF Depths
  <2>4. QED
    BY <2>2, <2>3
<1>4. QED
  BY <1>1, <1>2, <1>3 DEF IsNodeMap

(* What a place is.                                                        *)
LEMMA PlaceIs ==
  ASSUME NEW n \in Nat, NEW place \in Subtrees(n)
  PROVE  /\ place = <<place[1], place[2]>>
         /\ place[1] \in Nat /\ place[2] \in Depths /\ place[2] \in Nat
         /\ place[1] % 2^place[2] = 0 /\ place[1] + 2^place[2] <= n
<1>1. place = <<place[1], place[2]>>
  BY DEF Subtrees
<1>2. <<place[1], place[2]>> \in Subtrees(n)
  BY <1>1
<1> DEFINE s == place[1]
           d == place[2]
<1> HIDE DEF s, d
<1>3. s \in Nat /\ d \in Depths /\ s % 2^d = 0 /\ s + 2^d <= n
  BY <1>2, SubtreeIs DEF s, d
<1>4. QED
  BY <1>1, <1>3 DEF s, d, Depths

(* More leaves have more subtrees.                                         *)
LEMMA SubtreesGrow ==
  ASSUME NEW m \in Nat, NEW n \in Nat, m <= n
  PROVE  Subtrees(m) \subseteq Subtrees(n)
<1>1. ASSUME NEW place \in Subtrees(m)
      PROVE  place \in Subtrees(n)
  <2> DEFINE s == place[1]
             d == place[2]
             w == 2^d
  <2>1. /\ place = <<s, d>> /\ s \in Nat /\ d \in Depths
        /\ s % 2^d = 0 /\ s + w <= m /\ w \in Nat
    BY PlaceIs, PowerGrows
  <2> HIDE DEF s, d, w
  <2>2. s + w <= n
    BY <2>1
  <2>3. <<s, d>> \in Subtrees(n)
    BY <2>1, <2>2, SubtreeIs DEF w
  <2>4. QED
    BY <2>1, <2>3
<1>2. QED
  BY <1>1

(* A node that is put where it belongs stands there, and no other place    *)
(* loses its node.                                                         *)
LEMMA PutStands ==
  ASSUME NEW nodes, NEW tree, NEW m \in Nat, NEW at \in Subtrees(m),
         NEW node \in nodes[at], node.index = NodeIndex(at[1], at[2]),
         NEW n \in Nat, NEW place \in Subtrees(n),
         place = at \/ Stands(nodes, tree, place)
  PROVE  Stands(nodes, Put(tree, node.index, node), place)
<1> DEFINE index == NodeIndex(place[1], place[2])
           new == Put(tree, node.index, node)
<1>1. CASE index = node.index
  <2> DEFINE s == place[1]
             d == place[2]
             t == at[1]
             e == at[2]
  <2>1. /\ place = <<s, d>> /\ s \in Nat /\ d \in Nat /\ s % 2^d = 0
        /\ at = <<t, e>> /\ t \in Nat /\ e \in Nat /\ t % 2^e = 0
    BY PlaceIs
  <2>2. NodeIndex(s, d) = NodeIndex(t, e)
    BY <1>1
  <2> HIDE DEF s, d, t, e
  <2>3. place = at
    BY <2>1, <2>2, IndexNames
  <2>4. index \in DOMAIN new /\ new[index] = node
    BY <1>1 DEF Put
  <2>5. QED
    BY <2>3, <2>4 DEF Stands
<1>2. CASE index # node.index
  <2>1. Stands(nodes, tree, place)
    BY <1>2
  <2>2. index \in DOMAIN tree /\ tree[index] \in nodes[place]
    BY <2>1 DEF Stands
  <2>3. index \in DOMAIN new /\ new[index] = tree[index]
    BY <1>2, <2>2 DEF Put
  <2>4. QED
    BY <2>2, <2>3 DEF Stands
<1>3. QED
  BY <1>1, <1>2

(* The batch has nodes of the upgrade only, when one of them is added.     *)
LEMMA PutFits ==
  ASSUME NEW nodes, NEW tree, NEW m \in Nat, NEW n \in Nat, m <= n,
         WritesFit(nodes, tree, m), NEW at \in Subtrees(n),
         NEW node \in nodes[at], node.index = NodeIndex(at[1], at[2])
  PROVE  WritesFit(nodes, Put(tree, node.index, node), n)
<1> DEFINE new == Put(tree, node.index, node)
<1>1. ASSUME NEW index \in DOMAIN new
      PROVE  \E place \in Subtrees(n) :
               /\ index = NodeIndex(place[1], place[2])
               /\ new[index] \in nodes[place]
  <2>1. CASE index = node.index
    <3>1. new[index] = node
      BY <2>1 DEF Put
    <3>2. QED
      BY <2>1, <3>1
  <2>2. CASE index # node.index
    <3>1. index \in DOMAIN tree /\ new[index] = tree[index]
      BY <2>2 DEF Put
    <3>2. PICK place \in Subtrees(m) :
            /\ index = NodeIndex(place[1], place[2])
            /\ tree[index] \in nodes[place]
      BY <3>1 DEF WritesFit
    <3>3. place \in Subtrees(n)
      BY <3>2, SubtreesGrow
    <3>4. QED
      BY <3>1, <3>2, <3>3
  <2>3. QED
    BY <2>1, <2>2
<1> HIDE DEF new
<1>2. QED
  BY <1>1 DEF WritesFit, new

-----------------------------------------------------------------------------
(* The fork starts from the roots of the core.                             *)
LEMMA ForkGrown ==
  ASSUME NEW nodes, NEW c, ~upgrade.forked, write.tree = EmptyMap,
         LengthInRange(c.length), c.byte_length = Total(SizesOf(c.roots)),
         RootsFit(nodes, c.roots, c.length), ForkUpgrade(c)
  PROVE  Grown(nodes, c.length)'
<1>1. /\ upgrade'.roots = c.roots /\ upgrade'.length = c.length
      /\ upgrade'.byte_length = c.byte_length
      /\ write'.tree = EmptyMap
  BY DEF ForkUpgrade, ForkedFrom
<1>2. WritesFit(nodes, EmptyMap, c.length)
  BY DEF WritesFit, EmptyMap
<1>3. StandAll(nodes, EmptyMap, Subtrees(c.length) \ Subtrees(c.length))
  BY DEF StandAll
<1>4. QED
  BY <1>1, <1>2, <1>3 DEF Grown

(* A leaf is a subtree that ends at the new length.                        *)
LEMMA PushLeafMerging ==
  ASSUME NEW nodes, NEW base, MerkleTypeOK, Grown(nodes, base),
         MaxRoots = MaxDepth + 1, PushLeaf, pc' = "merge",
         LeafNode(2 * upgrade.length, frame.buffers[frame.i + 1])
           \in nodes[<<upgrade.length, 0>>]
  PROVE  Merging(nodes, base)'
<1> DEFINE n == upgrade.length
           block == frame.buffers[frame.i + 1]
           leaf == LeafNode(2 * n, block)
           c == RootCount(n)
<1>1. /\ n \in Nat /\ upgrade.roots \in Seq(Node) /\ c \in Nat
      /\ frame.i \in Nat /\ frame.buffers \in Seq(Blocks)
  BY RootDepthsFinite DEF MerkleTypeOK
<1>2. leaf \in Node /\ leaf.size = BlockLen[block] /\ leaf.index = 2 * n
  <2>1. block \in Blocks
    BY <1>1 DEF PushLeaf
  <2>2. QED
    BY <1>1, <2>1, LeafNodeType DEF LeafNode
<1>3. /\ upgrade'.roots = Append(upgrade.roots, leaf)
      /\ upgrade'.length = n + 1
      /\ upgrade'.byte_length = upgrade.byte_length + BlockLen[block]
      /\ frame'.ite = LeafIterator(n)
      /\ write'.tree = Put(write.tree, leaf.index, leaf)
  BY DEF PushLeaf, MerkleTypeOK
<1>4. /\ LengthInRange(n) /\ RootsFit(nodes, upgrade.roots, n)
      /\ upgrade.byte_length = Total(SizesOf(upgrade.roots))
      /\ StandAll(nodes, write.tree, Subtrees(n) \ Subtrees(base))
      /\ WritesFit(nodes, write.tree, n)
      /\ leaf \in nodes[<<n, 0>>]
  BY DEF Grown
<1>5. Len(upgrade.roots) = c /\ c <= MaxDepth
  <2>1. Len(upgrade.roots) = c
    BY <1>4 DEF RootsFit
  <2>2. Len(upgrade.roots) < MaxDepth + 1
    BY DEF PushLeaf
  <2> HIDE DEF c
  <2>3. QED
    BY <1>1, <2>1, <2>2, MaxDepthAssumption
<1> HIDE DEF leaf
<1>6. LengthInRange(n + 1)
  BY <1>1, <1>4, <1>5, LengthFits DEF LengthInRange
<1>7. upgrade'.byte_length = Total(SizesOf(upgrade'.roots))
  BY <1>1, <1>2, <1>3, <1>4, SizesAppend
<1>8. 2^0 = 1 /\ n % 1 = 0 /\ (n + 1) - 1 = n /\ 0 \in Depths
  BY <1>1, PowerZero, MaxDepthAssumption DEF Depths
<1>9. <<n, 0>> \in Subtrees(n + 1) /\ n + 1 \in Nat
  <2>1. n + 1 \in Nat /\ n % 2^0 = 0 /\ n + 2^0 <= n + 1
    BY <1>1, <1>8
  <2>2. QED
    BY <1>1, <1>8, <2>1, SubtreeIs
<1>10. leaf.index = NodeIndex(n, 0)
  <2>1. NodeIndex(n, 0) = 2 * n + 1 - 1
    BY <1>8 DEF NodeIndex
  <2>2. QED
    BY <1>1, <1>2, <2>1
<1>11. ASSUME NEW place \in Subtrees(n + 1) \ Subtrees(base)
       PROVE  \/ place[1] + 2^place[2] = n + 1 /\ place[2] > 0
              \/ Stands(nodes, write'.tree, place)
  <2> DEFINE s == place[1]
             d == place[2]
             w == 2^d
  <2>1. /\ place = <<s, d>> /\ s \in Nat /\ d \in Depths /\ d \in Nat
        /\ s % w = 0 /\ s + w <= n + 1 /\ w \in Nat
    BY <1>9, PlaceIs, PowerGrows
  <2>2. CASE s + w = n + 1 /\ d = 0
    <3>1. w = 1
      BY <1>8, <2>2
    <3> HIDE DEF w
    <3>2. s = n
      BY <1>1, <2>1, <2>2, <3>1
    <3> HIDE DEF s, d
    <3>3. place = <<n, 0>>
      BY <2>1, <2>2, <3>2
    <3>4. QED
      BY <1>3, <1>4, <1>9, <1>10, <3>3, PutStands
  <2>3. CASE s + w # n + 1
    <3> HIDE DEF s, d, w
    <3>0. s \in Nat /\ w \in Nat /\ n \in Nat /\ s + w <= n + 1 /\ s + w # n + 1
      BY <1>1, <2>1, <2>3
    <3>1. s + w <= n
      <4> HIDE DEF n
      <4>1. QED
        BY <3>0
    <3>2. place \in Subtrees(n)
      BY <1>1, <2>1, <3>1, SubtreeIs DEF w
    <3>3. Stands(nodes, write.tree, place)
      BY <1>4, <3>2 DEF StandAll
    <3>4. QED
      BY <1>3, <1>4, <1>9, <1>10, <3>3, PutStands
  <2>4. QED
    BY <2>1, <2>2, <2>3
<1>12. WritesFit(nodes, write'.tree, n + 1)
  <2>1. n <= n + 1
    BY <1>1
  <2>2. QED
    BY <1>1, <1>3, <1>4, <1>9, <1>10, <2>1, PutFits
<1>13. MergingAt(nodes, base, 0)'
  <2>1. /\ Len(upgrade'.roots) = c + 1
        /\ SubSeq(upgrade'.roots, 1, c) = upgrade.roots
        /\ upgrade'.roots[c + 1] = leaf
    <3> HIDE DEF c
    <3>1. /\ Len(upgrade'.roots) = c + 1 /\ upgrade'.roots \in Seq(Node)
          /\ upgrade'.roots[c + 1] = leaf
          /\ \A k \in 1..c : upgrade'.roots[k] = upgrade.roots[k]
      BY <1>1, <1>2, <1>3, <1>5
    <3>2. /\ SubSeq(upgrade'.roots, 1, c) \in Seq(Node)
          /\ Len(SubSeq(upgrade'.roots, 1, c)) = c
          /\ \A k \in 1..c : SubSeq(upgrade'.roots, 1, c)[k] = upgrade'.roots[k]
      BY <1>1, <3>1
    <3>3. SubSeq(upgrade'.roots, 1, c) = upgrade.roots
      BY <1>1, <1>5, <3>1, <3>2, SeqEqual
    <3>4. QED
      BY <3>1, <3>3
  <2>2. upgrade'.length - 2^0 = n
    BY <1>3, <1>8
  <2>3. CursorOn(frame'.ite, n, 0)
    BY <1>1, <1>3, CursorOnLeaf
  <2>4. n \in Nat /\ n % 2^0 = 0
    BY <1>1, <1>8
  <2>5. \A place \in Subtrees(upgrade'.length) \ Subtrees(base) :
           \/ place[1] + 2^place[2] = upgrade'.length /\ place[2] > 0
           \/ Stands(nodes, write'.tree, place)
    BY <1>3, <1>11
  <2>6. /\ RootsFit(nodes, SubSeq(upgrade'.roots, 1, c), n)
        /\ upgrade'.roots[c + 1] \in nodes[<<n, 0>>]
    BY <1>4, <2>1
  <2> HIDE DEF n
  <2>7. QED
    BY <2>1, <2>2, <2>3, <2>4, <2>5, <2>6 DEF MergingAt
<1>14. QED
  BY <1>3, <1>6, <1>7, <1>8, <1>12, <1>13 DEF Merging

(* The last two roots are siblings exactly if the last one is a right      *)
(* child: the root before a left child ends where that one begins, and     *)
(* begins further left than its sibling would.                             *)
LEMMA MergeSide ==
  ASSUME NEW nodes, NEW base, NEW top, IsNodeMap(nodes, top), MerkleTypeOK,
         NEW d \in Depths, MergingAt(nodes, base, d),
         NEW start, start = upgrade.length - 2^d
  PROVE  \/ start % 2^(d + 1) = 0 /\ ~CanMerge
         \/ \E p \in Nat : /\ p % 2^(d + 1) = 0 /\ start = p + 2^d
                           /\ CanMerge
                           /\ RootCount(start) = RootCount(p) + 1
<1> DEFINE c == RootCount(start)
<1>1. /\ start \in Nat /\ start % 2^d = 0 /\ CursorOn(frame.ite, start, d)
      /\ Len(upgrade.roots) = c + 1
      /\ RootsFit(nodes, SubSeq(upgrade.roots, 1, c), start)
  BY DEF MergingAt
<1>2. /\ upgrade.roots \in Seq(Node) /\ c \in Nat /\ d \in Nat
      /\ 2^d \in Nat /\ 2^d > 0
  BY <1>1, RootDepthsFinite, PowerGrows DEF MerkleTypeOK, Depths
<1>3. ASSUME c > 0
      PROVE  /\ upgrade.roots[Len(upgrade.roots) - 1].index
                  = NodeIndex(RootStart(start, c), RootDepth(start, c))
             /\ NodeIndex(RootStart(start, c), RootDepth(start, c)) < 2 * start
             /\ NodeIndex(RootStart(start, c), RootDepth(start, c)) \in Nat
  <2> HIDE DEF c
  <2>1. c \in 1..c /\ (c + 1) - 1 = c
    BY <1>2, <1>3
  <2>2. SubSeq(upgrade.roots, 1, c)[c] = upgrade.roots[c]
    BY <1>1, <1>2, <2>1
  <2> DEFINE s == RootStart(start, c)
             e == RootDepth(start, c)
  <2>3. <<s, e>> \in Subtrees(start)
    BY <1>1, <2>1, RootIsSubtree DEF c
  <2>4. FullRoots(start)[c] < 2 * start /\ FullRoots(start)[c] \in Nat
    BY <1>1, <2>1, RootIndexBelow DEF c
  <2>5. FullRoots(start)[c] = NodeIndex(s, e)
    BY <2>1 DEF FullRoots, c
  <2>6. upgrade.roots[c] \in nodes[<<s, e>>]
    BY <1>1, <2>1, <2>2 DEF RootsFit, c
  <2> HIDE DEF s, e
  <2>7. s \in Nat /\ e \in Depths
    BY <1>1, <2>3, SubtreeIs
  <2>8. upgrade.roots[c].index = NodeIndex(s, e)
    BY <2>6, <2>7 DEF IsNodeMap
  <2>9. QED
    BY <1>1, <2>1, <2>4, <2>5, <2>8 DEF s, e
<1>4. CASE start % 2^(d + 1) = 0
  <2>1. Sibling(frame.ite).index = NodeIndex(start + 2^d, d)
    BY <1>1, <1>2, <1>4, SiblingOfLeft
  <2>2. NodeIndex(start + 2^d, d) > 2 * start
    <3> DEFINE w == 2^d
    <3>1. w \in Nat /\ w > 0
      BY <1>2
    <3>2. NodeIndex(start + w, d) = 2 * (start + w) + w - 1
      BY DEF NodeIndex
    <3> HIDE DEF w
    <3>3. NodeIndex(start + w, d) > 2 * start
      BY <1>1, <3>1, <3>2
    <3>4. QED
      BY <3>3 DEF w
  <2>3. ASSUME CanMerge
        PROVE  FALSE
    <3> DEFINE i == NodeIndex(RootStart(start, c), RootDepth(start, c))
               j == NodeIndex(start + 2^d, d)
    <3>1. Len(upgrade.roots) > 1
          /\ Sibling(frame.ite).index = upgrade.roots[Len(upgrade.roots) - 1].index
      BY <2>3 DEF CanMerge
    <3>2. c > 0
      <4> HIDE DEF c
      <4>1. QED
        BY <1>1, <1>2, <3>1
    <3>3. j = i /\ i < 2 * start /\ i \in Nat /\ j > 2 * start
      BY <1>3, <2>1, <2>2, <3>1, <3>2
    <3> HIDE DEF i, j, c
    <3>4. 2 * start \in Nat
      BY <1>1
    <3> DEFINE t == 2 * start
    <3>5. j = i /\ i < t /\ i \in Nat /\ j > t /\ t \in Nat
      BY <3>3, <3>4
    <3> HIDE DEF t
    <3>6. QED
      BY <3>5
  <2>4. QED
    BY <1>4, <2>3
<1>5. CASE start % 2^(d + 1) # 0
  <2> DEFINE p == start - 2^d
  <2>1. p \in Nat /\ p % 2^(d + 1) = 0
    BY <1>1, <1>2, <1>5, AlignedHalves
  <2>2. start = p + 2^d
    <3> DEFINE w == 2^d
    <3>1. w \in Nat
      BY <1>2
    <3> HIDE DEF w
    <3>2. start = (start - w) + w
      BY <1>1, <3>1
    <3>3. QED
      BY <3>2 DEF w
  <2> HIDE DEF p
  <2>3. /\ c = RootCount(p) + 1 /\ RootCount(p) \in Nat
        /\ RootDepth(start, c) = d /\ RootStart(start, c) = p
    BY <2>1, <2>2, RootsNext, RootDepthsFinite
  <2>4. Sibling(frame.ite).index = NodeIndex(p, d)
    BY <1>1, <1>2, <2>1, <2>2, SiblingOfRight
  <2>5. Len(upgrade.roots) > 1 /\ c > 0
    <3> HIDE DEF c
    <3>1. QED
      BY <1>1, <2>3
  <2>6. CanMerge
    BY <1>3, <2>3, <2>4, <2>5 DEF CanMerge
  <2>7. QED
    BY <2>1, <2>2, <2>3, <2>6
<1>6. QED
  BY <1>4, <1>5

(* Nothing merges: the roots are those of the length, and no deeper        *)
(* subtree ends here.                                                      *)
LEMMA MergeDoneGrown ==
  ASSUME NEW nodes, NEW base, NEW top, IsNodeMap(nodes, top), MerkleTypeOK,
         Merging(nodes, base), MergeDone
  PROVE  Grown(nodes, base)'
<1> DEFINE n == upgrade.length
<1>1. PICK d \in Depths : MergingAt(nodes, base, d)
  BY DEF Merging
<1> DEFINE start == n - 2^d
           c == RootCount(start)
<1>2. /\ start \in Nat /\ start % 2^d = 0
      /\ Len(upgrade.roots) = c + 1
      /\ RootsFit(nodes, SubSeq(upgrade.roots, 1, c), start)
      /\ upgrade.roots[c + 1] \in nodes[<<start, d>>]
      /\ \A place \in Subtrees(n) \ Subtrees(base) :
           \/ place[1] + 2^place[2] = n /\ place[2] > d
           \/ Stands(nodes, write.tree, place)
  BY <1>1 DEF MergingAt
<1>3. ~CanMerge /\ UNCHANGED <<upgrade, write>>
  BY DEF MergeDone
<1>4. start % 2^(d + 1) = 0
  BY <1>1, <1>3, MergeSide
<1>5. /\ upgrade.roots \in Seq(Node) /\ c \in Nat /\ d \in Nat /\ n \in Nat
      /\ 2^d \in Nat /\ 2^d > 0
  BY <1>2, RootDepthsFinite, PowerGrows DEF MerkleTypeOK, Depths
<1>6. n = start + 2^d
  <2> DEFINE w == 2^d
  <2>1. w \in Nat
    BY <1>5
  <2> HIDE DEF w, n
  <2>2. n = (n - w) + w
    BY <1>5, <2>1
  <2>3. QED
    BY <2>2 DEF w
<1> HIDE DEF start, n
<1>7. /\ RootCount(n) = c + 1
      /\ \A k \in 1..c : RootDepth(n, k) = RootDepth(start, k)
                         /\ RootStart(n, k) = RootStart(start, k)
      /\ RootDepth(n, c + 1) = d /\ RootStart(n, c + 1) = start
  BY <1>2, <1>4, <1>6, RootsNext
<1>8. RootsFit(nodes, upgrade.roots, n)
  <2>1. ASSUME NEW k \in 1..RootCount(n)
        PROVE  upgrade.roots[k] \in nodes[<<RootStart(n, k), RootDepth(n, k)>>]
    <3>1. CASE k = c + 1
      BY <1>2, <1>7, <3>1
    <3>2. CASE k # c + 1
      <4>1. k \in 1..c
        <5> HIDE DEF c
        <5>1. QED
          BY <1>5, <1>7, <3>2
      <4>2. SubSeq(upgrade.roots, 1, c)[k] = upgrade.roots[k]
        <5> HIDE DEF c
        <5>1. QED
          BY <1>2, <1>5, <4>1
      <4>3. SubSeq(upgrade.roots, 1, c)[k]
              \in nodes[<<RootStart(start, k), RootDepth(start, k)>>]
        BY <1>2, <4>1 DEF RootsFit
      <4>4. QED
        BY <1>7, <4>1, <4>2, <4>3
    <3>3. QED
      BY <3>1, <3>2
  <2>2. QED
    BY <1>2, <1>7, <2>1 DEF RootsFit
<1>9. StandAll(nodes, write.tree, Subtrees(n) \ Subtrees(base))
  <2>1. ASSUME NEW place \in Subtrees(n) \ Subtrees(base)
        PROVE  Stands(nodes, write.tree, place)
    <3> DEFINE s == place[1]
               e == place[2]
    <3>1. /\ s \in Nat /\ e \in Nat /\ s % 2^e = 0
      BY <1>5, PlaceIs
    <3>2. (s + 2^e = n /\ e > d) \/ Stands(nodes, write.tree, place)
      BY <1>2
    <3> HIDE DEF s, e
    <3>3. ~(s + 2^e = n /\ e > d)
      <4>1. ASSUME s + 2^e = n
            PROVE  e <= d
        BY <1>2, <1>4, <1>5, <1>6, <3>1, <4>1, DeepestAtEnd
      <4>2. QED
        BY <1>5, <3>1, <4>1
    <3>4. QED
      BY <3>2, <3>3
  <2>2. QED
    BY <2>1 DEF StandAll
<1>10. QED
  BY <1>3, <1>8, <1>9 DEF Grown, Merging, n

(* The parent of the last two roots is the next deeper subtree that ends   *)
(* here.                                                                   *)
LEMMA MergeMerging ==
  ASSUME NEW nodes, NEW base, NEW top, IsNodeMap(nodes, top), MerkleTypeOK,
         Merging(nodes, base), upgrade.length <= top, Merge, pc' = "merge"
  PROVE  Merging(nodes, base)'
<1> DEFINE n == upgrade.length
           len == Len(upgrade.roots)
           ite == Parent(Sibling(frame.ite))
           parent == ParentNode(ite.index, upgrade.roots[len],
                                upgrade.roots[len - 1])
<1>1. PICK d \in Depths : MergingAt(nodes, base, d)
  BY DEF Merging
<1> DEFINE start == n - 2^d
<1>2. /\ start \in Nat /\ start % 2^d = 0 /\ CursorOn(frame.ite, start, d)
      /\ Len(upgrade.roots) = RootCount(start) + 1
      /\ RootsFit(nodes, SubSeq(upgrade.roots, 1, RootCount(start)), start)
      /\ upgrade.roots[RootCount(start) + 1] \in nodes[<<start, d>>]
      /\ \A place \in Subtrees(n) \ Subtrees(base) :
           \/ place[1] + 2^place[2] = n /\ place[2] > d
           \/ Stands(nodes, write.tree, place)
  BY <1>1 DEF MergingAt
<1>3. /\ CanMerge
      /\ upgrade'.roots = Append(SubSeq(upgrade.roots, 1, len - 2), parent)
      /\ upgrade'.length = n /\ upgrade'.byte_length = upgrade.byte_length
      /\ frame'.ite = ite
      /\ write'.tree = Put(write.tree, parent.index, parent)
  BY DEF Merge, MerkleTypeOK
<1>4. PICK p \in Nat : /\ p % 2^(d + 1) = 0 /\ start = p + 2^d
                       /\ RootCount(start) = RootCount(p) + 1
  BY <1>1, <1>3, MergeSide
<1> DEFINE c == RootCount(p)
           w == 2^d
<1>5. /\ upgrade.roots \in Seq(Node) /\ c \in Nat /\ d \in Nat /\ n \in Nat
      /\ w \in Nat /\ w > 0 /\ 2^(d + 1) = 2 * w /\ len \in Nat
  <2>1. upgrade.roots \in Seq(Node) /\ n \in Nat /\ len \in Nat
    BY DEF MerkleTypeOK
  <2>2. c \in Nat /\ d \in Nat
    BY RootDepthsFinite DEF Depths
  <2>3. w \in Nat /\ w > 0 /\ 2^(d + 1) = 2 * w
    BY <2>2, PowerGrows, PowerDoubles
  <2>4. QED
    BY <2>1, <2>2, <2>3
<1>6. /\ n = p + 2 * w /\ start = p + w
  <2>1. start = n - w /\ start = p + w
    BY <1>4
  <2> HIDE DEF start, n, w
  <2>2. QED
    BY <1>2, <1>5, <2>1
<1> HIDE DEF start, n
<1>7. len = c + 2 /\ RootCount(start) = c + 1
  <2> HIDE DEF c
  <2>1. RootCount(start) = c + 1
    BY <1>4 DEF c
  <2>2. QED
    BY <1>2, <1>5, <2>1
<1>8. /\ \A k \in 1..c : RootDepth(start, k) = RootDepth(p, k)
                         /\ RootStart(start, k) = RootStart(p, k)
      /\ RootDepth(start, c + 1) = d /\ RootStart(start, c + 1) = p
  BY <1>4, RootsNext
<1>9. CursorOn(ite, p, d + 1)
  BY <1>2, <1>4, <1>5, SiblingOfRight
<1>10. d + 1 \in Depths
  <2>1. LengthInRange(n)
    BY DEF Merging, n
  <2>2. 2^(d + 1) <= n
    <3> HIDE DEF w
    <3>1. 2 * w <= n
      BY <1>5, <1>6
    <3>2. QED
      BY <1>5, <3>1
  <2>3. QED
    BY <1>5, <2>1, <2>2, DepthFits DEF LengthInRange
<1>11. upgrade.roots[len] \in nodes[<<p + 2^d, d>>]
       /\ upgrade.roots[len - 1] \in nodes[<<p, d>>]
  <2>1. upgrade.roots[len] \in nodes[<<start, d>>]
    <3> HIDE DEF c, len
    <3>1. RootCount(start) + 1 = len
      BY <1>5, <1>7
    <3>2. QED
      BY <1>2, <3>1
  <2>2. upgrade.roots[len - 1] \in nodes[<<p, d>>]
    <3> DEFINE q == SubSeq(upgrade.roots, 1, c + 1)
    <3>0. RootsFit(nodes, q, start)
      BY <1>2, <1>7
    <3>1. q[c + 1] \in nodes[<<p, d>>]
      <4> HIDE DEF q
      <4>1. c + 1 \in 1..RootCount(start)
        <5> HIDE DEF c
        <5>1. QED
          BY <1>5, <1>7
      <4>2. q[c + 1] \in nodes[<<RootStart(start, c + 1), RootDepth(start, c + 1)>>]
        BY <3>0, <4>1 DEF RootsFit
      <4>3. QED
        BY <1>8, <4>2
    <3> HIDE DEF c, len
    <3>2. q[c + 1] = upgrade.roots[c + 1] /\ len - 1 = c + 1
      BY <1>5, <1>7 DEF len
    <3>3. QED
      BY <3>1, <3>2
  <2>3. QED
    BY <1>4, <2>1, <2>2
<1>12. parent.index = NodeIndex(p, d + 1)
       /\ parent.size = upgrade.roots[len].size + upgrade.roots[len - 1].size
       /\ parent \in nodes[<<p, d + 1>>]
  <2>1. ite.index = NodeIndex(p, d + 1)
    BY <1>9 DEF CursorOn
  <2>2. p + 2^(d + 1) <= top
    <3>1. p + 2 * w <= top
      BY <1>6 DEF n
    <3>2. QED
      BY <1>5, <3>1
  <2>3. ParentNode(NodeIndex(p, d + 1), upgrade.roots[len],
                   upgrade.roots[len - 1]) \in nodes[<<p, d + 1>>]
    BY <1>4, <1>10, <1>11, <2>2 DEF IsNodeMap
  <2> HIDE DEF ite
  <2>4. QED
    BY <2>1, <2>3 DEF ParentNode
<1>13. parent \in Node
  <2>1. upgrade.roots[len] \in Node /\ upgrade.roots[len - 1] \in Node
    <3> HIDE DEF c
    <3>1. len \in 1..len /\ len - 1 \in 1..len
      BY <1>5, <1>7
    <3>2. QED
      BY <1>5, <3>1
  <2>2. ite.index \in Nat
    <3>1. ite.index = NodeIndex(p, d + 1)
      BY <1>9 DEF CursorOn
    <3> HIDE DEF w
    <3>2. 2 * p + 2 * w - 1 \in Nat
      BY <1>5
    <3>3. QED
      BY <1>5, <3>1, <3>2 DEF NodeIndex
  <2>3. QED
    BY <2>1, <2>2, ParentNodeType
<1> DEFINE front == SubSeq(upgrade.roots, 1, c)
<1>14. /\ front \in Seq(Node) /\ Len(front) = c
       /\ upgrade'.roots = Append(front, parent)
       /\ \A k \in 1..c : front[k] = upgrade.roots[k]
  <2> HIDE DEF c, parent
  <2>1. c <= Len(upgrade.roots) /\ len - 2 = c
    BY <1>5, <1>7
  <2>2. /\ front \in Seq(Node) /\ Len(front) = c
        /\ \A k \in 1..c : front[k] = upgrade.roots[k]
    BY <1>5, <2>1, SubSeqProperties
  <2>3. QED
    BY <1>3, <2>1, <2>2
<1>15. upgrade'.byte_length = Total(SizesOf(upgrade'.roots))
  <2> DEFINE a == upgrade.roots[len]
             b == upgrade.roots[len - 1]
  <2>1. a \in Node /\ b \in Node
    <3> HIDE DEF c
    <3>1. len \in 1..len /\ len - 1 \in 1..len
      BY <1>5, <1>7
    <3>2. QED
      BY <1>5, <3>1
  <2>2. upgrade.roots = Append(Append(front, b), a)
    <3> HIDE DEF c, front
    <3> DEFINE r == Append(Append(front, b), a)
    <3> HIDE DEF a, b
    <3>1. /\ r \in Seq(Node) /\ Len(r) = c + 2
          /\ r[c + 2] = a /\ r[c + 1] = b
          /\ \A k \in 1..c : r[k] = front[k]
      BY <1>5, <1>14, <2>1
    <3>2. upgrade.roots[c + 2] = a /\ upgrade.roots[c + 1] = b
      <4>1. len - 1 = c + 1
        BY <1>5, <1>7
      <4>2. QED
        BY <1>7, <4>1 DEF a, b
    <3> HIDE DEF r
    <3>3. ASSUME NEW k \in 1..c + 2
          PROVE  r[k] = upgrade.roots[k]
      <4>1. k \in 1..c \/ k = c + 1 \/ k = c + 2
        BY <1>5
      <4>2. QED
        BY <1>14, <3>1, <3>2, <4>1
    <3>4. r = upgrade.roots
      BY <1>5, <1>7, <3>1, <3>3, SeqEqual
    <3>5. QED
      BY <3>4 DEF r
  <2>3. Append(front, b) \in Seq(Node)
    <3> HIDE DEF front, b, c
    <3>1. QED
      BY <1>14, <2>1
  <2>4. upgrade.byte_length = Total(SizesOf(upgrade.roots))
    BY DEF Merging
  <2> HIDE DEF front, a, b
  <2>5. Total(SizesOf(Append(Append(front, b), a)))
          = Total(SizesOf(Append(front, b))) + a.size
    BY <2>1, <2>3, SizesAppend
  <2>6. Total(SizesOf(Append(front, b))) = Total(SizesOf(front)) + b.size
    BY <1>14, <2>1, SizesAppend
  <2> HIDE DEF parent
  <2>7. Total(SizesOf(Append(front, parent))) = Total(SizesOf(front)) + parent.size
        /\ Total(SizesOf(front)) \in Nat
    BY <1>13, <1>14, SizesAppend
  <2>8. a.size \in Nat /\ b.size \in Nat /\ parent.size = a.size + b.size
    BY <1>12, <2>1 DEF Node, a, b
  <2> DEFINE t == Total(SizesOf(front))
             x == a.size
             y == b.size
             z == parent.size
  <2>9. /\ t \in Nat /\ x \in Nat /\ y \in Nat /\ z = x + y
        /\ upgrade.byte_length = (t + y) + x
        /\ Total(SizesOf(upgrade'.roots)) = t + z
    BY <1>14, <2>2, <2>4, <2>5, <2>6, <2>7, <2>8
  <2> HIDE DEF t, x, y, z
  <2>10. QED
    BY <1>3, <2>9
<1>16. <<p, d + 1>> \in Subtrees(n)
  <2>1. p + 2^(d + 1) <= n
    <3> HIDE DEF w
    <3>1. p + 2 * w <= n
      BY <1>5, <1>6
    <3>2. QED
      BY <1>5, <3>1
  <2>2. QED
    BY <1>4, <1>5, <1>10, <2>1, SubtreeIs
<1> HIDE DEF parent, ite, len
<1>17. ASSUME NEW place \in Subtrees(n) \ Subtrees(base)
       PROVE  \/ place[1] + 2^place[2] = n /\ place[2] > d + 1
              \/ Stands(nodes, write'.tree, place)
  <2> DEFINE s == place[1]
             e == place[2]
  <2>1. /\ place = <<s, e>> /\ s \in Nat /\ e \in Nat
    BY <1>5, PlaceIs
  <2>2. CASE s + 2^e = n /\ e = d + 1
    <3>1. s = p
      <4>1. s + 2 * w = p + 2 * w
        BY <1>5, <1>6, <2>2
      <4> HIDE DEF s, w
      <4>2. QED
        BY <1>5, <2>1, <4>1
    <3>2. place = <<p, d + 1>>
      BY <2>1, <2>2, <3>1
    <3>3. QED
      BY <1>3, <1>5, <1>12, <1>16, <3>2, PutStands
  <2>3. CASE s + 2^e = n /\ e > d + 1
    BY <2>3
  <2>4. CASE ~(s + 2^e = n /\ e > d)
    <3>1. Stands(nodes, write.tree, place)
      BY <1>2, <2>4
    <3>2. QED
      BY <1>3, <1>5, <1>12, <1>16, <3>1, PutStands
  <2>5. e > d => e = d + 1 \/ e > d + 1
    <3> HIDE DEF e
    <3>1. QED
      BY <1>5, <2>1
  <2>6. QED
    BY <2>2, <2>3, <2>4, <2>5
<1>18. WritesFit(nodes, write'.tree, n)
  <2>1. WritesFit(nodes, write.tree, n) /\ n <= n
    BY <1>5 DEF Merging, n
  <2>2. QED
    BY <1>3, <1>5, <1>12, <1>16, <2>1, PutFits
<1>19. MergingAt(nodes, base, d + 1)'
  <2>1. n - 2^(d + 1) = p
    <3> HIDE DEF w
    <3>1. n - 2 * w = p
      BY <1>5, <1>6
    <3>2. QED
      BY <1>5, <3>1
  <2>2. /\ Len(upgrade'.roots) = c + 1
        /\ upgrade'.roots[c + 1] = parent
        /\ SubSeq(upgrade'.roots, 1, c) = front
    <3> HIDE DEF c, front
    <3>1. /\ Len(upgrade'.roots) = c + 1 /\ upgrade'.roots \in Seq(Node)
          /\ upgrade'.roots[c + 1] = parent
          /\ \A k \in 1..c : upgrade'.roots[k] = front[k]
      BY <1>5, <1>13, <1>14
    <3>2. /\ SubSeq(upgrade'.roots, 1, c) \in Seq(Node)
          /\ Len(SubSeq(upgrade'.roots, 1, c)) = c
          /\ \A k \in 1..c : SubSeq(upgrade'.roots, 1, c)[k] = upgrade'.roots[k]
      BY <1>5, <3>1
    <3>3. SubSeq(upgrade'.roots, 1, c) = front
      BY <1>5, <1>14, <3>1, <3>2, SeqEqual
    <3>4. QED
      BY <3>1, <3>3
  <2>3. RootsFit(nodes, front, p)
    <3>1. ASSUME NEW k \in 1..c
          PROVE  front[k] \in nodes[<<RootStart(p, k), RootDepth(p, k)>>]
      <4> DEFINE q == SubSeq(upgrade.roots, 1, c + 1)
      <4>1. RootsFit(nodes, q, start)
        BY <1>2, <1>7
      <4>2. k \in 1..RootCount(start)
        <5> HIDE DEF c
        <5>1. QED
          BY <1>5, <1>7
      <4>3. q[k] \in nodes[<<RootStart(start, k), RootDepth(start, k)>>]
        <5> HIDE DEF q
        <5>1. QED
          BY <4>1, <4>2 DEF RootsFit
      <4>4. q[k] = upgrade.roots[k]
        <5> HIDE DEF c
        <5>1. QED
          BY <1>5, <1>7 DEF len
      <4>5. QED
        BY <1>8, <1>14, <4>3, <4>4
    <3>2. QED
      BY <1>14, <3>1 DEF RootsFit
  <2>4. \A place \in Subtrees(upgrade'.length) \ Subtrees(base) :
           \/ place[1] + 2^place[2] = upgrade'.length /\ place[2] > d + 1
           \/ Stands(nodes, write'.tree, place)
    BY <1>3, <1>17
  <2>5. CursorOn(frame'.ite, p, d + 1)
    BY <1>3, <1>9
  <2>6. upgrade'.length - 2^(d + 1) = p
    BY <1>3, <2>1
  <2> HIDE DEF front, w
  <2>7. QED
    BY <1>4, <1>12, <2>2, <2>3, <2>4, <2>5, <2>6 DEF MergingAt
<1>20. QED
  BY <1>3, <1>10, <1>15, <1>18, <1>19 DEF Merging, n

-----------------------------------------------------------------------------
(* A batch of nodes that fit takes no place from a node that fits.         *)
LEMMA PutAllStands ==
  ASSUME NEW nodes, NEW tree, NEW batch, NEW n \in Nat,
         WritesFit(nodes, batch, n), NEW m \in Nat, NEW place \in Subtrees(m),
         Stands(nodes, tree, place) \/ Stands(nodes, batch, place)
  PROVE  Stands(nodes, PutAll(tree, batch), place)
<1> DEFINE index == NodeIndex(place[1], place[2])
           new == PutAll(tree, batch)
<1>1. CASE index \in DOMAIN batch
  <2>1. PICK at \in Subtrees(n) :
          index = NodeIndex(at[1], at[2]) /\ batch[index] \in nodes[at]
    BY <1>1 DEF WritesFit
  <2> DEFINE s == place[1]
             d == place[2]
             t == at[1]
             e == at[2]
  <2>2. /\ place = <<s, d>> /\ s \in Nat /\ d \in Nat /\ s % 2^d = 0
        /\ at = <<t, e>> /\ t \in Nat /\ e \in Nat /\ t % 2^e = 0
        /\ NodeIndex(s, d) = NodeIndex(t, e)
    BY <2>1, PlaceIs
  <2> HIDE DEF s, d, t, e
  <2>3. place = at
    BY <2>2, IndexNames
  <2>4. index \in DOMAIN new /\ new[index] = batch[index]
    BY <1>1 DEF PutAll
  <2>5. QED
    BY <2>1, <2>3, <2>4 DEF Stands
<1>2. CASE index \notin DOMAIN batch
  <2>1. index \in DOMAIN tree /\ tree[index] \in nodes[place]
    BY <1>2 DEF Stands
  <2>2. index \in DOMAIN new /\ new[index] = tree[index]
    BY <1>2, <2>1 DEF PutAll
  <2>3. QED
    BY <2>1, <2>2 DEF Stands
<1>3. QED
  BY <1>1, <1>2

(* The batch of an upgrade brings a store from the subtrees of one length  *)
(* to those of the next.                                                   *)
LEMMA FlushStands ==
  ASSUME NEW nodes, NEW tree, NEW batch, NEW m \in Nat, NEW n \in Nat,
         WritesFit(nodes, batch, n),
         StandAll(nodes, tree, Subtrees(m)),
         StandAll(nodes, batch, Subtrees(n) \ Subtrees(m))
  PROVE  /\ StandAll(nodes, PutAll(tree, batch), Subtrees(n))
         /\ StandAll(nodes, PutAll(tree, batch), Subtrees(m))
<1>1. ASSUME NEW place \in Subtrees(n)
      PROVE  Stands(nodes, PutAll(tree, batch), place)
  <2>1. Stands(nodes, tree, place) \/ Stands(nodes, batch, place)
    BY DEF StandAll
  <2>2. QED
    BY <2>1, PutAllStands
<1>2. ASSUME NEW place \in Subtrees(m)
      PROVE  Stands(nodes, PutAll(tree, batch), place)
  <2>1. Stands(nodes, tree, place)
    BY DEF StandAll
  <2>2. QED
    BY <2>1, PutAllStands
<1>3. QED
  BY <1>1, <1>2 DEF StandAll

(* What fits one map fits another that has the same nodes so far.          *)
LEMMA GrownOver ==
  ASSUME NEW nodes, NEW more, NEW base, MerkleTypeOK,
         \A place \in Subtrees(upgrade.length) : nodes[place] = more[place],
         Grown(nodes, base)
  PROVE  Grown(more, base)
<1> DEFINE n == upgrade.length
<1>1. n \in Nat
  BY DEF MerkleTypeOK
<1>2. RootsFit(more, upgrade.roots, n)
  <2>1. ASSUME NEW k \in 1..RootCount(n)
        PROVE  nodes[<<RootStart(n, k), RootDepth(n, k)>>]
                 = more[<<RootStart(n, k), RootDepth(n, k)>>]
    BY <1>1, RootIsSubtree
  <2>2. QED
    BY <2>1 DEF RootsFit, Grown
<1>3. /\ StandAll(more, write.tree, Subtrees(n) \ Subtrees(base))
      /\ WritesFit(more, write.tree, n)
  BY DEF StandAll, Stands, WritesFit, Grown
<1>4. QED
  BY <1>2, <1>3 DEF Grown

-----------------------------------------------------------------------------
(* The nodes over the first blocks are nodes over all of them.             *)
LEMMA NodesOfPrefix ==
  ASSUME NEW s \in Seq(Blocks), NEW t \in Seq(Blocks),
         NEW place \in Subtrees(Len(s))
  PROVE  /\ NodesOver(s)[place] = {TreeNode(s, place[1], place[2])}
         /\ NodesOver(s \o t)[place] = NodesOver(s)[place]
<1> DEFINE a == place[1]
           d == place[2]
<1>1. /\ place = <<a, d>> /\ a \in Nat /\ d \in Depths /\ d \in Nat
      /\ a + 2^d <= Len(s)
  <2>1. Len(s) \in Nat
    OBVIOUS
  <2>2. QED
    BY <2>1, PlaceIs
<1>2. place \in Places
  <2> HIDE DEF a, d
  <2>1. QED
    BY <1>1 DEF Places
<1>3. TreeNode(s \o t, a, d) = TreeNode(s, a, d)
  BY <1>1, NodeOfPrefix
<1>4. QED
  BY <1>2, <1>3 DEF NodesOver

(* The roots over the first blocks fit.                                    *)
LEMMA TreeRootsFit ==
  ASSUME NEW s \in Seq(Blocks), NEW t \in Seq(Blocks)
  PROVE  RootsFit(NodesOver(s \o t), TreeRoots(s), Len(s))
<1> DEFINE n == Len(s)
<1>1. n \in Nat /\ Len(TreeRoots(s)) = RootCount(n)
  BY TreeRootsType
<1>2. ASSUME NEW k \in 1..RootCount(n)
      PROVE  TreeRoots(s)[k]
               \in NodesOver(s \o t)[<<RootStart(n, k), RootDepth(n, k)>>]
  <2> DEFINE place == <<RootStart(n, k), RootDepth(n, k)>>
  <2>1. place \in Subtrees(n)
    BY <1>1, RootIsSubtree
  <2>2. TreeRoots(s)[k] = TreeNode(s, place[1], place[2])
    BY DEF TreeRoots
  <2> HIDE DEF place
  <2>3. NodesOver(s \o t)[place] = {TreeNode(s, place[1], place[2])}
    BY <2>1, NodesOfPrefix
  <2>4. QED
    BY <2>2, <2>3 DEF place
<1>3. QED
  BY <1>1, <1>2 DEF RootsFit

(* And those that fit are the roots.                                       *)
LEMMA RootsAreTree ==
  ASSUME NEW blocks \in Seq(Blocks), NEW roots \in Seq(Node),
         RootsFit(NodesOver(blocks), roots, Len(blocks))
  PROVE  roots = TreeRoots(blocks)
<1> DEFINE n == Len(blocks)
<1>1. /\ n \in Nat /\ TreeRoots(blocks) \in Seq(Node)
      /\ Len(TreeRoots(blocks)) = RootCount(n) /\ Len(roots) = RootCount(n)
  BY TreeRootsType DEF RootsFit
<1>2. ASSUME NEW k \in 1..RootCount(n)
      PROVE  roots[k] = TreeRoots(blocks)[k]
  <2> DEFINE place == <<RootStart(n, k), RootDepth(n, k)>>
  <2>1. place \in Subtrees(n)
    BY <1>1, RootIsSubtree
  <2>2. TreeRoots(blocks)[k] = TreeNode(blocks, place[1], place[2])
    BY DEF TreeRoots
  <2>3. roots[k] \in NodesOver(blocks)[place]
    BY DEF RootsFit
  <2> HIDE DEF place
  <2>4. NodesOver(blocks)[place] = {TreeNode(blocks, place[1], place[2])}
    BY <2>1, NodesOfPrefix
  <2>5. QED
    BY <2>2, <2>3, <2>4
<1>3. QED
  BY <1>1, <1>2, SeqEqual

(* A leaf is a node over one block, and has its index.                     *)
LEMMA LeafFits ==
  ASSUME NEW n \in Nat, NEW block \in Blocks
  PROVE  /\ LeafNode(2 * n, block) \in IndexedNodes[<<n, 0>>]
         /\ \A blocks \in Seq(Blocks) :
              n < Len(blocks) /\ blocks[n + 1] = block =>
                LeafNode(2 * n, block) \in NodesOver(blocks)[<<n, 0>>]
<1>1. 2^0 = 1 /\ <<n, 0>> \in Places
  BY PowerZero, MaxDepthAssumption DEF Places, Depths
<1>2. NodeIndex(n, 0) = 2 * n
  <2>1. NodeIndex(n, 0) = 2 * n + 1 - 1
    BY <1>1 DEF NodeIndex
  <2>2. QED
    BY <2>1
<1>3. LeafNode(2 * n, block) \in IndexedNodes[<<n, 0>>]
  <2>1. LeafNode(2 * n, block) \in Node /\ LeafNode(2 * n, block).index = 2 * n
    BY LeafNodeType DEF LeafNode
  <2>2. QED
    BY <1>1, <1>2, <2>1 DEF IndexedNodes
<1>4. ASSUME NEW blocks \in Seq(Blocks), n < Len(blocks),
             blocks[n + 1] = block
      PROVE  LeafNode(2 * n, block) \in NodesOver(blocks)[<<n, 0>>]
  <2>1. SubSeq(blocks, n + 1, n + 1) = <<block>>
    <3> DEFINE part == SubSeq(blocks, n + 1, n + 1)
    <3>1. n + 1 \in 1..Len(blocks)
      BY <1>4
    <3>2. part \in Seq(Blocks) /\ Len(part) = 1 /\ part[1] = blocks[n + 1]
      BY <3>1, SubSeqProperties
    <3>3. <<block>> \in Seq(Blocks) /\ Len(<<block>>) = 1 /\ <<block>>[1] = block
      OBVIOUS
    <3> HIDE DEF part
    <3>4. part = <<block>>
      BY <1>4, <3>2, <3>3, SeqEqual
    <3>5. QED
      BY <3>4 DEF part
  <2>2. ByteLength(<<block>>) = BlockLen[block]
    <3> DEFINE sizes == [k \in DOMAIN <<block>> |-> BlockLen[<<block>>[k]]]
    <3>1. sizes = Append(<<>>, BlockLen[block])
      OBVIOUS
    <3>2. Total(sizes) = Total(<<>>) + BlockLen[block]
      <4>1. BlockLen[block] \in Nat /\ <<>> \in Seq(Nat)
        BY BlockAssumption
      <4> HIDE DEF sizes
      <4>2. QED
        BY <3>1, <4>1, TotalAppend
    <3>3. BlockLen[block] \in Nat
      BY BlockAssumption
    <3>4. QED
      BY <3>2, <3>3, TotalEmpty DEF ByteLength
  <2>3. TreeNode(blocks, n, 0) = LeafNode(2 * n, block)
    BY <1>1, <1>2, <2>1, <2>2 DEF TreeNode, LeafNode
  <2>4. QED
    BY <1>1, <2>3 DEF NodesOver
<1>5. QED
  BY <1>3, <1>4

(* A batch and an upgrade that stay as they are stay grown.                *)
LEMMA SameGrown ==
  ASSUME NEW nodes, NEW base, Grown(nodes, base), UNCHANGED upgrade,
         write'.tree = write.tree
  PROVE  Grown(nodes, base)'
BY DEF Grown

(* Every step of hc_merkle_tree_append keeps the upgrade a tree over what  *)
(* was appended so far, whatever the nodes are said to be.                 *)
LEMMA MerkleStepGrowing ==
  ASSUME NEW nodes, NEW top, NEW c, IsNodeMap(nodes, top), MerkleTypeOK,
         MaxRoots = MaxDepth + 1, MerkleStep(c), CoreFits(nodes, c),
         Growing(nodes, c),
         pc = "merge" => upgrade.length <= top,
         pc = "leaf" /\ frame.i < Len(frame.buffers) =>
           LeafNode(2 * upgrade.length, frame.buffers[frame.i + 1])
             \in nodes[<<upgrade.length, 0>>]
  PROVE  Growing(nodes, c)'
<1>1. /\ pc # "failed" /\ ~upgrade.forked => write.tree = EmptyMap
      /\ pc \in {"leaf", "merge"} => upgrade.forked
      /\ pc \in {"append", "leaf"} /\ upgrade.forked => Grown(nodes, c.length)
      /\ pc = "merge" => Merging(nodes, c.length)
  BY DEF Growing
<1>2. CASE AppendNothing
  <2>1. /\ pc = "append" /\ pc' = "appended" /\ UNCHANGED <<upgrade, write, frame>>
        /\ frame.buffers = <<>>
    BY <1>2 DEF AppendNothing
  <2>2. upgrade.forked => Grown(nodes, c.length)'
    BY <1>1, <2>1, SameGrown
  <2>3. QED
    BY <1>1, <2>1, <2>2 DEF Growing
<1>3. CASE ForkUpgrade(c)
  <2>1. /\ pc = "append" /\ pc' = "leaf" /\ UNCHANGED <<write, frame>>
        /\ upgrade' \in ForkedFrom(c)
    BY <1>3 DEF ForkUpgrade
  <2>2. upgrade'.forked
    BY <2>1 DEF ForkedFrom
  <2>3. Grown(nodes, c.length)'
    <3>1. CASE upgrade.forked
      <4>1. upgrade' = upgrade
        BY <2>1, <3>1 DEF ForkedFrom
      <4>2. QED
        BY <1>1, <2>1, <3>1, <4>1, SameGrown
    <3>2. CASE ~upgrade.forked
      BY <1>1, <1>3, <2>1, <3>2, ForkGrown DEF CoreFits
    <3>3. QED
      BY <3>1, <3>2
  <2>4. QED
    BY <2>1, <2>2, <2>3 DEF Growing
<1>4. CASE ForkFails(c) \/ RootsFull
  <2>1. pc' = "failed"
    BY <1>4 DEF ForkFails, RootsFull
  <2>2. QED
    BY <2>1 DEF Growing
<1>5. CASE PushLeaf
  <2>1. /\ pc = "leaf" /\ pc' \in {"merge", "failed"}
        /\ frame.i < Len(frame.buffers)
        /\ upgrade'.forked = upgrade.forked
    BY <1>5 DEF PushLeaf, MerkleTypeOK
  <2>2. pc' = "merge" => Merging(nodes, c.length)'
    BY <1>1, <1>5, <2>1, PushLeafMerging
  <2>3. QED
    BY <1>1, <2>1, <2>2 DEF Growing
<1>6. CASE Merge
  <2>1. /\ pc = "merge" /\ pc' \in {"merge", "failed"}
        /\ upgrade'.forked = upgrade.forked
    BY <1>6 DEF Merge, MerkleTypeOK
  <2>2. pc' = "merge" => Merging(nodes, c.length)'
    BY <1>1, <1>6, <2>1, MergeMerging
  <2>3. QED
    BY <1>1, <2>1, <2>2 DEF Growing
<1>7. CASE MergeDone
  <2>1. /\ pc = "merge" /\ pc' = "leaf" /\ UNCHANGED <<upgrade, write>>
    BY <1>7 DEF MergeDone
  <2>2. Grown(nodes, c.length)'
    BY <1>1, <1>7, <2>1, MergeDoneGrown
  <2>3. QED
    BY <1>1, <2>1, <2>2 DEF Growing
<1>8. CASE LeavesDone
  <2>1. /\ pc = "leaf" /\ pc' = "appended" /\ UNCHANGED <<upgrade, write, frame>>
    BY <1>8 DEF LeavesDone
  <2>2. Grown(nodes, c.length)'
    BY <1>1, <2>1, SameGrown
  <2>3. QED
    BY <1>1, <2>1, <2>2 DEF Growing
<1>9. QED
  BY <1>2, <1>3, <1>4, <1>5, <1>6, <1>7, <1>8 DEF MerkleStep

=============================================================================
