----------------------------- MODULE NumberProofs ---------------------------
(***************************************************************************)
(* Facts about numbers and lists that the provers do not know: least and   *)
(* greatest elements of a set, powers of two, quotients, and the total of  *)
(* a list (FlatTree, GrowableArray, Hashes, Keys, Schema).                 *)
(***************************************************************************)
EXTENDS Sums, Integers, FiniteSetTheorems, SequenceTheorems,
        WellFoundedInduction, TLAPS

(* Every set of natural numbers has a least one.                           *)
LEMMA LeastNumber ==
  ASSUME NEW T, T \subseteq Nat, T # {}
  PROVE  \E x \in T : \A y \in T : x <= y
<1>1. PICK n \in T : TRUE
  OBVIOUS
<1> DEFINE below == {0..m : m \in {t \in T : t <= n}}
<1>2. n \in Nat /\ IsFiniteSet(0..n)
  BY FS_Interval
<1>3. IsWellFoundedOn(StrictSubsetOrdering(0..n), SUBSET (0..n))
  BY <1>2, FS_StrictSubsetOrderingWellFounded, FS_FiniteSubsetsOfFinite
<1>4. below \subseteq SUBSET (0..n) /\ 0..n \in below
  <2>1. \A t \in T : t <= n => 0..t \subseteq 0..n
    BY <1>2
  <2>2. QED
    BY <1>2, <2>1
<1>5. PICK s \in below : \A r \in below :
        <<r, s>> \notin StrictSubsetOrdering(0..n)
  <2> HIDE DEF below
  <2>1. QED
    BY <1>3, <1>4, WFMin
<1>6. PICK x \in T : x <= n /\ s = 0..x
  OBVIOUS
<1>7. ASSUME NEW y \in T, ~(x <= y)
      PROVE  FALSE
  <2>1. 0..y \in below /\ 0..y \subseteq 0..x /\ x \notin 0..y /\ x \in 0..x
    BY <1>2, <1>6, <1>7
  <2>2. <<0..y, s>> \in StrictSubsetOrdering(0..n)
    BY <1>4, <1>6, <2>1 DEF StrictSubsetOrdering
  <2>3. QED
    BY <1>5, <2>1, <2>2
<1>8. QED
  BY <1>7

(* Every set of natural numbers with a bound has a greatest one.           *)
LEMMA GreatestNumber ==
  ASSUME NEW T, T \subseteq Nat, T # {}, NEW n \in Nat,
         \A y \in T : y <= n
  PROVE  \E x \in T : \A y \in T : x >= y
<1> DEFINE gaps == {n - y : y \in T}
<1>1. gaps \subseteq Nat /\ gaps # {}
  OBVIOUS
<1>2. PICK g \in gaps : \A h \in gaps : g <= h
  BY <1>1, LeastNumber
<1>3. PICK x \in T : g = n - x
  OBVIOUS
<1>4. ASSUME NEW y \in T
      PROVE  x >= y
  <2>1. n - x <= n - y
    BY <1>2, <1>3
  <2>2. QED
    BY <2>1
<1>5. QED
  BY <1>4

-----------------------------------------------------------------------------
(* 2^n counts the subsets of n elements.                                   *)
LEMMA PowerCounts ==
  ASSUME NEW n \in Nat
  PROVE  /\ IsFiniteSet(SUBSET (1..n))
         /\ Cardinality(SUBSET (1..n)) = 2^n
         /\ 2^n \in Nat
<1>1. IsFiniteSet(1..n) /\ Cardinality(1..n) = n
  BY FS_Interval
<1>2. QED
  BY <1>1, FS_SUBSET, FS_CardinalityType

LEMMA PowerZero == 2^0 = 1
OBVIOUS

(* A subset of one more element has it or not.                             *)
LEMMA PowerDoubles ==
  ASSUME NEW n \in Nat
  PROVE  2^(n + 1) = 2 * 2^n
<1> DEFINE old == SUBSET (1..n)
           new == {s \cup {n + 1} : s \in old}
<1>1. /\ IsFiniteSet(old) /\ Cardinality(old) = 2^n /\ 2^n \in Nat
      /\ Cardinality(SUBSET (1..n + 1)) = 2^(n + 1)
  BY PowerCounts
<1>2. SUBSET (1..n + 1) = old \cup new
  <2>1. ASSUME NEW s \in SUBSET (1..n + 1), s \notin old
        PROVE  s \in new
    <3>1. n + 1 \in s /\ s \ {n + 1} \in old
      BY <2>1
    <3>2. s = (s \ {n + 1}) \cup {n + 1}
      BY <3>1
    <3>3. QED
      BY <3>1, <3>2
  <2>2. old \subseteq SUBSET (1..n + 1) /\ new \subseteq SUBSET (1..n + 1)
    <3>1. 1..n \subseteq 1..n + 1 /\ n + 1 \in 1..n + 1
      OBVIOUS
    <3>2. QED
      BY <3>1
  <2>3. QED
    BY <2>1, <2>2
<1>3. old \cap new = {}
  OBVIOUS
<1>4. IsFiniteSet(new) /\ Cardinality(new) = Cardinality(old)
  <2> DEFINE f == [s \in old |-> s \cup {n + 1}]
  <2>1. f \in Bijection(old, new)
    <3>1. \A s, t \in old : f[s] = f[t] => s = t
      <4>1. ASSUME NEW s \in old, NEW t \in old, f[s] = f[t]
            PROVE  s = t
        <5>1. n + 1 \notin s /\ n + 1 \notin t
          OBVIOUS
        <5>2. s \cup {n + 1} = t \cup {n + 1}
          BY <4>1
        <5>3. QED
          BY <5>1, <5>2
      <4>2. QED
        BY <4>1
    <3>2. f \in [old -> new] /\ \A r \in new : \E s \in old : f[s] = r
      OBVIOUS
    <3>3. QED
      BY <3>1, <3>2 DEF Bijection, Injection, Surjection, IsInjective
  <2> HIDE DEF f, old, new
  <2>2. QED
    BY <1>1, <2>1, FS_Bijection DEF ExistsBijection
<1> HIDE DEF old, new
<1>5. Cardinality(old \cap new) = 0
  BY <1>3, FS_EmptySet
<1>6. Cardinality(old \cup new) =
        Cardinality(old) + Cardinality(new) - Cardinality(old \cap new)
  BY <1>1, <1>4, FS_Union
<1>7. 2^(n + 1) = Cardinality(old \cup new)
  BY <1>1, <1>2, Zenon
<1>8. Cardinality(old \cup new) = 2 * 2^n
  BY <1>1, <1>4, <1>5, <1>6
<1>9. QED
  BY <1>7, <1>8

(* Powers of two are positive, and grow without bound.                     *)
LEMMA PowerGrows ==
  ASSUME NEW n \in Nat
  PROVE  2^n \in Nat /\ 2^n > n
<1> DEFINE wrong == {m \in Nat : ~(2^m > m)}
<1>1. CASE wrong = {}
  BY <1>1, PowerCounts
<1>2. CASE wrong # {}
  <2>1. PICK m \in wrong : \A k \in wrong : m <= k
    BY <1>2, LeastNumber
  <2>2. m # 0
    <3>1. ASSUME m = 0
          PROVE  2^m = 1
      BY <3>1, PowerZero, Zenon
    <3>2. QED
      BY <3>1
  <2>3. m - 1 \in Nat /\ m - 1 \notin wrong
    BY <2>1, <2>2
  <2>4. 2^(m - 1) > m - 1 /\ 2^(m - 1) \in Nat
    BY <2>3, PowerCounts
  <2>5. 2^m = 2 * 2^(m - 1)
    BY <2>3, PowerDoubles
  <2>6. 2^m > m
    BY <2>3, <2>4, <2>5
  <2>7. QED
    BY <2>6
<1>3. QED
  BY <1>1, <1>2

(* Powers multiply as their exponents add.                                 *)
LEMMA PowerAdds ==
  ASSUME NEW a \in Nat, NEW b \in Nat
  PROVE  2^(a + b) = 2^a * 2^b
<1> DEFINE wrong == {c \in Nat : 2^(a + c) # 2^a * 2^c}
<1>1. CASE wrong = {}
  BY <1>1
<1>2. CASE wrong # {}
  <2>1. PICK c \in wrong : \A x \in wrong : c <= x
    BY <1>2, LeastNumber
  <2>2. c # 0
    <3>1. 2^a \in Nat /\ a + 0 = a
      BY PowerGrows
    <3>2. 2^(a + 0) = 2^a * 2^0
      BY <3>1, PowerZero
    <3>3. QED
      BY <3>2
  <2>3. c - 1 \in Nat /\ c - 1 \notin wrong
    BY <2>1, <2>2
  <2>4. 2^(a + (c - 1)) = 2^a * 2^(c - 1)
    BY <2>3
  <2>5. a + (c - 1) \in Nat /\ a + c = (a + (c - 1)) + 1 /\ c = (c - 1) + 1
    BY <2>3
  <2>6. 2^(a + c) = 2 * 2^(a + (c - 1)) /\ 2^c = 2 * 2^(c - 1)
    BY <2>3, <2>5, PowerDoubles
  <2>7. 2^a \in Nat /\ 2^(c - 1) \in Nat
    BY <2>3, PowerGrows
  <2> DEFINE u == 2^a
             w == 2^(c - 1)
  <2> HIDE DEF u, w
  <2>8. 2 * (u * w) = u * (2 * w)
    BY <2>7 DEF u, w
  <2>9. 2^(a + c) = 2^a * 2^c
    BY <2>4, <2>6, <2>8 DEF u, w
  <2>10. QED
    BY <2>1, <2>9
<1>3. QED
  BY <1>1, <1>2

(* Quotient and rest, and that they are the only ones.                     *)
LEMMA DivRest ==
  ASSUME NEW n \in Nat, NEW w \in Nat, w > 0
  PROVE  /\ n \div w \in Nat /\ n % w \in Nat /\ n % w < w
         /\ n = (n \div w) * w + (n % w)
OBVIOUS

LEMMA DivIs ==
  ASSUME NEW n \in Nat, NEW w \in Nat, w > 0, NEW q \in Nat,
         NEW r \in Nat, r < w, n = q * w + r
  PROVE  n \div w = q /\ n % w = r
OBVIOUS

-----------------------------------------------------------------------------
(* The partial sums of a list, as Total defines them.                      *)
AreSums(f, sizes, m) ==
  f = [n \in 0..m |-> IF n = 0 THEN 0 ELSE f[n - 1] + sizes[n]]

(* There are such sums, by adding one after the other.                     *)
LEMMA SumsExist ==
  ASSUME NEW sizes, NEW m \in Nat
  PROVE  \E f : AreSums(f, sizes, m)
<1> DEFINE wrong == {j \in Nat : ~ \E f : AreSums(f, sizes, j)}
<1>1. CASE wrong = {}
  BY <1>1
<1>2. CASE wrong # {}
  <2>1. PICK j \in wrong : \A i \in wrong : j <= i
    BY <1>2, LeastNumber
  <2>2. j # 0
    <3> DEFINE g == [n \in 0..0 |-> 0]
    <3>1. g = [n \in 0..0 |-> IF n = 0 THEN 0 ELSE g[n - 1] + sizes[n]]
      OBVIOUS
    <3> HIDE DEF g
    <3>2. AreSums(g, sizes, 0)
      BY <3>1 DEF AreSums
    <3>3. QED
      BY <3>2
  <2>3. j - 1 \in Nat /\ j - 1 \notin wrong
    BY <2>1, <2>2
  <2>4. PICK f : AreSums(f, sizes, j - 1)
    BY <2>3
  <2> DEFINE g == [n \in 0..j |-> IF n = j THEN f[j - 1] + sizes[j] ELSE f[n]]
  <2>5. ASSUME NEW n \in 0..j
        PROVE  g[n] = IF n = 0 THEN 0 ELSE g[n - 1] + sizes[n]
    <3>1. f = [i \in 0..j - 1 |-> IF i = 0 THEN 0 ELSE f[i - 1] + sizes[i]]
      BY <2>4 DEF AreSums
    <3>2. j \in Nat /\ n \in Nat
      OBVIOUS
    <3>3. CASE n = 0
      <4>1. 0 \in 0..j - 1 /\ n # j
        BY <2>2, <2>3, <3>3
      <4>2. f[0] = 0
        BY <3>1, <4>1
      <4>3. QED
        BY <3>3, <4>1, <4>2
    <3>4. CASE n # 0 /\ n # j
      <4>1. n \in 0..j - 1 /\ n - 1 \in 0..j /\ n - 1 # j
        BY <3>2, <3>4
      <4>2. f[n] = f[n - 1] + sizes[n]
        BY <3>1, <3>4, <4>1
      <4>3. g[n] = f[n] /\ g[n - 1] = f[n - 1]
        BY <3>4, <4>1
      <4> HIDE DEF g
      <4>4. QED
        BY <3>4, <4>2, <4>3
    <3>5. CASE n = j
      <4>1. j - 1 \in 0..j /\ j - 1 # j
        BY <2>3
      <4>2. g[n] = f[j - 1] + sizes[j] /\ g[j - 1] = f[j - 1]
        BY <3>5, <4>1
      <4> HIDE DEF g
      <4>3. QED
        BY <2>2, <3>5, <4>2
    <3>6. QED
      BY <3>3, <3>4, <3>5
  <2>6. DOMAIN g = 0..j /\ g = [n \in 0..j |-> g[n]]
    OBVIOUS
  <2> HIDE DEF g
  <2>7. AreSums(g, sizes, j)
    BY <2>5, <2>6 DEF AreSums
  <2>8. QED
    BY <2>1, <2>7
<1>3. QED
  BY <1>1, <1>2

(* Total is the last of them.                                              *)
LEMMA TotalIsSum ==
  ASSUME NEW sizes, Len(sizes) \in Nat
  PROVE  \E f : AreSums(f, sizes, Len(sizes)) /\ Total(sizes) = f[Len(sizes)]
<1> DEFINE m == Len(sizes)
           up == CHOOSE f : AreSums(f, sizes, m)
<1>1. AreSums(up, sizes, m)
  BY SumsExist
<1>2. Total(sizes) = up[m]
  BY DEF Total, AreSums
<1> HIDE DEF up
<1>3. QED
  BY <1>1, <1>2

(* Lists that begin alike have the same sums so far.                       *)
LEMMA SumsAgree ==
  ASSUME NEW s, NEW t, NEW m \in Nat, NEW n \in Nat, m <= n,
         \A k \in 1..m : s[k] = t[k],
         NEW f, AreSums(f, s, m), NEW g, AreSums(g, t, n),
         NEW k \in 0..m
  PROVE  f[k] = g[k]
<1> DEFINE wrong == {j \in Nat : j <= m /\ f[j] # g[j]}
<1>1. CASE wrong = {}
  BY <1>1
<1>2. CASE wrong # {}
  <2>1. PICK j \in wrong : \A i \in wrong : j <= i
    BY <1>2, LeastNumber
  <2>2. j \in Nat /\ j <= m /\ j \in 0..m /\ j \in 0..n
    BY <2>1
  <2>3. /\ f[j] = IF j = 0 THEN 0 ELSE f[j - 1] + s[j]
        /\ g[j] = IF j = 0 THEN 0 ELSE g[j - 1] + t[j]
    BY <2>2 DEF AreSums
  <2>4. j # 0
    BY <2>1, <2>3
  <2>5. j - 1 \in Nat /\ j - 1 <= m /\ j - 1 \notin wrong
    BY <2>1, <2>2, <2>4
  <2>6. f[j - 1] = g[j - 1]
    BY <2>5
  <2>7. s[j] = t[j]
    BY <2>2, <2>4
  <2>8. QED
    BY <2>1, <2>3, <2>4, <2>6, <2>7
<1>3. QED
  BY <1>1, <1>2

LEMMA TotalEmpty == Total(<<>>) = 0
<1>1. Len(<<>>) = 0
  OBVIOUS
<1>2. PICK f : AreSums(f, <<>>, 0) /\ Total(<<>>) = f[0]
  BY <1>1, TotalIsSum
<1>3. QED
  BY <1>2 DEF AreSums

(* One more size is added.                                                 *)
LEMMA TotalAppend ==
  ASSUME NEW s \in Seq(Nat), NEW x \in Nat
  PROVE  Total(Append(s, x)) = Total(s) + x
<1> DEFINE t == Append(s, x)
           m == Len(s)
<1>1. m \in Nat /\ Len(t) = m + 1 /\ t[m + 1] = x /\ \A k \in 1..m : s[k] = t[k]
  OBVIOUS
<1> HIDE DEF t
<1>2. PICK f : AreSums(f, s, m) /\ Total(s) = f[m]
  BY <1>1, TotalIsSum
<1>3. PICK g : AreSums(g, t, m + 1) /\ Total(t) = g[m + 1]
  <2>1. Len(t) \in Nat
    BY <1>1
  <2>2. QED
    BY <1>1, <2>1, TotalIsSum
<1> DEFINE n == m + 1
<1>4. /\ n \in Nat /\ m <= n /\ m \in 0..m /\ n \in 0..n /\ n # 0 /\ n - 1 = m
      /\ AreSums(g, t, n)
  BY <1>1, <1>3
<1> HIDE DEF m, n
<1>5. f[m] = g[m]
  BY <1>1, <1>2, <1>4, SumsAgree
<1>6. g[n] = g[n - 1] + t[n]
  BY <1>4 DEF AreSums
<1>7. g[m + 1] = g[m] + t[m + 1]
  BY <1>4, <1>6 DEF n
<1>8. QED
  BY <1>1, <1>2, <1>3, <1>5, <1>7 DEF t

(* The first of some numbers.                                              *)
LEMMA FirstNumber ==
  ASSUME NEW T, T \subseteq Nat, T # {}
  PROVE  \E x \in T : x \in Nat /\ \A y \in Nat : y < x => y \notin T
<1>1. PICK x \in T : \A y \in T : x <= y
  BY LeastNumber
<1>2. QED
  BY <1>1

(* A list of sizes has a total.                                            *)
LEMMA TotalType ==
  ASSUME NEW s \in Seq(Nat)
  PROVE  Total(s) \in Nat
<1> DEFINE wrong == {j \in Nat : \E t \in Seq(Nat) : Len(t) = j /\ Total(t) \notin Nat}
<1>1. CASE wrong = {}
  BY <1>1
<1>2. CASE wrong # {}
  <2>1. PICK j \in wrong : j \in Nat /\ \A i \in Nat : i < j => i \notin wrong
    <3>1. wrong \subseteq Nat
      OBVIOUS
    <3> HIDE DEF wrong
    <3>2. QED
      BY <1>2, <3>1, FirstNumber
  <2>2. PICK t \in Seq(Nat) : Len(t) = j /\ Total(t) \notin Nat
    BY <2>1
  <2>3. t # <<>>
    BY <2>2, TotalEmpty
  <2>4. PICK u \in Seq(Nat), x \in Nat : t = Append(u, x)
    BY <2>3, SequenceEmptyOrAppend
  <2>5. Len(u) \in Nat /\ j = Len(u) + 1
    BY <2>2, <2>4
  <2>6. Total(u) \in Nat
    <3>1. Len(u) \notin wrong
      <4>1. Len(u) < j
        BY <2>5
      <4> HIDE DEF wrong
      <4>2. QED
        BY <2>1, <2>5, <4>1
    <3>2. QED
      BY <2>5, <3>1
  <2>7. Total(t) = Total(u) + x
    BY <2>4, TotalAppend
  <2>8. QED
    BY <2>2, <2>6, <2>7
<1>3. QED
  BY <1>1, <1>2

(* The total of two lists is the sum of their totals.                      *)
LEMMA TotalConcat ==
  ASSUME NEW s \in Seq(Nat), NEW t \in Seq(Nat)
  PROVE  Total(s \o t) = Total(s) + Total(t)
<1> DEFINE wrong == {j \in Nat : \E u \in Seq(Nat) :
                       Len(u) = j /\ Total(s \o u) # Total(s) + Total(u)}
<1>1. CASE wrong = {}
  BY <1>1
<1>2. CASE wrong # {}
  <2>1. PICK j \in wrong : j \in Nat /\ \A i \in Nat : i < j => i \notin wrong
    <3>1. wrong \subseteq Nat
      OBVIOUS
    <3> HIDE DEF wrong
    <3>2. QED
      BY <1>2, <3>1, FirstNumber
  <2>2. PICK u \in Seq(Nat) : Len(u) = j /\ Total(s \o u) # Total(s) + Total(u)
    BY <2>1
  <2>3. u # <<>>
    <3>1. s \o <<>> = s
      BY ConcatEmptySeq
    <3>2. Total(s) \in Nat
      BY TotalType
    <3>3. Total(s) + Total(<<>>) = Total(s)
      BY <3>2, TotalEmpty
    <3>4. QED
      BY <2>2, <3>1, <3>3
  <2>4. PICK v \in Seq(Nat), x \in Nat : u = Append(v, x)
    BY <2>3, SequenceEmptyOrAppend
  <2>5. Len(v) \in Nat /\ j = Len(v) + 1
    BY <2>2, <2>4
  <2>6. Total(s \o v) = Total(s) + Total(v)
    <3>1. Len(v) \notin wrong
      <4>1. Len(v) < j
        BY <2>5
      <4> HIDE DEF wrong
      <4>2. QED
        BY <2>1, <2>5, <4>1
    <3>2. QED
      BY <2>5, <3>1
  <2>7. s \o v \in Seq(Nat) /\ s \o u = Append(s \o v, x)
    BY <2>4
  <2>8. Total(s \o u) = Total(s \o v) + x /\ Total(u) = Total(v) + x
    BY <2>4, <2>7, TotalAppend
  <2>9. Total(s) \in Nat /\ Total(v) \in Nat
    BY TotalType
  <2>10. QED
    BY <2>2, <2>6, <2>8, <2>9
<1>3. QED
  BY <1>1, <1>2

(* Two lists of numbers, one after the other.                              *)
LEMMA ConcatSizes ==
  ASSUME NEW s \in Seq(Nat), NEW t \in Seq(Nat)
  PROVE  s \o t \in Seq(Nat) /\ Len(s \o t) = Len(s) + Len(t)
OBVIOUS

(* Where the elements of two lists are, one after the other.               *)
LEMMA ConcatPlaces ==
  ASSUME NEW S, NEW s \in Seq(S), NEW t \in Seq(S)
  PROVE  /\ s \o t \in Seq(S) /\ Len(s \o t) = Len(s) + Len(t)
         /\ Len(s) \in Nat /\ Len(t) \in Nat
         /\ \A i \in 1..Len(s) : (s \o t)[i] = s[i]
         /\ \A i \in 1..Len(t) : (s \o t)[Len(s) + i] = t[i]
<1>1. Len(s) \in Nat /\ Len(t) \in Nat /\ s \o t \in Seq(S)
      /\ Len(s \o t) = Len(s) + Len(t)
  OBVIOUS
<1>2. \A i \in 1..Len(s) : (s \o t)[i] = s[i]
  OBVIOUS
<1>3. ASSUME NEW i \in 1..Len(t)
      PROVE  (s \o t)[Len(s) + i] = t[i]
  <2>1. Len(s) + i \in 1..Len(s) + Len(t) /\ ~(Len(s) + i <= Len(s))
        /\ (Len(s) + i) - Len(s) = i
    BY <1>1
  <2>2. QED
    BY <1>1, <2>1
<1>4. QED
  BY <1>1, <1>2, <1>3

(* A list of two lists, the first of n elements.                           *)
InOrder(e, s, t, n, m) ==
  /\ Len(e) = n + m
  /\ \A i \in 1..n : e[i] = s[i]
  /\ \A i \in 1..m : e[n + i] = t[i]

LEMMA ConcatInOrder ==
  ASSUME NEW S, NEW s \in Seq(S), NEW t \in Seq(S)
  PROVE  s \o t \in Seq(S) /\ InOrder(s \o t, s, t, Len(s), Len(t))
<1>1. /\ s \o t \in Seq(S)
      /\ Len(s \o t) = Len(s) + Len(t)
      /\ \A i \in 1..Len(s) : (s \o t)[i] = s[i]
      /\ \A i \in 1..Len(t) : (s \o t)[Len(s) + i] = t[i]
  BY ConcatPlaces
<1>2. QED
  BY <1>1 DEF InOrder

(* Lists of the same elements are the same.                                *)
LEMMA SameLists ==
  ASSUME NEW S, NEW s \in Seq(S), NEW t \in Seq(S), Len(s) = Len(t),
         \A i \in 1..Len(t) : s[i] = t[i]
  PROVE  s = t
OBVIOUS

=============================================================================
