---------------------------- MODULE SequenceLemmas ----------------------------
(***************************************************************************)
(* Lemmas about numbers, orders and sequences that the proofs of several   *)
(* modules cite.  They are about any sets, relations and functions.        *)
(***************************************************************************)
EXTENDS Places, FunctionTheorems, SequenceTheorems, FiniteSetTheorems, WellFoundedInduction, NaturalsInduction, TLAPS

---------------------------------------------------------------------------
(* Numbers *)

\* A set of numbers has a least one.
LEMMA LeastNumber ==
  ASSUME NEW T, T \subseteq Nat, T # {}
  PROVE  \E n \in T : \A m \in T : ~ (m < n)
<1> DEFINE R == OpToRel(<, Nat)
<1>1. IsWellFoundedOn(R, Nat)
  BY NatLessThanWellFounded
<1>2. \A m, n \in Nat : m < n => <<m, n>> \in R
  BY DEF OpToRel
<1> HIDE DEF R
<1>3. PICK n \in T : \A m \in T : ~ (<<m, n>> \in R)
  BY <1>1, WFMin
<1> QED BY <1>2, <1>3

\* The least number of a set is one of them.
LEMMA LeastOf ==
  ASSUME NEW T, T \subseteq Nat, T # {}
  PROVE  Min(T) \in T /\ \A m \in T : Min(T) <= m
<1>1. PICK n \in T : \A m \in T : ~ (m < n)
  BY LeastNumber
<1>2. \A m \in T : n <= m
  BY <1>1
<1>3. \E x \in T : \A y \in T : x <= y
  BY <1>2
<1> QED BY <1>3 DEF Min

\* A set of places has a last one.
LEMMA LastOf ==
  ASSUME NEW n \in Nat, NEW T, T \subseteq 1..n, T # {}
  PROVE  Max(T) \in T
<1> DEFINE U == {m \in Nat : n - m \in T}
<1>1. U # {}
  <2>1. PICK x : x \in T
    OBVIOUS
  <2>2. n - x \in Nat /\ n - (n - x) = x
    BY <2>1
  <2> QED BY <2>1, <2>2
<1>2. PICK m \in U : \A k \in U : ~ (k < m)
  BY <1>1, LeastNumber
<1>3. \A y \in T : n - m >= y
  <2> SUFFICES ASSUME NEW y \in T PROVE n - m >= y
    OBVIOUS
  <2>1. n - y \in Nat /\ n - (n - y) = y
    OBVIOUS
  <2>2. n - y \in U
    BY <2>1
  <2>3. ~ (n - y < m)
    BY <1>2, <2>2
  <2> QED BY <2>1, <2>3
<1>4. \E x \in T : \A y \in T : x >= y
  BY <1>2, <1>3
<1> QED BY <1>4 DEF Max

\* The smaller of two numbers.
LEMMA MinOfTwo ==
  ASSUME NEW a \in Int, NEW b \in Int
  PROVE  Min({a, b}) \in {a, b} /\ Min({a, b}) <= a /\ Min({a, b}) <= b
<1>1. \E x \in {a, b} : \A y \in {a, b} : x <= y
  OBVIOUS
<1> QED BY <1>1 DEF Min

\* There are n numbers up to n.
LEMMA FirstNumbers ==
  ASSUME NEW n \in Nat
  PROVE  IsFiniteSet(1..n) /\ Cardinality(1..n) = n
<1>1. 1 \in Int /\ n \in Int
  OBVIOUS
<1>2. IsFiniteSet(1..n) /\ Cardinality(1..n) = IF 1 > n THEN 0 ELSE n - 1 + 1
  BY <1>1, FS_Interval
<1> QED BY <1>2

---------------------------------------------------------------------------
(* Sequences that are changed in one place, and parts of them *)

\* A sequence over some set is one over its own elements, which are in that set.
LEMMA OwnElements ==
  ASSUME NEW S, NEW s \in Seq(S)
  PROVE  s \in Seq(ToSet(s)) /\ ToSet(s) \subseteq S
<1>1. s \in [1 .. Len(s) -> S] /\ Len(s) \in Nat /\ DOMAIN s = 1 .. Len(s)
  BY LenProperties
<1>2. ToSet(s) \subseteq S
  BY <1>1 DEF ToSet
<1>3. \A i \in 1 .. Len(s) : s[i] \in ToSet(s)
  BY <1>1 DEF ToSet
<1>4. SubSeq(s, 1, Len(s)) = s
  BY SubSeqFull
<1>5. SubSeq(s, 1, Len(s)) \in Seq(ToSet(s))
  BY <1>1, <1>3, SubSeqProperties
<1> QED BY <1>2, <1>4, <1>5

\* Elements picked from a sequence.
LEMMA Picked ==
  ASSUME NEW S, NEW s \in Seq(S), NEW c \in [DOMAIN s -> DOMAIN s]
  PROVE  [k \in DOMAIN s |-> s[c[k]]] \in Seq(S) /\ Len([k \in DOMAIN s |-> s[c[k]]]) = Len(s)
<1> DEFINE D == DOMAIN s
           n == Len(s)
           v(k) == s[c[k]]
<1>1. D = 1..n /\ n \in Nat /\ \A i \in D : s[i] \in S
  BY LenProperties, ElementOfSeq
<1>2. \A k \in D : c[k] \in D
  OBVIOUS
<1> HIDE DEF D, n
<1>3. \A k \in 1..n : v(k) \in S
  BY <1>1, <1>2
<1> HIDE DEF v
<1>4. [k \in 1..n |-> v(k)] \in Seq(S) /\ Len([k \in 1..n |-> v(k)]) = n
  BY <1>1, <1>3
<1>5. [k \in D |-> v(k)] \in Seq(S) /\ Len([k \in D |-> v(k)]) = n
  BY <1>1, <1>4
<1> QED BY <1>5 DEF v, D, n

\* A sequence without one of its elements.
LEMMA RemovedIs ==
  ASSUME NEW S, NEW s \in Seq(S), NEW i \in 1..Len(s)
  PROVE  /\ RemoveAt(s, i) \in Seq(S) /\ Len(RemoveAt(s, i)) = Len(s) - 1
         /\ \A k \in 1..Len(s) - 1 : RemoveAt(s, i)[k] = IF k < i THEN s[k] ELSE s[k + 1]
<1> DEFINE n == Len(s)
           a == SubSeq(s, 1, i - 1)
           b == SubSeq(s, i + 1, n)
<1>1. n \in Nat /\ i \in Int /\ 1 <= i /\ i <= n /\ \A k \in 1..n : s[k] \in S
  BY LenProperties, ElementOfSeq
<1>2. RemoveAt(s, i) = a \o b
  BY DEF RemoveAt
<1> HIDE DEF n
<1>3. a \in Seq(S) /\ Len(a) = i - 1 /\ \A k \in 1..i - 1 : a[k] = s[k]
  <2>1. i - 1 \in Int /\ 1 \in Int /\ \A k \in 1..i - 1 : s[k] \in S
    BY <1>1
  <2>2. /\ a \in Seq(S) /\ Len(a) = IF 1 <= i - 1 THEN i - 1 - 1 + 1 ELSE 0
        /\ \A k \in 1..i - 1 - 1 + 1 : a[k] = s[1 + k - 1]
    BY <2>1, SubSeqProperties
  <2> HIDE DEF a
  <2>3. \A k \in 1..i - 1 : k \in 1..i - 1 - 1 + 1 /\ 1 + k - 1 = k
    BY <1>1
  <2>4. \A k \in 1..i - 1 : a[k] = s[k]
    BY <2>2, <2>3
  <2> QED BY <1>1, <2>2, <2>4
<1>4. b \in Seq(S) /\ Len(b) = n - i /\ \A k \in 1..n - i : b[k] = s[i + k]
  <2>1. i + 1 \in Int /\ n \in Int /\ \A k \in i + 1..n : s[k] \in S
    BY <1>1
  <2>2. /\ b \in Seq(S) /\ Len(b) = IF i + 1 <= n THEN n - (i + 1) + 1 ELSE 0
        /\ \A k \in 1..n - (i + 1) + 1 : b[k] = s[i + 1 + k - 1]
    BY <2>1, SubSeqProperties
  <2> HIDE DEF b
  <2>3. \A k \in 1..n - i : k \in 1..n - (i + 1) + 1 /\ i + 1 + k - 1 = i + k
    BY <1>1
  <2>4. \A k \in 1..n - i : b[k] = s[i + k]
    BY <2>2, <2>3
  <2> QED BY <1>1, <2>2, <2>4
<1> HIDE DEF a, b
<1>5. /\ a \o b \in Seq(S) /\ Len(a \o b) = (i - 1) + (n - i)
      /\ \A k \in 1..(i - 1) + (n - i) : (a \o b)[k] = IF k <= i - 1 THEN a[k] ELSE b[k - (i - 1)]
  <2>1. /\ a \o b \in Seq(S) /\ Len(a \o b) = Len(a) + Len(b)
        /\ \A k \in 1..Len(a) + Len(b) : (a \o b)[k] = IF k <= Len(a) THEN a[k] ELSE b[k - Len(a)]
    BY <1>3, <1>4, ConcatProperties
  <2> QED BY <1>3, <1>4, <2>1
<1>6. ASSUME NEW k \in 1..n - 1 PROVE (a \o b)[k] = IF k < i THEN s[k] ELSE s[k + 1]
  <2>1. (a \o b)[k] = IF k <= i - 1 THEN a[k] ELSE b[k - (i - 1)]
    BY <1>1, <1>5
  <2>2. CASE k < i
    BY <1>1, <1>3, <2>1, <2>2
  <2>3. CASE ~ (k < i)
    <3>1. k - (i - 1) \in 1..n - i /\ i + (k - (i - 1)) = k + 1 /\ ~ (k <= i - 1)
      BY <1>1, <2>3
    <3> QED BY <1>4, <2>1, <2>3, <3>1
  <2> QED BY <2>2, <2>3
<1> QED BY <1>1, <1>2, <1>5, <1>6 DEF n

\* A sequence with one more element.
LEMMA InsertedIs ==
  ASSUME NEW S, NEW t \in Seq(S), NEW x \in S, NEW j \in 1..Len(t) + 1
  PROVE  /\ InsertAt(t, j, x) \in Seq(S) /\ Len(InsertAt(t, j, x)) = Len(t) + 1
         /\ \A k \in 1..Len(t) + 1 : InsertAt(t, j, x)[k] = IF k < j THEN t[k] ELSE IF k = j THEN x ELSE t[k - 1]
<1> DEFINE n == Len(t)
           a == SubSeq(t, 1, j - 1)
           b == SubSeq(t, j, n)
           c == a \o <<x>>
<1>1. n \in Nat /\ j \in Int /\ 1 <= j /\ j <= n + 1 /\ \A k \in 1..n : t[k] \in S
  BY LenProperties, ElementOfSeq
<1>2. InsertAt(t, j, x) = c \o b
  BY DEF InsertAt
<1> HIDE DEF n
<1>3. a \in Seq(S) /\ Len(a) = j - 1 /\ \A k \in 1..j - 1 : a[k] = t[k]
  <2>1. j - 1 \in Int /\ 1 \in Int /\ \A k \in 1..j - 1 : t[k] \in S
    BY <1>1
  <2>2. /\ a \in Seq(S) /\ Len(a) = IF 1 <= j - 1 THEN j - 1 - 1 + 1 ELSE 0
        /\ \A k \in 1..j - 1 - 1 + 1 : a[k] = t[1 + k - 1]
    BY <2>1, SubSeqProperties
  <2> HIDE DEF a
  <2>3. \A k \in 1..j - 1 : k \in 1..j - 1 - 1 + 1 /\ 1 + k - 1 = k
    BY <1>1
  <2>4. \A k \in 1..j - 1 : a[k] = t[k]
    BY <2>2, <2>3
  <2> QED BY <1>1, <2>2, <2>4
<1>4. b \in Seq(S) /\ Len(b) = n + 1 - j /\ \A k \in 1..n + 1 - j : b[k] = t[j + k - 1]
  <2>1. n \in Int /\ \A k \in j..n : t[k] \in S
    BY <1>1
  <2>2. /\ b \in Seq(S) /\ Len(b) = IF j <= n THEN n - j + 1 ELSE 0
        /\ \A k \in 1..n - j + 1 : b[k] = t[j + k - 1]
    BY <1>1, <2>1, SubSeqProperties
  <2> HIDE DEF b
  <2> QED BY <1>1, <2>2
<1> HIDE DEF a, b
<1>5. /\ c \in Seq(S) /\ Len(c) = j
      /\ \A k \in 1..j : c[k] = IF k < j THEN t[k] ELSE x
  <2>1. <<x>> \in Seq(S) /\ Len(<<x>>) = 1 /\ <<x>>[1] = x
    OBVIOUS
  <2>2. /\ c \in Seq(S) /\ Len(c) = j - 1 + 1
        /\ \A k \in 1..j - 1 + 1 : c[k] = IF k <= j - 1 THEN a[k] ELSE <<x>>[k - (j - 1)]
    BY <1>3, <2>1, ConcatProperties
  <2> HIDE DEF c
  <2>3. ASSUME NEW k \in 1..j PROVE c[k] = IF k < j THEN t[k] ELSE x
    <3>1. c[k] = IF k <= j - 1 THEN a[k] ELSE <<x>>[k - (j - 1)]
      BY <1>1, <2>2
    <3>2. CASE k < j
      BY <1>1, <1>3, <3>1, <3>2
    <3>3. CASE ~ (k < j)
      <4>1. k - (j - 1) = 1 /\ ~ (k <= j - 1)
        BY <1>1, <3>3
      <4> QED BY <2>1, <3>1, <3>3, <4>1
    <3> QED BY <3>2, <3>3
  <2> QED BY <1>1, <2>2, <2>3
<1> HIDE DEF c
<1>6. /\ c \o b \in Seq(S) /\ Len(c \o b) = j + (n + 1 - j)
      /\ \A k \in 1..j + (n + 1 - j) : (c \o b)[k] = IF k <= j THEN c[k] ELSE b[k - j]
  BY <1>4, <1>5, ConcatProperties
<1>7. ASSUME NEW k \in 1..n + 1
      PROVE  (c \o b)[k] = IF k < j THEN t[k] ELSE IF k = j THEN x ELSE t[k - 1]
  <2>1. (c \o b)[k] = IF k <= j THEN c[k] ELSE b[k - j]
    BY <1>1, <1>6
  <2>2. CASE k <= j
    BY <1>1, <1>5, <2>1, <2>2
  <2>3. CASE ~ (k <= j)
    <3>1. k - j \in 1..n + 1 - j /\ j + (k - j) - 1 = k - 1 /\ ~ (k < j) /\ k # j
      BY <1>1, <2>3
    <3> QED BY <1>4, <2>1, <2>3, <3>1
  <2> QED BY <2>2, <2>3
<1> QED BY <1>1, <1>2, <1>6, <1>7 DEF n

\* Some elements of a sequence that follow each other.
LEMMA Middle ==
  ASSUME NEW S, NEW s \in Seq(S), NEW m \in Nat, NEW n \in Int
  PROVE  SubSeq(s, m + 1, Min({Len(s), n})) \in Seq(S)
<1> DEFINE l == Len(s)
           k == Min({l, n})
<1>1. l \in Nat /\ \A i \in 1..l : s[i] \in S
  BY LenProperties, ElementOfSeq
<1>2. k \in {l, n} /\ k <= l
  <2>1. l \in Int
    BY <1>1
  <2> HIDE DEF l
  <2> QED BY <2>1, MinOfTwo
<1> HIDE DEF k, l
<1>3. m + 1 \in Int /\ k \in Int /\ \A i \in m + 1..k : s[i] \in S
  BY <1>1, <1>2
<1>4. SubSeq(s, m + 1, k) \in Seq(S)
  BY <1>3, SubSeqProperties
<1> QED BY <1>4 DEF k, l

\* The first elements of a sequence.
LEMMA FirstFew ==
  ASSUME NEW S, NEW s \in Seq(S), NEW n \in Int
  PROVE  SubSeq(s, 1, Min({n, Len(s)})) \in Seq(S)
<1>1. {n, Len(s)} = {Len(s), n} /\ 0 + 1 = 1
  OBVIOUS
<1>2. SubSeq(s, 0 + 1, Min({Len(s), n})) \in Seq(S)
  BY Middle
<1> QED BY <1>1, <1>2

---------------------------------------------------------------------------
(* Places in sequences and orders of them *)

\* An order in which any two differ, and one in which some are equal.
Linear(D, R) ==
  /\ \A i \in D : <<i, i>> \notin R
  /\ \A i, j \in D : i # j => <<i, j>> \in R \/ <<j, i>> \in R
  /\ \A i, j, k \in D : <<i, j>> \in R /\ <<j, k>> \in R => <<i, k>> \in R
Weak(D, L) ==
  /\ \A i \in D : <<i, i>> \notin L
  /\ \A i, j \in D : <<i, j>> \in L => <<j, i>> \notin L
  /\ \A i, j, k \in D : <<i, k>> \in L => <<i, j>> \in L \/ <<j, k>> \in L
\* How many come before something; each rank is something's.
RankOf(D, R, i) == Cardinality({j \in D : <<j, i>> \in R})
EachRank(D, R) == \A n \in 1..Cardinality(D) : \E i \in D : RankOf(D, R, i) = n - 1
Climbing(D, R) ==
  /\ \A i \in D : RankOf(D, R, i) \in 0..Cardinality(D) - 1
  /\ \A i, j \in D : <<i, j>> \in R => RankOf(D, R, i) < RankOf(D, R, j)
\* In an order of finitely many things ranks go up with the order.
LEMMA RanksClimb ==
  ASSUME NEW D, IsFiniteSet(D), NEW R, Linear(D, R)
  PROVE  Climbing(D, R)
<1> USE DEF Linear
<1> DEFINE before(i) == {j \in D : <<j, i>> \in R}
           T == 0..Cardinality(D) - 1
<1>1. Cardinality(D) \in Nat
  BY FS_CardinalityType
<1>2. \A i \in D : before(i) \in SUBSET D /\ IsFiniteSet(before(i)) /\ Cardinality(before(i)) \in Nat
  <2> SUFFICES ASSUME NEW i \in D
               PROVE  before(i) \in SUBSET D /\ IsFiniteSet(before(i)) /\ Cardinality(before(i)) \in Nat
    OBVIOUS
  <2>1. before(i) \in SUBSET D
    OBVIOUS
  <2> HIDE DEF before
  <2>2. IsFiniteSet(before(i))
    BY <2>1, FS_Subset
  <2> QED BY <2>1, <2>2, FS_CardinalityType
<1>3. \A i \in D : Cardinality(before(i)) \in T
  <2> SUFFICES ASSUME NEW i \in D PROVE Cardinality(before(i)) \in T
    OBVIOUS
  <2>1. before(i) \in SUBSET (D \ {i})
    OBVIOUS
  <2>2. IsFiniteSet(D \ {i}) /\ Cardinality(D \ {i}) = Cardinality(D) - 1
    BY FS_RemoveElement
  <2> HIDE DEF before
  <2>3. Cardinality(before(i)) <= Cardinality(D) - 1
    BY <2>1, <2>2, FS_Subset
  <2> QED BY <1>1, <1>2, <2>3
<1>4. \A i, j \in D : <<i, j>> \in R => Cardinality(before(i)) < Cardinality(before(j))
  <2> SUFFICES ASSUME NEW i \in D, NEW j \in D, <<i, j>> \in R
               PROVE  Cardinality(before(i)) < Cardinality(before(j))
    OBVIOUS
  <2>1. before(i) \in SUBSET before(j) /\ i \in before(j) /\ i \notin before(i)
    OBVIOUS
  <2> HIDE DEF before
  <2>2. Cardinality(before(i)) <= Cardinality(before(j))
    BY <1>2, <2>1, FS_Subset
  <2>3. Cardinality(before(i)) # Cardinality(before(j))
    BY <1>2, <2>1, FS_Subset
  <2> QED BY <1>2, <2>2, <2>3
<1>5. \A i : RankOf(D, R, i) = Cardinality(before(i))
  BY DEF RankOf
<1> HIDE DEF before
<1> QED BY <1>3, <1>4, <1>5 DEF Climbing

\* Each rank has its thing.
LEMMA RanksFilled ==
  ASSUME NEW D, IsFiniteSet(D), NEW R, Linear(D, R)
  PROVE  EachRank(D, R)
<1> DEFINE f == [i \in D |-> RankOf(D, R, i)]
           T == 0..Cardinality(D) - 1
<1>1. Cardinality(D) \in Nat
  BY FS_CardinalityType
<1>2. Climbing(D, R)
  BY RanksClimb
<1>3. \A i \in D : RankOf(D, R, i) \in T
  BY <1>2 DEF Climbing
<1>4. \A i, j \in D : <<i, j>> \in R => RankOf(D, R, i) < RankOf(D, R, j)
  BY <1>2 DEF Climbing
<1>5. \A i, j \in D : f[i] = f[j] => i = j
  <2> SUFFICES ASSUME NEW i \in D, NEW j \in D, i # j PROVE RankOf(D, R, i) # RankOf(D, R, j)
    OBVIOUS
  <2>1. <<i, j>> \in R \/ <<j, i>> \in R
    BY DEF Linear
  <2>2. RankOf(D, R, i) < RankOf(D, R, j) \/ RankOf(D, R, j) < RankOf(D, R, i)
    BY <1>4, <2>1
  <2>3. RankOf(D, R, i) \in Int /\ RankOf(D, R, j) \in Int
    BY <1>3
  <2> QED BY <2>2, <2>3
<1>6. f \in Injection(D, T)
  <2>1. f \in [D -> T]
    BY <1>3
  <2>2. IsInjective(f)
    BY <1>5 DEF IsInjective
  <2> HIDE DEF f, T
  <2> QED BY <2>1, <2>2 DEF Injection
<1>7. IsFiniteSet(T) /\ Cardinality(T) = Cardinality(D)
  <2>1. 0 \in Int /\ Cardinality(D) - 1 \in Int
    BY <1>1
  <2>2. IsFiniteSet(T) /\ Cardinality(T) = IF 0 > Cardinality(D) - 1 THEN 0 ELSE Cardinality(D) - 1 - 0 + 1
    BY <2>1, FS_Interval
  <2> QED BY <1>1, <2>2
<1> HIDE DEF T
<1>8. f \in Surjection(D, T)
  <2> HIDE DEF f
  <2> QED BY <1>6, <1>7, FS_Injection
<1>9. ASSUME NEW n \in 1..Cardinality(D) PROVE \E i \in D : RankOf(D, R, i) = n - 1
  <2>1. n - 1 \in T
    BY <1>1 DEF T
  <2>2. PICK i \in D : f[i] = n - 1
    BY <1>8, <2>1 DEF Surjection
  <2> QED BY <2>2
<1> QED BY <1>9 DEF EachRank

\* The n-th of some places is one of them.
LEMMA PlaceIn ==
  ASSUME NEW places, IsFiniteSet(places), places \subseteq Int, NEW n \in 1..Cardinality(places)
  PROVE  Place(places, n) \in places /\ Cardinality({j \in places : j < Place(places, n)}) = n - 1
<1> DEFINE R == {p \in places \X places : p[1] < p[2]}
<1>1. \A i, j \in places : <<j, i>> \in R <=> j < i
  OBVIOUS
<1>2. \A i \in places : {j \in places : <<j, i>> \in R} = {j \in places : j < i}
  BY <1>1
<1>3. Linear(places, R)
  BY <1>1 DEF Linear
<1> HIDE DEF R
<1>4. \E i \in places : Cardinality({j \in places : <<j, i>> \in R}) = n - 1
  <2>1. EachRank(places, R)
    BY <1>3, RanksFilled
  <2> QED BY <2>1 DEF EachRank, RankOf
<1>5. \E i \in places : Cardinality({j \in places : j < i}) = n - 1
  BY <1>2, <1>4
<1> QED BY <1>5 DEF Place

\* Some elements of a sequence, in its order.
LEMMA ThoseAre ==
  ASSUME NEW S, NEW s \in Seq(S), NEW places \in SUBSET DOMAIN s
  PROVE  /\ Those(s, places) \in Seq(S)
         /\ Len(Those(s, places)) = Cardinality(places) /\ Cardinality(places) \in Nat /\ Cardinality(places) <= Len(s)
         /\ \A k \in DOMAIN Those(s, places) : \E i \in places : Those(s, places)[k] = s[i]
<1> DEFINE n == Cardinality(places)
           t == Those(s, places)
<1>1. DOMAIN s = 1..Len(s) /\ Len(s) \in Nat /\ \A i \in DOMAIN s : s[i] \in S
  BY LenProperties, ElementOfSeq
<1>2. IsFiniteSet(places) /\ n \in Nat /\ n <= Len(s) /\ places \subseteq Int
  <2>1. IsFiniteSet(1..Len(s)) /\ Cardinality(1..Len(s)) = Len(s)
    BY <1>1, FirstNumbers
  <2> QED BY <1>1, <2>1, FS_Subset, FS_CardinalityType
<1>3. \A k \in 1..n : Place(places, k) \in places
  BY <1>2, PlaceIn
<1>4. t = [k \in 1..n |-> s[Place(places, k)]]
  BY DEF Those
<1> HIDE DEF t, n
<1>5. \A k \in 1..n : t[k] = s[Place(places, k)] /\ t[k] \in S
  BY <1>1, <1>3, <1>4
<1>6. t \in Seq(S) /\ Len(t) = n /\ DOMAIN t = 1..n
  BY <1>2, <1>4, <1>5
<1> QED BY <1>2, <1>3, <1>5, <1>6 DEF t, n

\* Some places of a sequence.
LEMMA SomePlaces ==
  ASSUME NEW S, NEW s \in Seq(S), NEW places \in SUBSET DOMAIN s
  PROVE  /\ IsFiniteSet(places) /\ Cardinality(places) \in Nat /\ places \subseteq 1..Len(s) /\ places \subseteq Int
         /\ \A n \in 1..Cardinality(places) : Place(places, n) \in places
<1>1. DOMAIN s = 1..Len(s) /\ Len(s) \in Nat
  BY LenProperties
<1>2. IsFiniteSet(places) /\ Cardinality(places) \in Nat /\ places \subseteq Int
  BY <1>1, FirstNumbers, FS_Subset, FS_CardinalityType
<1> QED BY <1>1, <1>2, PlaceIn

\* The first of some places.
LEMMA FirstPlace ==
  ASSUME NEW S, NEW s \in Seq(S), NEW places \in SUBSET DOMAIN s, places # {}
  PROVE  /\ Cardinality(places) \in Nat /\ Cardinality(places) >= 1 /\ places \subseteq 1..Len(s)
         /\ Place(places, 1) \in places /\ \A q \in places : Place(places, 1) <= q
         /\ Those(s, places) # <<>> /\ Those(s, places)[1] = s[Place(places, 1)]
<1> DEFINE n == Cardinality(places)
           p == Place(places, 1)
           below == {j \in places : j < p}
<1>1. IsFiniteSet(places) /\ n \in Nat /\ places \subseteq 1..Len(s) /\ places \subseteq Int
  BY SomePlaces
<1>2. n >= 1
  BY <1>1, FS_EmptySet
<1>3. p \in places /\ Cardinality(below) = 1 - 1
  <2>1. 1 \in 1..n
    BY <1>1, <1>2
  <2> QED BY <1>1, <2>1, PlaceIn
<1>4. below = {}
  <2>1. below \in SUBSET places
    OBVIOUS
  <2> HIDE DEF below
  <2>2. IsFiniteSet(below)
    BY <1>1, <2>1, FS_Subset
  <2> QED BY <1>3, <2>2, FS_EmptySet
<1>5. \A q \in places : p <= q
  BY <1>1, <1>3, <1>4
<1> HIDE DEF p, n
<1>6. Those(s, places) = [k \in 1..n |-> s[Place(places, k)]]
  BY DEF Those, n
<1>7. Those(s, places) # <<>> /\ Those(s, places)[1] = s[p]
  <2>1. 1 \in 1..n
    BY <1>1, <1>2
  <2>2. Those(s, places)[1] = s[Place(places, 1)]
    BY <1>6, <2>1
  <2>3. Len(Those(s, places)) = n
    BY ThoseAre DEF n
  <2>4. Len(<<>>) = 0
    OBVIOUS
  <2>5. Those(s, places) # <<>>
    BY <1>2, <2>3, <2>4
  <2> QED BY <2>2, <2>5 DEF p
<1> QED BY <1>1, <1>2, <1>3, <1>5, <1>7 DEF n, p

\* In an order of places in which equal ones follow each other every place is
\* some place's, and a place that comes before another stays before it.
PlaceOf(D, L, i) == Cardinality({j \in D : <<j, i>> \in L \/ (j < i /\ <<i, j>> \notin L)})
EachPlace(D, L) == \A k \in D : \E i \in D : PlaceOf(D, L, i) = k - 1
PlacesKept(D, L) ==
  /\ \A i \in D : PlaceOf(D, L, i) \in Nat /\ PlaceOf(D, L, i) + 1 \in D
  /\ \A i, j \in D : i # j => PlaceOf(D, L, i) # PlaceOf(D, L, j)
  /\ \A i, j \in D : <<i, j>> \in L => PlaceOf(D, L, i) < PlaceOf(D, L, j)
\* So it is in the order that StableSort follows.
LEMMA PlacesFilled ==
  ASSUME NEW S, NEW s \in Seq(S), NEW L, Weak(DOMAIN s, L)
  PROVE  EachPlace(DOMAIN s, L) /\ PlacesKept(DOMAIN s, L)
<1> DEFINE D == DOMAIN s
           n == Len(s)
           R == {p \in D \X D : <<p[1], p[2]>> \in L \/ (p[1] < p[2] /\ <<p[2], p[1]>> \notin L)}
<1>1. D = 1..n /\ n \in Nat /\ \A i \in D : s[i] \in S
  BY LenProperties, ElementOfSeq
<1>2. IsFiniteSet(D) /\ Cardinality(D) = n
  BY <1>1, FirstNumbers
<1>3. \A i, j \in D : <<j, i>> \in R <=> <<j, i>> \in L \/ (j < i /\ <<i, j>> \notin L)
  OBVIOUS
<1>4. \A i \in D : {j \in D : <<j, i>> \in R} = {j \in D : <<j, i>> \in L \/ (j < i /\ <<i, j>> \notin L)}
  BY <1>3
<1>5. Linear(D, R)
  <2> HIDE DEF R
  <2> USE DEF Weak
  <2>1. ASSUME NEW i \in D PROVE <<i, i>> \notin R
    <3>1. <<i, i>> \notin L /\ ~ (i < i)
      BY <1>1
    <3> QED BY <1>3, <3>1
  <2>2. ASSUME NEW i \in D, NEW j \in D, i # j PROVE <<i, j>> \in R \/ <<j, i>> \in R
    <3>1. i \in Int /\ j \in Int
      BY <1>1
    <3>2. (<<i, j>> \in L \/ (i < j /\ <<j, i>> \notin L)) \/ (<<j, i>> \in L \/ (j < i /\ <<i, j>> \notin L))
      BY <2>2, <3>1
    <3> QED BY <1>3, <3>2
  <2>3. ASSUME NEW i \in D, NEW j \in D, NEW k \in D, <<i, j>> \in R, <<j, k>> \in R PROVE <<i, k>> \in R
    <3>1. i \in Int /\ j \in Int /\ k \in Int
      BY <1>1
    <3>2. <<i, j>> \in L \/ (i < j /\ <<j, i>> \notin L)
      BY <1>3, <2>3
    <3>3. <<j, k>> \in L \/ (j < k /\ <<k, j>> \notin L)
      BY <1>3, <2>3
    <3>4. <<i, k>> \in L \/ (i < k /\ <<k, i>> \notin L)
      BY <3>1, <3>2, <3>3
    <3> QED BY <1>3, <3>4
  <2> HIDE DEF D
  <2> QED BY <2>1, <2>2, <2>3 DEF Linear
<1> HIDE DEF R
<1>6. \A i \in D : RankOf(D, R, i) = PlaceOf(D, L, i)
  BY <1>4 DEF RankOf, PlaceOf
<1>7. EachPlace(D, L)
  <2> HIDE DEF D
  <2>1. EachRank(D, R)
    BY <1>2, <1>5, RanksFilled
  <2> QED BY <1>1, <1>2, <1>6, <2>1 DEF EachRank, EachPlace
<1>8. PlacesKept(D, L)
  <2> HIDE DEF D
  <2>1. Climbing(D, R)
    BY <1>2, <1>5, RanksClimb
  <2>2. \A i \in D : PlaceOf(D, L, i) \in 0..n - 1
    BY <1>2, <1>6, <2>1 DEF Climbing
  <2>3. \A i, j \in D : <<i, j>> \in R => PlaceOf(D, L, i) < PlaceOf(D, L, j)
    BY <1>6, <2>1 DEF Climbing
  <2>4. ASSUME NEW i \in D, NEW j \in D, i # j PROVE PlaceOf(D, L, i) # PlaceOf(D, L, j)
    <3>1. <<i, j>> \in R \/ <<j, i>> \in R
      BY <1>5, <2>4 DEF Linear
    <3>2. PlaceOf(D, L, i) \in Int /\ PlaceOf(D, L, j) \in Int
      BY <2>2
    <3> QED BY <2>3, <3>1, <3>2
  <2>5. \A i, j \in D : <<i, j>> \in L => PlaceOf(D, L, i) < PlaceOf(D, L, j)
    BY <1>3, <2>3
  <2>6. \A i \in D : PlaceOf(D, L, i) \in Nat /\ PlaceOf(D, L, i) + 1 \in D
    BY <1>1, <2>2
  <2> QED BY <2>4, <2>5, <2>6 DEF PlacesKept
<1> HIDE DEF D
<1> QED BY <1>7, <1>8 DEF D

---------------------------------------------------------------------------
(* Going through a sequence, place by place *)

\* The places before the last one.
Before(s) == s \ {Max(s)}
Folded(iter, l, d, step) ==
  iter = [s \in SUBSET (1..l) |-> IF s = {} THEN d ELSE step[<<iter[Before(s)], Max(s)>>]]
\* Going through the places of a sequence, the last one first, is defined.
LEMMA FoldDefined ==
  ASSUME NEW l \in Nat, NEW d, NEW step
  PROVE  \E iter : Folded(iter, l, d, step)
<1> DEFINE S == 1..l
           Upto(n) == {s \in SUBSET S : Cardinality(s) <= n}
           Unfolds(g, s) == IF s = {} THEN d ELSE step[<<g[Before(s)], Max(s)>>]
           Folds(n) == \E g : g = [s \in Upto(n) |-> Unfolds(g, s)]
           T == {n \in Nat : ~Folds(n)}
<1>1. IsFiniteSet(S)
  BY FirstNumbers
<1>2. \A s \in SUBSET S : s # {} => /\ Before(s) \in SUBSET S /\ Cardinality(s) \in Nat
                                    /\ Cardinality(Before(s)) = Cardinality(s) - 1
  <2> SUFFICES ASSUME NEW s \in SUBSET S, s # {}
               PROVE  Before(s) \in SUBSET S /\ Cardinality(s) \in Nat /\ Cardinality(Before(s)) = Cardinality(s) - 1
    OBVIOUS
  <2>1. IsFiniteSet(s)
    BY <1>1, FS_Subset
  <2>2. Max(s) \in s
    BY LastOf
  <2> QED BY <2>1, <2>2, FS_RemoveElement, FS_CardinalityType DEF Before
<1> HIDE DEF S
<1>3. \A s \in SUBSET S : Cardinality(s) \in Nat /\ Cardinality(s) <= Cardinality(S)
  BY <1>1, FS_Subset, FS_CardinalityType
<1>4. Folds(0)
  <2> DEFINE g == [s \in Upto(0) |-> d]
  <2>1. \A s \in Upto(0) : s = {}
    <3> SUFFICES ASSUME NEW s \in SUBSET S, Cardinality(s) <= 0 PROVE s = {}
      OBVIOUS
    <3>1. IsFiniteSet(s) /\ Cardinality(s) = 0
      BY <1>1, <1>3, FS_Subset
    <3> QED BY <3>1, FS_EmptySet
  <2>2. \A s \in Upto(0) : Unfolds(g, s) = d
    BY <2>1
  <2>3. g = [s \in Upto(0) |-> Unfolds(g, s)]
    BY <2>2
  <2> QED BY <2>3
<1>5. ASSUME NEW n \in Nat, Folds(n) PROVE Folds(n + 1)
  <2>1. PICK g : g = [s \in Upto(n) |-> Unfolds(g, s)]
    BY <1>5
  <2> DEFINE h == [s \in Upto(n + 1) |-> IF s \in Upto(n) THEN g[s] ELSE Unfolds(g, s)]
  <2>2. Upto(n) \subseteq Upto(n + 1)
    BY <1>3
  <2>3. \A s \in Upto(n + 1) : s # {} => Before(s) \in Upto(n)
    BY <1>2
  <2> HIDE DEF Upto
  <2>4. \A s \in Upto(n) : h[s] = g[s]
    BY <2>2
  <2>5. \A s \in Upto(n + 1) : Unfolds(h, s) = Unfolds(g, s)
    BY <2>3, <2>4
  <2>6. \A s \in Upto(n) : g[s] = Unfolds(g, s)
    BY <2>1
  <2> HIDE DEF Unfolds
  <2>7. h = [s \in Upto(n + 1) |-> Unfolds(h, s)]
    BY <2>5, <2>6
  <2> QED BY <2>7
<1> HIDE DEF Folds
<1>6. \A n \in Nat : Folds(n)
  <2> SUFFICES ASSUME T # {} PROVE FALSE
    OBVIOUS
  <2>1. PICK n \in T : \A m \in T : ~ (m < n)
    BY LeastNumber
  <2>2. n # 0 /\ n \in Nat
    BY <1>4
  <2>3. n - 1 \in Nat /\ n - 1 < n /\ n = (n - 1) + 1
    BY <2>2
  <2>4. Folds(n - 1)
    BY <2>1, <2>3
  <2>5. Folds(n)
    BY <1>5, <2>3, <2>4
  <2> QED BY <2>1, <2>5
<1>7. Upto(Cardinality(S)) = SUBSET S
  BY <1>3
<1>8. \E g : g = [s \in SUBSET S |-> Unfolds(g, s)]
  <2>1. Folds(Cardinality(S))
    BY <1>1, <1>6, FS_CardinalityType
  <2> QED BY <1>7, <2>1 DEF Folds
<1> QED BY <1>8 DEF S, Folded

\* What going from place to place keeps, all the places keep.
LEMMA FoldStays ==
  ASSUME NEW l \in Nat, NEW T, NEW f, f[{}] \in T,
         \A s \in SUBSET (1..l) : s # {} /\ f[Before(s)] \in T => f[s] \in T
  PROVE  \A s \in SUBSET (1..l) : f[s] \in T
<1> DEFINE S == 1..l
           C == {s \in SUBSET S : f[s] \notin T}
<1>1. IsFiniteSet(S)
  BY FirstNumbers
<1>2. SUFFICES ASSUME C # {} PROVE FALSE
  OBVIOUS
<1>3. C \subseteq FiniteSubsetsOf(S)
  BY <1>1, FS_Subset DEF FiniteSubsetsOf
<1>a. IsWellFoundedOn(StrictSubsetOrdering(S), FiniteSubsetsOf(S))
  BY FS_StrictSubsetOrderingWellFounded
<1> HIDE DEF C
<1>4. PICK s \in C : \A u \in C : ~ (<<u, s>> \in StrictSubsetOrdering(S))
  BY <1>2, <1>3, <1>a, WFMin
<1> USE DEF C
<1>5. s # {}
  OBVIOUS
<1>6. Max(s) \in s
  BY <1>5, LastOf
<1>7. Before(s) \in SUBSET S /\ <<Before(s), s>> \in StrictSubsetOrdering(S)
  BY <1>6 DEF Before, StrictSubsetOrdering
<1>8. f[Before(s)] \in T
  BY <1>4, <1>7
<1> QED BY <1>5, <1>8

\* Going through a sequence, place by place, keeps what each step keeps.
LEMMA FoldTyped ==
  ASSUME NEW l \in Nat, NEW T, NEW d \in T, NEW step \in [T \X (1..l) -> T]
  PROVE  \E iter \in [SUBSET (1..l) -> T] : Folded(iter, l, d, step)
<1>1. PICK f : Folded(f, l, d, step)
  BY FoldDefined
<1>2. \A s \in SUBSET (1..l) : f[s] = IF s = {} THEN d ELSE step[<<f[Before(s)], Max(s)>>]
  BY <1>1 DEF Folded
<1>3. f[{}] = d
  BY <1>2
<1>4. ASSUME NEW s \in SUBSET (1..l), s # {}, f[Before(s)] \in T PROVE f[s] \in T
  <2>1. Max(s) \in 1..l
    BY <1>4, LastOf
  <2> QED BY <1>2, <1>4, <2>1
<1>5. \A s \in SUBSET (1..l) : f[s] \in T
  BY <1>3, <1>4, FoldStays
<1>6. f \in [SUBSET (1..l) -> T]
  BY <1>1, <1>5 DEF Folded
<1> QED BY <1>1, <1>6

---------------------------------------------------------------------------
(* Induction and recursion over the numbers up to some number *)

\* What 0 is in, and a number when the one before it is, all numbers are in.
LEMMA UpTo ==
  ASSUME NEW n \in Nat, NEW A, 0 \in A, \A k \in 1..n : k - 1 \in A => k \in A
  PROVE  \A k \in 0..n : k \in A
<1> DEFINE T == {k \in 0..n : k \notin A}
<1>1. SUFFICES ASSUME T # {} PROVE FALSE
  OBVIOUS
<1>2. PICK k \in T : \A m \in T : ~ (m < k)
  <2>1. T \subseteq Nat
    OBVIOUS
  <2> HIDE DEF T
  <2> QED BY <1>1, <2>1, LeastNumber
<1>3. k \in 1..n /\ k - 1 \in 0..n /\ k - 1 < k
  BY <1>2
<1>4. k - 1 \in A
  BY <1>2, <1>3
<1> QED BY <1>2, <1>3, <1>4

\* Values that follow from the value before them, or from all that come later.
Successive(g, n, d, step) == g = [k \in 0..n |-> IF k = 0 THEN d ELSE step[<<g[k - 1], k>>]]
Regressive(g, a, b, step) == g = [x \in a..b |-> step[<<x, [y \in x + 1..b |-> g[y]]>>]]

\* A function of the numbers up to n whose values follow from each other is
\* defined, and has the values that the steps keep.
LEMMA RecursionDefined ==
  ASSUME NEW n \in Nat, NEW T, NEW d, d \in T[0], NEW step,
         \A k \in 1..n : \A x \in T[k - 1] : step[<<x, k>>] \in T[k]
  PROVE  \E g : /\ Successive(g, n, d, step)
                /\ \A k \in 0..n : g[k] \in T[k]
<1> DEFINE Next(g, k) == IF k = 0 THEN d ELSE step[<<g[k - 1], k>>]
           Defined(m) == \E g : g = [k \in 0..m |-> Next(g, k)]
           A == {m \in Nat : Defined(m)}
<1>1. Defined(0)
  <2> DEFINE g == [k \in 0..0 |-> d]
  <2>1. \A k \in 0..0 : Next(g, k) = d
    OBVIOUS
  <2>2. g = [k \in 0..0 |-> Next(g, k)]
    BY <2>1
  <2> QED BY <2>2
<1>2. ASSUME NEW m \in Nat, Defined(m) PROVE Defined(m + 1)
  <2>1. PICK g : g = [k \in 0..m |-> Next(g, k)]
    BY <1>2
  <2> DEFINE h == [k \in 0..m + 1 |-> IF k \in 0..m THEN g[k] ELSE Next(g, k)]
  <2>2. \A k \in 0..m + 1 : k # 0 => k - 1 \in 0..m
    OBVIOUS
  <2>3. \A k \in 0..m : h[k] = g[k] /\ k \in 0..m + 1
    OBVIOUS
  <2>4. \A k \in 0..m + 1 : Next(h, k) = Next(g, k)
    BY <2>2, <2>3
  <2>5. \A k \in 0..m : g[k] = Next(g, k)
    BY <2>1
  <2> HIDE DEF Next
  <2>6. h = [k \in 0..m + 1 |-> Next(h, k)]
    BY <2>4, <2>5
  <2> QED BY <2>6
<1> HIDE DEF Defined
<1>3. \A k \in 0..n : k \in A
  <2>1. 0 \in A
    BY <1>1
  <2>2. \A k \in 1..n : k - 1 \in A => k \in A
    <3> SUFFICES ASSUME NEW k \in 1..n, k - 1 \in A PROVE k \in A
      OBVIOUS
    <3>1. k - 1 \in Nat /\ (k - 1) + 1 = k /\ Defined(k - 1)
      OBVIOUS
    <3>2. Defined((k - 1) + 1)
      BY <1>2, <3>1
    <3> QED BY <3>1, <3>2
  <2> HIDE DEF A
  <2> QED BY <2>1, <2>2, UpTo
<1>4. Defined(n)
  BY <1>3
<1>5. PICK g : g = [k \in 0..n |-> Next(g, k)]
  BY <1>4 DEF Defined
<1>6. \A k \in 0..n : g[k] = Next(g, k)
  BY <1>5
<1> DEFINE B == {k \in 0..n : g[k] \in T[k]}
<1>7. \A k \in 0..n : k \in B
  <2>1. 0 \in B
    <3>1. 0 \in 0..n
      OBVIOUS
    <3>2. g[0] = Next(g, 0)
      BY <1>6, <3>1
    <3> QED BY <3>1, <3>2
  <2>2. ASSUME NEW k \in 1..n, k - 1 \in B PROVE k \in B
    <3>1. k \in 0..n /\ g[k] = step[<<g[k - 1], k>>] /\ g[k - 1] \in T[k - 1]
      BY <1>6, <2>2
    <3>2. step[<<g[k - 1], k>>] \in T[k]
      BY <3>1
    <3> QED BY <3>1, <3>2
  <2> HIDE DEF B
  <2> QED BY <2>1, <2>2, UpTo
<1> QED BY <1>5, <1>7 DEF Successive

\* The same when a value follows from all values of larger numbers.
LEMMA DownwardDefined ==
  ASSUME NEW a \in Nat, NEW b \in Nat, NEW T, NEW step,
         \A x \in a..b : \A h : DOMAIN h = x + 1..b /\ h = [y \in x + 1..b |-> h[y]] /\ (\A y \in x + 1..b : h[y] \in T[y])
                                => step[<<x, h>>] \in T[x]
  PROVE  \E g : /\ Regressive(g, a, b, step)
                /\ \A x \in a..b : g[x] \in T[x]
<1> DEFINE Next(g, x) == step[<<x, [y \in x + 1..b |-> g[y]]>>]
           Upper(m) == {x \in a..b : b - x < m}
           Defined(m) == \E g : g = [x \in Upper(m) |-> Next(g, x)]
           A == {m \in Nat : Defined(m)}
<1>1. Defined(0)
  <2>1. Upper(0) = {}
    OBVIOUS
  <2> DEFINE g == [x \in {} |-> step]
  <2>2. g = [x \in {} |-> Next(g, x)]
    OBVIOUS
  <2> QED BY <2>1, <2>2
<1>2. ASSUME NEW m \in Nat, Defined(m) PROVE Defined(m + 1)
  <2>1. PICK g : g = [x \in Upper(m) |-> Next(g, x)]
    BY <1>2
  <2> DEFINE h == [x \in Upper(m + 1) |-> IF x \in Upper(m) THEN g[x] ELSE Next(g, x)]
  <2>2. \A x \in Upper(m + 1) : \A y \in x + 1..b : y \in Upper(m)
    OBVIOUS
  <2>3. \A x \in Upper(m) : h[x] = g[x] /\ x \in Upper(m + 1)
    OBVIOUS
  <2>4. ASSUME NEW x \in Upper(m + 1) PROVE Next(h, x) = Next(g, x)
    <3>1. \A y \in x + 1..b : h[y] = g[y]
      BY <2>2, <2>3
    <3>2. [y \in x + 1..b |-> h[y]] = [y \in x + 1..b |-> g[y]]
      BY <3>1
    <3> QED BY <3>2
  <2>5. \A x \in Upper(m) : g[x] = Next(g, x)
    BY <2>1
  <2> HIDE DEF Next, Upper
  <2>6. h = [x \in Upper(m + 1) |-> Next(h, x)]
    BY <2>4, <2>5
  <2> QED BY <2>6
<1>3. Upper(b + 1) = a..b
  OBVIOUS
<1> HIDE DEF Defined
<1>4. \A k \in 0..b + 1 : k \in A
  <2>1. 0 \in A
    BY <1>1
  <2>2. \A k \in 1..b + 1 : k - 1 \in A => k \in A
    <3> SUFFICES ASSUME NEW k \in 1..b + 1, k - 1 \in A PROVE k \in A
      OBVIOUS
    <3>1. k - 1 \in Nat /\ (k - 1) + 1 = k /\ Defined(k - 1)
      OBVIOUS
    <3>2. Defined((k - 1) + 1)
      BY <1>2, <3>1
    <3> QED BY <3>1, <3>2
  <2> HIDE DEF A
  <2> QED BY <2>1, <2>2, UpTo
<1>5. Defined(b + 1)
  BY <1>4
<1>6. PICK g : g = [x \in a..b |-> Next(g, x)]
  BY <1>3, <1>5 DEF Defined
<1>7. \A x \in a..b : g[x] = Next(g, x)
  BY <1>6
<1> DEFINE B == {k \in 0..b + 1 : \A x \in Upper(k) : g[x] \in T[x]}
<1>8. \A k \in 0..b + 1 : k \in B
  <2>1. 0 \in B
    OBVIOUS
  <2>2. ASSUME NEW k \in 1..b + 1, k - 1 \in B PROVE k \in B
    <3> SUFFICES ASSUME NEW x \in Upper(k) PROVE g[x] \in T[x]
      OBVIOUS
    <3> DEFINE h == [y \in x + 1..b |-> g[y]]
    <3>1. \A y \in x + 1..b : y \in Upper(k - 1)
      OBVIOUS
    <3>2. \A y \in x + 1..b : h[y] \in T[y]
      BY <2>2, <3>1
    <3>3. DOMAIN h = x + 1..b /\ h = [y \in x + 1..b |-> h[y]]
      OBVIOUS
    <3> HIDE DEF h
    <3>4. step[<<x, h>>] \in T[x]
      BY <3>2, <3>3
    <3> QED BY <1>7, <3>4 DEF h
  <2> HIDE DEF B
  <2> QED BY <2>1, <2>2, UpTo
<1>9. \A x \in a..b : g[x] \in T[x]
  <2>1. b + 1 \in B
    BY <1>8
  <2>2. \A x \in Upper(b + 1) : g[x] \in T[x]
    BY <2>1
  <2> HIDE DEF Upper
  <2> QED BY <1>3, <2>2
<1> QED BY <1>6, <1>9 DEF Regressive

---------------------------------------------------------------------------
(* Sequences made from sequences *)

\* What is made element by element.
LEMMA MapsTo ==
  ASSUME NEW S, NEW s \in Seq(S), NEW T, NEW g \in [DOMAIN s -> T]
  PROVE  g \in Seq(T) /\ Len(g) = Len(s) /\ DOMAIN g = 1..Len(s) /\ Len(s) \in Nat
<1> DEFINE n == Len(s)
           v(k) == g[k]
<1>1. n \in Nat /\ DOMAIN s = 1..n
  BY LenProperties
<1>2. g = [k \in 1..n |-> v(k)] /\ \A k \in 1..n : v(k) \in T
  BY <1>1
<1>3. [k \in 1..n |-> v(k)] \in Seq(T)
  <2> HIDE DEF v, n
  <2> QED BY <1>1, <1>2, IsASeq
<1>4. g \in Seq(T)
  BY <1>2, <1>3
<1>5. DOMAIN g = 1..n /\ DOMAIN g = 1..Len(g) /\ Len(g) \in Nat
  BY <1>1, <1>4, LenProperties
<1>6. Len(g) = n
  BY <1>1, <1>5
<1> QED BY <1>1, <1>4, <1>5, <1>6

\* The sequences that FlattenSeq puts together, one after the other.
Flattening(f, ss) ==
  /\ f = [k \in 1..Len(ss) |-> IF k = 1 THEN ss[k] ELSE f[k - 1] \o ss[k]]
\* FlattenSeq goes through these sequences, and returns the last of them.
LEMMA FlatteningDefined ==
  ASSUME NEW T, NEW ss \in Seq(Seq(T)), ss # <<>>
  PROVE  \E f : /\ Flattening(f, ss) /\ FlattenSeq(ss) = f[Len(ss)]
                /\ \A k \in 1..Len(ss) : f[k] \in Seq(T)
<1> DEFINE n == Len(ss)
           S == Seq(T)
           V == [k \in 0..n |-> S]
           step == [q \in S \X (1..n) |-> IF q[2] = 1 THEN ss[1] ELSE q[1] \o ss[q[2]]]
<1>1. n \in Nat /\ n >= 1 /\ \A k \in 1..n : ss[k] \in S
  BY LenProperties, EmptySeq, ElementOfSeq
<1>2. \A k \in 1..n : \A x \in S : (IF k = 1 THEN ss[1] ELSE x \o ss[k]) \in S
  BY <1>1, ConcatProperties
<1> HIDE DEF n
<1>3. \A k \in 1..n : \A x \in V[k - 1] : step[<<x, k>>] \in V[k]
  <2> SUFFICES ASSUME NEW k \in 1..n, NEW x \in V[k - 1] PROVE step[<<x, k>>] \in V[k]
    OBVIOUS
  <2>1. k - 1 \in 0..n /\ k \in 0..n
    BY <1>1
  <2>2. x \in S /\ V[k] = S
    BY <2>1
  <2>3. step[<<x, k>>] = IF k = 1 THEN ss[1] ELSE x \o ss[k]
    BY <2>2
  <2> QED BY <1>2, <2>2, <2>3
<1>4. <<>> \in V[0]
  <2>1. 0 \in 0..n
    BY <1>1
  <2> QED BY <2>1, EmptySeq
<1>5. PICK g : Successive(g, n, <<>>, step) /\ \A k \in 0..n : g[k] \in V[k]
  <2> HIDE DEF V, step
  <2> QED BY <1>1, <1>3, <1>4, RecursionDefined
<1> DEFINE f == [k \in 1..n |-> g[k]]
<1>6. ASSUME NEW k \in 1..n PROVE f[k] = (IF k = 1 THEN ss[k] ELSE f[k - 1] \o ss[k]) /\ f[k] \in S
  <2>1. k \in 0..n /\ k - 1 \in 0..n /\ k # 0 /\ (k # 1 => k - 1 \in 1..n)
    BY <1>1
  <2>2. g[k] = step[<<g[k - 1], k>>]
    BY <1>5, <2>1 DEF Successive
  <2>3. g[k - 1] \in S /\ g[k] \in S
    BY <1>5, <2>1
  <2>4. step[<<g[k - 1], k>>] = IF k = 1 THEN ss[1] ELSE g[k - 1] \o ss[k]
    BY <2>3
  <2> HIDE DEF step
  <2>5. f[k] = g[k] /\ (k # 1 => f[k - 1] = g[k - 1])
    BY <2>1
  <2> HIDE DEF f
  <2>6. f[k] = IF k = 1 THEN ss[1] ELSE g[k - 1] \o ss[k]
    BY <2>2, <2>4, <2>5
  <2> QED BY <2>3, <2>5, <2>6
<1>7. f = [k \in 1..n |-> IF k = 1 THEN ss[k] ELSE f[k - 1] \o ss[k]]
  <2>1. f = [k \in 1..n |-> f[k]]
    OBVIOUS
  <2> HIDE DEF f
  <2> QED BY <1>6, <2>1
<1> HIDE DEF f
<1> DEFINE F == CHOOSE h : h = [k \in 1..n |-> IF k = 1 THEN ss[k] ELSE h[k - 1] \o ss[k]]
<1>8. FlattenSeq(ss) = F[n]
  <2>1. Len(ss) # 0
    BY <1>1 DEF n
  <2> QED BY <2>1 DEF FlattenSeq, n
<1>9. F = [k \in 1..n |-> IF k = 1 THEN ss[k] ELSE F[k - 1] \o ss[k]]
  BY <1>7, Zenon
<1> HIDE DEF F
<1>10. \A k \in 1..n : F[k] = IF k = 1 THEN ss[k] ELSE F[k - 1] \o ss[k]
  BY <1>9, Zenon
<1> DEFINE A == {k \in 0..n : k # 0 => F[k] \in S}
<1>11. \A k \in 0..n : k \in A
  <2>1. 0 \in A
    BY <1>1
  <2>2. ASSUME NEW k \in 1..n, k - 1 \in A PROVE k \in A
    <3>1. F[k] = IF k = 1 THEN ss[k] ELSE F[k - 1] \o ss[k]
      BY <1>10
    <3>2. k # 1 => F[k - 1] \in S
      BY <2>2
    <3>3. (IF k = 1 THEN ss[1] ELSE F[k - 1] \o ss[k]) \in S
      <4>1. CASE k = 1
        BY <1>1, <4>1
      <4>2. CASE k # 1
        BY <1>2, <3>2, <4>2
      <4> QED BY <4>1, <4>2
    <3>4. k \in 0..n
      BY <1>1
    <3> QED BY <3>1, <3>3, <3>4
  <2> HIDE DEF A
  <2> QED BY <1>1, <2>1, <2>2, UpTo
<1>12. \A k \in 1..n : F[k] \in S
  BY <1>1, <1>11
<1> QED BY <1>8, <1>9, <1>12 DEF Flattening, n

\* Sequences put together make one sequence.
LEMMA FlattenIs ==
  ASSUME NEW T, NEW ss \in Seq(Seq(T))
  PROVE  FlattenSeq(ss) \in Seq(T)
<1>1. CASE ss = <<>>
  <2>1. Len(ss) = 0 /\ <<>> \in Seq(T)
    BY <1>1, EmptySeq
  <2>2. FlattenSeq(ss) = ss
    BY <2>1 DEF FlattenSeq
  <2> QED BY <1>1, <2>1, <2>2
<1>2. CASE ss # <<>>
  <2>1. Len(ss) \in 1..Len(ss)
    BY <1>2, EmptySeq
  <2> QED BY <1>2, <2>1, FlatteningDefined
<1> QED BY <1>1, <1>2

\* One sequence more comes at the end.
LEMMA FlattenMore ==
  ASSUME NEW T, NEW ss \in Seq(Seq(T)), NEW t \in Seq(T)
  PROVE  FlattenSeq(Append(ss, t)) = FlattenSeq(ss) \o t
<1> DEFINE n == Len(ss)
           tt == Append(ss, t)
<1>1. n \in Nat /\ tt \in Seq(Seq(T)) /\ tt # <<>> /\ Len(tt) = n + 1 /\ (\A i \in 1..n : tt[i] = ss[i]) /\ tt[n + 1] = t
  BY LenProperties, AppendProperties
<1> HIDE DEF tt
<1>2. PICK f : Flattening(f, tt) /\ FlattenSeq(tt) = f[n + 1]
  BY <1>1, FlatteningDefined
<1>3. \A k \in 1..n + 1 : f[k] = IF k = 1 THEN tt[k] ELSE f[k - 1] \o tt[k]
  BY <1>1, <1>2 DEF Flattening
<1>4. CASE ss = <<>>
  <2>1. n = 0 /\ FlattenSeq(ss) = <<>>
    BY <1>4 DEF FlattenSeq
  <2>2. f[1] = t
    BY <1>1, <1>3, <2>1
  <2>3. <<>> \o t = t
    BY ConcatEmptySeq
  <2> QED BY <1>2, <2>1, <2>2, <2>3 DEF tt
<1>5. CASE ss # <<>>
  <2>1. n >= 1
    BY <1>5, EmptySeq
  <2>2. PICK g : Flattening(g, ss) /\ FlattenSeq(ss) = g[n]
    BY <1>5, FlatteningDefined
  <2>3. \A k \in 1..n : g[k] = IF k = 1 THEN ss[k] ELSE g[k - 1] \o ss[k]
    BY <2>2 DEF Flattening
  <2> DEFINE A == {k \in 0..n : k # 0 => f[k] = g[k]}
  <2> HIDE DEF n
  <2>4. \A k \in 0..n : k \in A
    <3>1. 0 \in A
      BY <1>1
    <3>2. ASSUME NEW k \in 1..n, k - 1 \in A PROVE k \in A
      <4>1. k \in 0..n /\ k \in 1..n + 1 /\ tt[k] = ss[k] /\ (k # 1 => f[k - 1] = g[k - 1])
        BY <1>1, <3>2
      <4>2. f[k] = (IF k = 1 THEN tt[k] ELSE f[k - 1] \o tt[k]) /\ g[k] = IF k = 1 THEN ss[k] ELSE g[k - 1] \o ss[k]
        BY <1>3, <2>3, <4>1
      <4> QED BY <4>1, <4>2
    <3> HIDE DEF A
    <3> QED BY <1>1, <3>1, <3>2, UpTo
  <2>5. n \in 0..n /\ n # 0 /\ n + 1 \in 1..n + 1 /\ n + 1 # 1 /\ n + 1 - 1 = n
    BY <1>1, <2>1
  <2>6. f[n] = g[n]
    BY <2>4, <2>5
  <2>7. f[n + 1] = f[n] \o tt[n + 1]
    <3> DEFINE m == n + 1
    <3>1. m \in 1..n + 1 /\ m # 1 /\ m - 1 = n
      BY <2>5
    <3> HIDE DEF m
    <3>2. f[m] = f[m - 1] \o tt[m]
      BY <1>3, <3>1
    <3>3. f[m] = f[n] \o tt[m]
      BY <3>1, <3>2
    <3> QED BY <3>3 DEF m
  <2> QED BY <1>1, <1>2, <2>2, <2>6, <2>7 DEF tt
<1> QED BY <1>4, <1>5

---------------------------------------------------------------------------
(* Finite sets *)

\* What a function makes of finitely many things is finite.
LEMMA ImageFinite ==
  ASSUME NEW D, IsFiniteSet(D), NEW f
  PROVE  IsFiniteSet({f[x] : x \in D})
<1> DEFINE T == {f[x] : x \in D}
           g == [x \in D |-> f[x]]
<1>1. g \in Surjection(D, T)
  BY DEF Surjection
<1> HIDE DEF g
<1> QED BY <1>1, FS_Surjection

\* There are finitely many functions from a finite set into a finite set.
LEMMA FunctionsFinite ==
  ASSUME NEW D, IsFiniteSet(D), NEW E, IsFiniteSet(E)
  PROVE  IsFiniteSet([D -> E])
<1> DEFINE Graph(f) == {p \in D \X E : f[p[1]] = p[2]}
           g == [f \in [D -> E] |-> Graph(f)]
           T == SUBSET (D \X E)
<1>1. IsFiniteSet(T)
  BY FS_Product, FS_SUBSET
<1>2. \A f, h \in [D -> E] : Graph(f) = Graph(h) => f = h
  <2> SUFFICES ASSUME NEW f \in [D -> E], NEW h \in [D -> E], Graph(f) = Graph(h) PROVE f = h
    OBVIOUS
  <2>1. ASSUME NEW x \in D PROVE f[x] = h[x]
    <3>1. <<x, f[x]>> \in Graph(f)
      OBVIOUS
    <3>2. <<x, f[x]>> \in Graph(h)
      BY <2>1, <3>1
    <3> QED BY <3>2
  <2> HIDE DEF Graph
  <2> QED BY <2>1
<1>3. \A f \in [D -> E] : Graph(f) \in T
  OBVIOUS
<1> HIDE DEF Graph, T
<1>4. g \in Injection([D -> E], T)
  BY <1>2, <1>3 DEF Injection, IsInjective
<1> HIDE DEF g
<1> QED BY <1>1, <1>4, FS_Injection

\* Finitely many numbers have a largest one.
LEMMA LargestOf ==
  ASSUME NEW D, IsFiniteSet(D), D \subseteq Int, D # {}
  PROVE  Max(D) \in D /\ \A x \in D : x <= Max(D)
<1> DEFINE R == {p \in D \X D : p[1] < p[2]}
           c == Cardinality(D)
<1>1. Linear(D, R)
  BY DEF Linear
<1>2. EachRank(D, R) /\ Climbing(D, R)
  BY <1>1, RanksClimb, RanksFilled
<1>3. c \in Nat /\ c # 0
  BY FS_CardinalityType, FS_EmptySet
<1>4. c \in 1..c
  BY <1>3
<1>5. PICK i \in D : RankOf(D, R, i) = c - 1
  BY <1>2, <1>4 DEF EachRank
<1>6. ASSUME NEW j \in D, ~ (j <= i) PROVE FALSE
  <2>1. <<i, j>> \in R
    BY <1>6
  <2>2. RankOf(D, R, i) < RankOf(D, R, j) /\ RankOf(D, R, j) \in 0..c - 1
    BY <1>2, <2>1 DEF Climbing
  <2> HIDE DEF R, c
  <2> QED BY <1>3, <1>5, <2>2
<1>7. \A j \in D : i >= j
  BY <1>6
<1>8. Max(D) \in D /\ \A j \in D : Max(D) >= j
  BY <1>7, Zenon DEF Max
<1> QED BY <1>8

\* The elements of a finite set in an order are all of them.
LEMMA InOrderIs ==
  ASSUME NEW S, IsFiniteSet(S), NEW before
  PROVE  InOrder(S, before) \in Seq(S) /\ Len(InOrder(S, before)) = Cardinality(S) /\ Cardinality(S) \in Nat
<1> DEFINE n == Cardinality(S)
           T == [k \in 0..n |-> {q \in Seq(S) : Len(q) = k}]
           More(q) == Append(q, Foremost(S \ ToSet(q), before))
           step == [p \in Seq(S) \X (1..n) |-> More(p[1])]
           F == CHOOSE f : f = [k \in 0..n |-> IF k = 0 THEN <<>> ELSE More(f[k - 1])]
<1>1. n \in Nat
  BY FS_CardinalityType
<1>2. InOrder(S, before) = F[n]
  BY DEF InOrder
<1>3. ASSUME NEW k \in 1..n, NEW q \in Seq(S), Len(q) = k - 1 PROVE More(q) \in Seq(S) /\ Len(More(q)) = k
  <2> DEFINE left == S \ ToSet(q)
             Preceding(x) == Cardinality({y \in left : <<y, x>> \in before})
  <2>1. ToSet(q) \subseteq S /\ IsFiniteSet(ToSet(q)) /\ Cardinality(ToSet(q)) <= k - 1 /\ Cardinality(ToSet(q)) \in Nat
    <3>1. DOMAIN q = 1..k - 1 /\ k - 1 \in Nat
      BY <1>3, LenProperties
    <3>2. q \in Surjection(1..k - 1, ToSet(q))
      BY <1>3, <3>1, LenProperties DEF Surjection, ToSet
    <3>3. IsFiniteSet(1..k - 1) /\ Cardinality(1..k - 1) = k - 1
      BY <3>1, FirstNumbers
    <3> QED BY <1>3, <3>2, <3>3, OwnElements, FS_Surjection, FS_CardinalityType
  <2>2. left # {}
    <3>1. SUFFICES ASSUME left = {} PROVE FALSE
      OBVIOUS
    <3>2. ToSet(q) = S
      BY <2>1, <3>1
    <3> QED BY <1>1, <2>1, <3>2
  <2>3. IsFiniteSet(left)
    BY FS_Difference
  <2> DEFINE N == {Preceding(x) : x \in left}
  <2>4. \A x \in left : Preceding(x) \in Nat
    <3> HIDE DEF left
    <3>1. \A x \in left : IsFiniteSet({y \in left : <<y, x>> \in before})
      BY <2>3, FS_Subset
    <3> QED BY <3>1, FS_CardinalityType
  <2> HIDE DEF left, Preceding
  <2>5. PICK m \in N : \A l \in N : ~ (l < m)
    <3>1. N \subseteq Nat /\ N # {}
      BY <2>2, <2>4
    <3> HIDE DEF N
    <3> QED BY <3>1, LeastNumber
  <2>6. PICK x \in left : m = Preceding(x)
    OBVIOUS
  <2>7. \A y \in left : Preceding(x) <= Preceding(y)
    <3>1. \A y \in left : Preceding(y) \in N
      OBVIOUS
    <3>2. m \in Nat
      BY <2>4, <2>6
    <3>3. \A y \in left : ~ (Preceding(y) < m)
      BY <2>5, <3>1
    <3> HIDE DEF N
    <3> QED BY <2>4, <2>6, <3>2, <3>3
  <2>8. Foremost(left, before) = CHOOSE z \in left : \A y \in left : Preceding(z) <= Preceding(y)
    BY DEF Foremost, Preceding
  <2>9. Foremost(left, before) \in left
    BY <2>7, <2>8, Zenon
  <2>10. Foremost(left, before) \in S /\ More(q) = Append(q, Foremost(left, before))
    BY <2>9 DEF left
  <2> QED BY <1>1, <1>3, <2>10, AppendProperties
<1> HIDE DEF More, n
<1>4. \A k \in 1..n : \A q \in T[k - 1] : step[<<q, k>>] \in T[k]
  BY <1>1, <1>3
<1>5. <<>> \in T[0]
  <2>1. 0 \in 0..n /\ <<>> \in Seq(S) /\ Len(<<>>) = 0
    BY <1>1, EmptySeq
  <2> QED BY <2>1
<1>6. PICK g : Successive(g, n, <<>>, step) /\ \A k \in 0..n : g[k] \in T[k]
  <2> HIDE DEF T, step
  <2> QED BY <1>1, <1>4, <1>5, RecursionDefined
<1>7. ASSUME NEW k \in 0..n PROVE g[k] \in Seq(S) /\ Len(g[k]) = k
  BY <1>6
<1>8. ASSUME NEW k \in 0..n PROVE g[k] = IF k = 0 THEN <<>> ELSE More(g[k - 1])
  <2>1. k # 0 => k - 1 \in 0..n /\ k \in 1..n
    BY <1>1
  <2>2. g[k] = IF k = 0 THEN <<>> ELSE step[<<g[k - 1], k>>]
    BY <1>6 DEF Successive
  <2>3. k # 0 => step[<<g[k - 1], k>>] = More(g[k - 1])
    BY <1>7, <2>1
  <2> HIDE DEF step
  <2> QED BY <2>2, <2>3
<1>9. g = [k \in 0..n |-> IF k = 0 THEN <<>> ELSE More(g[k - 1])]
  <2>1. g = [k \in 0..n |-> g[k]]
    BY <1>6 DEF Successive
  <2> QED BY <1>8, <2>1
<1>10. F = [k \in 0..n |-> IF k = 0 THEN <<>> ELSE More(F[k - 1])]
  BY <1>9, Zenon
<1> HIDE DEF F
<1>11. \A k \in 0..n : F[k] = IF k = 0 THEN <<>> ELSE More(F[k - 1])
  BY <1>10, Zenon
<1> DEFINE A == {k \in 0..n : F[k] \in Seq(S) /\ Len(F[k]) = k}
<1>12. \A k \in 0..n : k \in A
  <2>1. 0 \in A
    <3>1. 0 \in 0..n /\ <<>> \in Seq(S) /\ Len(<<>>) = 0
      BY <1>1, EmptySeq
    <3> QED BY <1>11, <3>1
  <2>2. ASSUME NEW k \in 1..n, k - 1 \in A PROVE k \in A
    <3>1. k \in 0..n /\ k # 0 /\ F[k - 1] \in Seq(S) /\ Len(F[k - 1]) = k - 1
      BY <1>1, <2>2
    <3>2. F[k] = More(F[k - 1])
      BY <1>11, <3>1
    <3> QED BY <1>3, <3>1, <3>2
  <2> HIDE DEF A
  <2> QED BY <1>1, <2>1, <2>2, UpTo
<1>13. F[n] \in Seq(S) /\ Len(F[n]) = n
  BY <1>1, <1>12
<1> QED BY <1>1, <1>2, <1>13 DEF n

---------------------------------------------------------------------------
(* The order that insertion makes *)

\* An arrangement of the first numbers.
Arranging(o, k) ==
  /\ o \in Seq(Nat) /\ Len(o) = k /\ \A i \in 1..k : o[i] \in 1..k
  /\ \A i, j \in 1..k : o[i] = o[j] => i = j
\* Inserting the next number into an arrangement gives an arrangement.
LEMMA InsertedArranges ==
  ASSUME NEW k \in Nat, NEW o, Arranging(o, k), NEW before
  PROVE  Arranging(Inserted(o, k + 1, before), k + 1)
<1> DEFINE stay == {i \in DOMAIN o : <<k + 1, o[i]>> \notin before}
           j == IF 1 \in stay THEN Max(stay) + 1 ELSE 1
           t == InsertAt(o, j, k + 1)
<1>1. o \in Seq(Nat) /\ Len(o) = k /\ DOMAIN o = 1..k
  BY LenProperties DEF Arranging
<1>2. j \in 1..k + 1
  <2>1. CASE 1 \in stay
    <3>1. stay \subseteq 1..k /\ stay # {}
      BY <1>1, <2>1
    <3> HIDE DEF stay
    <3>2. Max(stay) \in stay
      BY <3>1, LastOf
    <3>3. Max(stay) \in 1..k
      BY <3>1, <3>2
    <3> QED BY <2>1, <3>3
  <2>2. CASE ~ (1 \in stay)
    <3> HIDE DEF stay
    <3> QED BY <2>2
  <2> QED BY <2>1, <2>2
<1>3. Inserted(o, k + 1, before) = t
  BY DEF Inserted
<1> HIDE DEF j
<1>4. /\ t \in Seq(Nat) /\ Len(t) = k + 1
      /\ \A i \in 1..k + 1 : t[i] = IF i < j THEN o[i] ELSE IF i = j THEN k + 1 ELSE o[i - 1]
  <2>1. j \in 1..Len(o) + 1 /\ k + 1 \in Nat
    BY <1>1, <1>2
  <2> DEFINE x == k + 1
             S == Nat
  <2>2. x \in S /\ o \in Seq(S)
    BY <1>1
  <2> HIDE DEF x, S
  <2>3. /\ InsertAt(o, j, x) \in Seq(S) /\ Len(InsertAt(o, j, x)) = Len(o) + 1
        /\ \A i \in 1..Len(o) + 1 : InsertAt(o, j, x)[i] = IF i < j THEN o[i] ELSE IF i = j THEN x ELSE o[i - 1]
    BY <2>1, <2>2, InsertedIs
  <2> QED BY <1>1, <2>3 DEF x, S
<1>5. \A i \in 1..k : o[i] \in 1..k
  BY DEF Arranging
<1>6. \A i, l \in 1..k : o[i] = o[l] => i = l
  BY DEF Arranging
<1> HIDE DEF t
<1>7. ASSUME NEW i \in 1..k + 1
      PROVE  t[i] \in 1..k + 1 /\ (i = j => t[i] = k + 1) /\ (i # j => t[i] \in 1..k)
             /\ (i < j => i \in 1..k /\ t[i] = o[i]) /\ (i > j => i - 1 \in 1..k /\ t[i] = o[i - 1])
  <2>1. i < j => i \in 1..k
    BY <1>2
  <2>2. i > j => i - 1 \in 1..k
    BY <1>2
  <2>3. i < j => t[i] = o[i]
    BY <1>4
  <2>4. i > j => t[i] = o[i - 1]
    BY <1>2, <1>4
  <2>5. i = j => t[i] = k + 1
    BY <1>2, <1>4
  <2>6. i < j \/ i = j \/ i > j
    BY <1>2
  <2> QED BY <1>5, <2>1, <2>2, <2>3, <2>4, <2>5, <2>6
<1>8. ASSUME NEW i \in 1..k + 1, NEW l \in 1..k + 1, t[i] = t[l] PROVE i = l
  <2>1. CASE i = j \/ l = j
    BY <1>7, <1>8, <2>1
  <2>2. CASE i < j /\ l < j
    BY <1>6, <1>7, <1>8, <2>2
  <2>3. CASE i > j /\ l > j
    <3>1. i - 1 \in 1..k /\ l - 1 \in 1..k /\ o[i - 1] = o[l - 1]
      BY <1>7, <1>8, <2>3
    <3>2. i - 1 = l - 1
      BY <1>6, <3>1
    <3> QED BY <3>2
  <2>4. CASE i < j /\ l > j
    <3>1. i \in 1..k /\ l - 1 \in 1..k /\ o[i] = o[l - 1]
      BY <1>7, <1>8, <2>4
    <3>2. i = l - 1
      BY <1>6, <3>1
    <3> QED BY <1>2, <2>4, <3>2
  <2>5. CASE i > j /\ l < j
    <3>1. l \in 1..k /\ i - 1 \in 1..k /\ o[l] = o[i - 1]
      BY <1>7, <1>8, <2>5
    <3>2. l = i - 1
      BY <1>6, <3>1
    <3> QED BY <1>2, <2>5, <3>2
  <2> QED BY <1>2, <2>1, <2>2, <2>3, <2>4, <2>5
<1> QED BY <1>3, <1>4, <1>7, <1>8 DEF Arranging

\* The insertion that std::sort does on short ranges arranges the places,
\* whatever the order is.
LEMMA SortedArranges ==
  ASSUME NEW n \in Nat, NEW before
  PROVE  Arranging(SortedPlaces(n, before), n)
<1> DEFINE T == [k \in 0..n |-> {o \in Seq(Nat) : Arranging(o, k)}]
           step == [p \in Seq(Nat) \X (1..n) |-> Inserted(p[1], p[2], before)]
           F == CHOOSE f : f = [k \in 0..n |-> IF k = 0 THEN <<>> ELSE Inserted(f[k - 1], k, before)]
<1>1. SortedPlaces(n, before) = F[n]
  BY DEF SortedPlaces
<1>2. ASSUME NEW k \in 1..n, NEW o, Arranging(o, k - 1) PROVE Arranging(Inserted(o, k, before), k)
  <2>1. k - 1 \in Nat /\ (k - 1) + 1 = k
    OBVIOUS
  <2> DEFINE m == k - 1
  <2>2. Arranging(Inserted(o, m + 1, before), m + 1)
    <3> HIDE DEF m
    <3> QED BY <1>2, <2>1, InsertedArranges DEF m
  <2> QED BY <2>1, <2>2
<1>3. \A k \in 1..n : \A o \in T[k - 1] : step[<<o, k>>] \in T[k]
  <2> SUFFICES ASSUME NEW k \in 1..n, NEW o \in T[k - 1] PROVE step[<<o, k>>] \in T[k]
    OBVIOUS
  <2>1. k \in 0..n /\ k - 1 \in 0..n
    OBVIOUS
  <2>2. o \in Seq(Nat) /\ Arranging(o, k - 1)
    BY <2>1
  <2>3. Arranging(Inserted(o, k, before), k)
    BY <1>2, <2>2
  <2>4. Inserted(o, k, before) \in Seq(Nat)
    BY <2>3 DEF Arranging
  <2> QED BY <2>1, <2>2, <2>3, <2>4
<1>4. <<>> \in T[0]
  <2>1. 0 \in 0..n /\ <<>> \in Seq(Nat) /\ Len(<<>>) = 0
    BY EmptySeq
  <2>2. Arranging(<<>>, 0)
    BY <2>1 DEF Arranging
  <2> QED BY <2>1, <2>2
<1>5. PICK g : Successive(g, n, <<>>, step) /\ \A k \in 0..n : g[k] \in T[k]
  <2> HIDE DEF T, step
  <2> QED BY <1>3, <1>4, RecursionDefined
<1>6. ASSUME NEW k \in 0..n PROVE g[k] = IF k = 0 THEN <<>> ELSE Inserted(g[k - 1], k, before)
  <2>1. k # 0 => k - 1 \in 0..n /\ k \in 1..n
    OBVIOUS
  <2>2. g[k] = IF k = 0 THEN <<>> ELSE step[<<g[k - 1], k>>]
    BY <1>5 DEF Successive
  <2>3. k # 0 => g[k - 1] \in Seq(Nat)
    BY <1>5, <2>1
  <2>4. k # 0 => step[<<g[k - 1], k>>] = Inserted(g[k - 1], k, before)
    BY <2>1, <2>3
  <2> HIDE DEF step
  <2> QED BY <2>2, <2>4
<1>7. g = [k \in 0..n |-> IF k = 0 THEN <<>> ELSE Inserted(g[k - 1], k, before)]
  <2>1. g = [k \in 0..n |-> g[k]]
    BY <1>5 DEF Successive
  <2> QED BY <1>6, <2>1
<1>8. F = [k \in 0..n |-> IF k = 0 THEN <<>> ELSE Inserted(F[k - 1], k, before)]
  BY <1>7, Zenon
<1> HIDE DEF F
<1>9. \A k \in 0..n : F[k] = IF k = 0 THEN <<>> ELSE Inserted(F[k - 1], k, before)
  BY <1>8, Zenon
<1> DEFINE A == {k \in 0..n : Arranging(F[k], k)}
<1>10. \A k \in 0..n : k \in A
  <2>1. 0 \in A
    <3>1. 0 \in 0..n /\ <<>> \in Seq(Nat) /\ Len(<<>>) = 0
      BY EmptySeq
    <3>2. Arranging(<<>>, 0)
      BY <3>1 DEF Arranging
    <3> QED BY <1>9, <3>1, <3>2
  <2>2. ASSUME NEW k \in 1..n, k - 1 \in A PROVE k \in A
    <3>1. k \in 0..n /\ k # 0 /\ Arranging(F[k - 1], k - 1)
      BY <2>2
    <3>2. F[k] = Inserted(F[k - 1], k, before)
      BY <1>9, <3>1
    <3> QED BY <1>2, <3>1, <3>2
  <2> HIDE DEF A
  <2> QED BY <2>1, <2>2, UpTo
<1>11. n \in A
  BY <1>10
<1> QED BY <1>1, <1>11

\* A sorted sequence has the elements of the unsorted one, each once.
Rearranges(t, s, c) ==
  /\ c \in [DOMAIN s -> DOMAIN s]
  /\ \A i, j \in DOMAIN s : c[i] = c[j] => i = j
  /\ \A j \in DOMAIN s : \E i \in DOMAIN s : c[i] = j
  /\ t = [k \in DOMAIN s |-> s[c[k]]]
\* SortedBy rearranges a sequence.
LEMMA SortedIs ==
  ASSUME NEW S, NEW s \in Seq(S), NEW before
  PROVE  /\ SortedBy(s, before) \in Seq(S) /\ Len(SortedBy(s, before)) = Len(s)
         /\ \E c : Rearranges(SortedBy(s, before), s, c)
<1> DEFINE n == Len(s)
           o == SortedPlaces(n, before)
           c == [k \in DOMAIN s |-> o[k]]
           t == [k \in DOMAIN s |-> s[c[k]]]
<1>1. n \in Nat /\ DOMAIN s = 1..n
  BY LenProperties
<1>2. Arranging(o, n)
  BY <1>1, SortedArranges
<1>3. SortedBy(s, before) = [k \in DOMAIN s |-> s[o[k]]]
  BY DEF SortedBy
<1> HIDE DEF o, n
<1>4. SortedBy(s, before) = t
  BY <1>3
<1>5. c \in [DOMAIN s -> DOMAIN s] /\ \A i, j \in DOMAIN s : c[i] = c[j] => i = j
  BY <1>1, <1>2 DEF Arranging
<1>6. \A j \in DOMAIN s : \E i \in DOMAIN s : c[i] = j
  <2> DEFINE D == DOMAIN s
  <2>1. IsFiniteSet(D)
    BY <1>1, FirstNumbers
  <2> HIDE DEF D, c
  <2>2. c \in Injection(D, D)
    BY <1>5 DEF Injection, IsInjective, D
  <2>3. c \in Surjection(D, D)
    BY <2>1, <2>2, FS_Injection
  <2> QED BY <2>3 DEF Surjection, D
<1> HIDE DEF c
<1>7. t \in Seq(S) /\ Len(t) = Len(s)
  BY <1>5, Picked
<1>8. Rearranges(t, s, c)
  BY <1>5, <1>6 DEF Rearranges
<1> QED BY <1>4, <1>7, <1>8

\* A sum of numbers.
LEMMA TotalIs ==
  ASSUME NEW N \in {Nat, Int}, NEW s \in Seq(N)
  PROVE  Total(s) \in N
<1> DEFINE n == Len(s)
           T == [k \in 0..n |-> N]
           step == [p \in N \X (1..n) |-> p[1] + s[p[2]]]
           F == CHOOSE f : f = [k \in 0..n |-> IF k = 0 THEN 0 ELSE f[k - 1] + s[k]]
<1>1. n \in Nat /\ \A k \in 1..n : s[k] \in N
  BY LenProperties, ElementOfSeq
<1>2. Total(s) = F[n]
  BY DEF Total
<1> HIDE DEF n
<1>3. \A x \in N, k \in 1..n : x + s[k] \in N
  BY <1>1
<1>4. \A k \in 1..n : \A x \in T[k - 1] : step[<<x, k>>] \in T[k]
  <2> SUFFICES ASSUME NEW k \in 1..n, NEW x \in T[k - 1] PROVE step[<<x, k>>] \in T[k]
    OBVIOUS
  <2>1. k \in 0..n /\ k - 1 \in 0..n
    BY <1>1
  <2>2. x \in N
    BY <2>1
  <2>3. step[<<x, k>>] = x + s[k]
    BY <2>2
  <2> QED BY <1>3, <2>1, <2>2, <2>3
<1>5. 0 \in T[0]
  BY <1>1
<1>6. PICK g : Successive(g, n, 0, step) /\ \A k \in 0..n : g[k] \in T[k]
  <2> HIDE DEF T, step
  <2> QED BY <1>1, <1>4, <1>5, RecursionDefined
<1>7. ASSUME NEW k \in 0..n PROVE g[k] = IF k = 0 THEN 0 ELSE g[k - 1] + s[k]
  <2>1. k # 0 => k - 1 \in 0..n /\ k \in 1..n
    BY <1>1
  <2>2. g[k] = IF k = 0 THEN 0 ELSE step[<<g[k - 1], k>>]
    BY <1>6 DEF Successive
  <2>3. k # 0 => g[k - 1] \in N
    BY <1>6, <2>1
  <2>4. k # 0 => step[<<g[k - 1], k>>] = g[k - 1] + s[k]
    BY <2>1, <2>3
  <2> HIDE DEF step
  <2> QED BY <2>2, <2>4
<1>8. g = [k \in 0..n |-> IF k = 0 THEN 0 ELSE g[k - 1] + s[k]]
  <2>1. g = [k \in 0..n |-> g[k]]
    BY <1>6 DEF Successive
  <2> QED BY <1>7, <2>1
<1>9. F = [k \in 0..n |-> IF k = 0 THEN 0 ELSE F[k - 1] + s[k]]
  BY <1>8, Zenon
<1> HIDE DEF F
<1>10. \A k \in 0..n : F[k] = IF k = 0 THEN 0 ELSE F[k - 1] + s[k]
  BY <1>9, Zenon
<1> DEFINE A == {k \in 0..n : F[k] \in N}
<1>11. \A k \in 0..n : k \in A
  <2>1. 0 \in A
    <3>1. 0 \in 0..n
      BY <1>1
    <3>2. F[0] = 0 /\ 0 \in N
      BY <1>10, <3>1
    <3> QED BY <3>1, <3>2
  <2>2. ASSUME NEW k \in 1..n, k - 1 \in A PROVE k \in A
    <3>1. k \in 0..n /\ k # 0 /\ F[k - 1] \in N
      BY <1>1, <2>2
    <3>2. F[k] = F[k - 1] + s[k]
      BY <1>10, <3>1
    <3> QED BY <1>3, <3>1, <3>2
  <2> HIDE DEF A
  <2> QED BY <1>1, <2>1, <2>2, UpTo
<1>12. n \in A
  BY <1>1, <1>11
<1> QED BY <1>2, <1>12

---------------------------------------------------------------------------
(* More of the same *)

\* The elements at some places, said of the elements.
LEMMA SomeOf ==
  ASSUME NEW S, NEW s \in Seq(S), NEW T, NEW places \in SUBSET DOMAIN s, \A i \in places : s[i] \in T
  PROVE  Those(s, places) \in Seq(T)
<1> DEFINE t == Those(s, places)
<1>1. t \in Seq(S) /\ \A k \in DOMAIN t : \E i \in places : t[k] = s[i]
  BY ThoseAre
<1> HIDE DEF t
<1>2. Len(t) \in Nat /\ DOMAIN t = 1..Len(t) /\ t \in [1..Len(t) -> S]
  BY <1>1, LenProperties
<1>3. t \in [DOMAIN t -> T]
  BY <1>1, <1>2
<1>4. t \in Seq(T)
  BY <1>1, <1>3, MapsTo
<1> QED BY <1>4 DEF t

\* What a number is in when all larger ones are, all numbers are in.
LEMMA DownTo ==
  ASSUME NEW a \in Nat, NEW b \in Nat, NEW A, \A x \in a..b : (\A y \in x + 1..b : y \in A) => x \in A
  PROVE  \A x \in a..b : x \in A
<1> DEFINE B == {k \in 0..b : \A x \in a..b : b - x <= k => x \in A}
<1>1. 0 \in B
  OBVIOUS
<1>2. ASSUME NEW k \in 1..b, k - 1 \in B PROVE k \in B
  <2>1. ASSUME NEW x \in a..b, b - x <= k PROVE x \in A
    <3>1. \A y \in x + 1..b : y \in A
      BY <1>2, <2>1
    <3> QED BY <3>1
  <2> QED BY <2>1
<1>3. \A k \in 0..b : k \in B
  <2> HIDE DEF B
  <2> QED BY <1>1, <1>2, UpTo
<1>4. b \in B
  BY <1>3
<1> QED BY <1>4

\* A part of a sequence.
LEMMA PartIs ==
  ASSUME NEW S, NEW s \in Seq(S), NEW m \in Nat, m >= 1, NEW n \in Int, n <= Len(s)
  PROVE  /\ SubSeq(s, m, n) \in Seq(S) /\ Len(SubSeq(s, m, n)) = IF m <= n THEN n - m + 1 ELSE 0
         /\ \A i \in 1..n - m + 1 : SubSeq(s, m, n)[i] = s[m + i - 1]
<1>1. Len(s) \in Nat /\ \A i \in 1..Len(s) : s[i] \in S
  BY LenProperties, ElementOfSeq
<1>2. \A i \in m..n : s[i] \in S
  BY <1>1
<1> QED BY <1>2, SubSeqProperties

\* Where an element of two sequences put together comes from.
LEMMA JoinedAt ==
  ASSUME NEW S, NEW s \in Seq(S), NEW t \in Seq(S)
  PROVE  /\ s \o t \in Seq(S) /\ Len(s \o t) = Len(s) + Len(t) /\ Len(s) \in Nat /\ Len(t) \in Nat
         /\ \A i \in 1..Len(s) : (s \o t)[i] = s[i]
         /\ \A i \in 1..Len(t) : (s \o t)[Len(s) + i] = t[i]
<1>1. Len(s) \in Nat /\ Len(t) \in Nat
  BY LenProperties
<1>2. /\ s \o t \in Seq(S) /\ Len(s \o t) = Len(s) + Len(t)
      /\ \A i \in 1..Len(s) + Len(t) : (s \o t)[i] = IF i <= Len(s) THEN s[i] ELSE t[i - Len(s)]
  BY ConcatProperties
<1>3. ASSUME NEW i \in 1..Len(t) PROVE (s \o t)[Len(s) + i] = t[i]
  <2> DEFINE j == Len(s) + i
  <2>1. j \in 1..Len(s) + Len(t) /\ ~ (j <= Len(s)) /\ j - Len(s) = i
    BY <1>1
  <2> HIDE DEF j
  <2>2. (s \o t)[j] = t[j - Len(s)]
    BY <1>2, <2>1
  <2> QED BY <2>1, <2>2 DEF j
<1> QED BY <1>1, <1>2, <1>3

\* What each element gives, one after the other.
LEMMA FlatMap ==
  ASSUME NEW S, NEW s \in Seq(S), NEW T, NEW g \in [DOMAIN s -> Seq(T)]
  PROVE  FlattenSeq(g) \in Seq(T)
<1>1. g \in Seq(Seq(T))
  <2> DEFINE U == Seq(T)
  <2>1. g \in [DOMAIN s -> U]
    OBVIOUS
  <2> HIDE DEF U
  <2>2. g \in Seq(U)
    BY <2>1, MapsTo
  <2> QED BY <2>2 DEF U
<1> QED BY <1>1, FlattenIs

\* Numbers in their order go up, and are all of the set.
Ascending(q, P) ==
  /\ q \in Seq(P)
  /\ \A i \in 1..Len(q) : \A j \in 1..i - 1 : q[j] < q[i]
  /\ \A x \in P : \E i \in 1..Len(q) : q[i] = x

\* The elements of a set of numbers, in order, are such a sequence.
LEMMA NumbersInOrder ==
  ASSUME NEW n \in Nat, NEW P, P \subseteq 1..n
  PROVE  Ascending(InOrder(P, {p \in P \X P : p[1] < p[2]}), P)
<1> DEFINE before == {p \in P \X P : p[1] < p[2]}
           c == Cardinality(P)
           \* the first k numbers of the set, and what is left
           Begins(q, k) == /\ q \in Seq(P) /\ Len(q) = k
                           /\ \A i \in 1..k : \A j \in 1..i - 1 : q[j] < q[i]
                           /\ \A i \in 1..k : \A x \in P \ ToSet(q) : q[i] < x
           T == [k \in 0..c |-> {q \in Seq(P) : Begins(q, k)}]
           More(q) == Append(q, Foremost(P \ ToSet(q), before))
           step == [p \in Seq(P) \X (1..c) |-> More(p[1])]
           F == CHOOSE f : f = [k \in 0..c |-> IF k = 0 THEN <<>> ELSE More(f[k - 1])]
<1>1. IsFiniteSet(P) /\ c \in Nat /\ P \subseteq Nat
  <2>1. IsFiniteSet(1..n)
    BY FirstNumbers
  <2>2. IsFiniteSet(P)
    BY <2>1, FS_Subset
  <2> QED BY <2>2, FS_CardinalityType
<1>2. InOrder(P, before) = F[c]
  BY DEF InOrder
<1>3. \A x, y \in P : <<x, y>> \in before <=> x < y
  OBVIOUS
<1> HIDE DEF before
  \* Of some numbers the foremost is the least.
<1>4. ASSUME NEW left, left \subseteq P, left # {}
      PROVE  Foremost(left, before) \in left /\ \A x \in left : Foremost(left, before) <= x
  <2> DEFINE Under(x) == {y \in left : <<y, x>> \in before}
             Preceding(x) == Cardinality(Under(x))
             m == Foremost(left, before)
  <2>1. IsFiniteSet(left) /\ left \subseteq Nat
    BY <1>1, <1>4, FS_Subset
  <2>2. PICK z \in left : \A y \in left : ~ (y < z)
    BY <1>4, <2>1, LeastNumber
  <2>3. \A x \in left : Under(x) = {y \in left : y < x}
    BY <1>3, <1>4
  <2> HIDE DEF Under
  <2>4. \A x \in left : IsFiniteSet(Under(x)) /\ Preceding(x) \in Nat
    <3>1. \A x \in left : Under(x) \in SUBSET left
      BY <2>3
    <3>2. \A x \in left : IsFiniteSet(Under(x))
      BY <2>1, <3>1, FS_Subset
    <3> QED BY <3>2, FS_CardinalityType
  <2>5. Preceding(z) = 0
    <3>1. Under(z) = {}
      BY <2>2, <2>3
    <3> QED BY <3>1, FS_EmptySet
  <2> HIDE DEF Preceding
  <2>6. \A y \in left : Preceding(z) <= Preceding(y)
    BY <2>4, <2>5
  <2>7. m = CHOOSE x \in left : \A y \in left : Preceding(x) <= Preceding(y)
    BY DEF Foremost, Preceding, Under
  <2> HIDE DEF m
  <2>8. m \in left /\ \A y \in left : Preceding(m) <= Preceding(y)
    BY <2>6, <2>7, Zenon
  <2>9. Preceding(m) = 0
    BY <2>4, <2>5, <2>8
  <2>10. Under(m) = {}
    BY <2>4, <2>8, <2>9, FS_EmptySet DEF Preceding
  <2>11. \A x \in left : ~ (x < m)
    BY <2>3, <2>8, <2>10
  <2>12. \A x \in left : m <= x
    BY <2>1, <2>8, <2>11
  <2> QED BY <2>8, <2>12 DEF m
<1>5. ASSUME NEW k \in 1..c, NEW q \in Seq(P), Begins(q, k - 1) PROVE More(q) \in Seq(P) /\ Begins(More(q), k)
  <2> DEFINE left == P \ ToSet(q)
             m == Foremost(left, before)
             r == Append(q, m)
             h == k - 1
  <2>1. h \in Nat /\ h + 1 = k /\ h < c
    BY <1>1
  <2> HIDE DEF h
  <2>2. Len(q) = h /\ DOMAIN q = 1..h /\ \A i \in 1..h : q[i] \in P
    <3>1. Len(q) = h
      BY <1>5 DEF h
    <3> QED BY <3>1, LenProperties, ElementOfSeq
  <2>3. /\ \A i \in 1..h : \A j \in 1..i - 1 : q[j] < q[i]
        /\ \A i \in 1..h : \A x \in left : q[i] < x
    BY <1>5 DEF h
  <2>4. left # {}
    <3>1. SUFFICES ASSUME left = {} PROVE FALSE
      OBVIOUS
    <3>2. ToSet(q) \subseteq P
      BY OwnElements
    <3>3. ToSet(q) = P
      BY <3>1, <3>2
    <3>4. q \in Surjection(1..h, P)
      BY <2>2, <3>3, LenProperties DEF Surjection, ToSet
    <3>5. IsFiniteSet(1..h) /\ Cardinality(1..h) = h
      BY <2>1, FirstNumbers
    <3>6. Cardinality(P) <= h
      BY <3>4, <3>5, FS_Surjection
    <3> QED BY <1>1, <2>1, <3>6
  <2>5. left \subseteq P
    OBVIOUS
  <2>6. ToSet(q) = {q[i] : i \in 1..h}
    BY <2>2 DEF ToSet
  <2> HIDE DEF left
  <2>7. m \in left /\ m \in P /\ \A x \in left : m <= x
    BY <1>4, <2>4, <2>5
  <2> HIDE DEF m
  <2>8. r \in Seq(P) /\ Len(r) = k /\ (\A i \in 1..h : r[i] = q[i]) /\ r[k] = m
    BY <2>1, <2>2, <2>7, AppendProperties
  <2>9. More(q) = r
    BY DEF left, m
  <2> HIDE DEF r, More
  <2>10. \A i \in 1..k : i \in 1..h \/ i = k
    BY <2>1
  <2>11. ASSUME NEW i \in 1..k, NEW j \in 1..i - 1 PROVE r[j] < r[i]
    <3>1. CASE i = k
      <4>1. j \in 1..h
        BY <2>1, <3>1
      <4> QED BY <2>3, <2>7, <2>8, <3>1, <4>1
    <3>2. CASE i \in 1..h
      <4>1. j \in 1..h
        BY <2>1, <3>2
      <4> QED BY <2>3, <2>8, <3>2, <4>1
    <3> QED BY <2>10, <3>1, <3>2
  <2>12. ASSUME NEW i \in 1..k, NEW x \in P \ ToSet(r) PROVE r[i] < x
    <3>1. ToSet(r) = {r[j] : j \in 1..k}
      <4>1. DOMAIN r = 1..k
        BY <2>8, LenProperties
      <4> QED BY <4>1 DEF ToSet
    <3>2. k \in 1..k /\ \A j \in 1..h : j \in 1..k
      BY <2>1
    <3>3. x # m /\ x \in left
      BY <2>6, <2>8, <3>1, <3>2 DEF left
    <3>4. m < x
      BY <1>1, <2>7, <3>3
    <3>5. CASE i = k
      BY <2>8, <3>4, <3>5
    <3>6. CASE i \in 1..h
      BY <2>3, <2>8, <3>3, <3>6
    <3> QED BY <2>10, <3>5, <3>6
  <2> QED BY <2>8, <2>9, <2>11, <2>12
<1>6. Begins(<<>>, 0)
  <2>1. <<>> \in Seq(P) /\ Len(<<>>) = 0
    BY EmptySeq
  <2> QED BY <2>1
<1> HIDE DEF More, c, Begins
<1>7. \A k \in 1..c : \A q \in T[k - 1] : step[<<q, k>>] \in T[k]
  <2> SUFFICES ASSUME NEW k \in 1..c, NEW q \in T[k - 1] PROVE step[<<q, k>>] \in T[k]
    OBVIOUS
  <2>1. k - 1 \in 0..c /\ k \in 0..c
    BY <1>1
  <2>2. q \in Seq(P) /\ Begins(q, k - 1)
    BY <2>1
  <2>3. step[<<q, k>>] = More(q)
    BY <2>2
  <2>4. More(q) \in Seq(P) /\ Begins(More(q), k)
    BY <1>5, <2>2
  <2> HIDE DEF step
  <2> QED BY <2>1, <2>3, <2>4
<1>8. <<>> \in T[0]
  <2>1. 0 \in 0..c /\ <<>> \in Seq(P)
    BY <1>1, EmptySeq
  <2> QED BY <1>6, <2>1
<1>9. PICK g : Successive(g, c, <<>>, step) /\ \A k \in 0..c : g[k] \in T[k]
  <2> HIDE DEF T, step
  <2> QED BY <1>1, <1>7, <1>8, RecursionDefined
<1>10. ASSUME NEW k \in 0..c PROVE g[k] \in Seq(P) /\ Begins(g[k], k)
  BY <1>9
<1>11. ASSUME NEW k \in 0..c PROVE g[k] = IF k = 0 THEN <<>> ELSE More(g[k - 1])
  <2>1. k # 0 => k - 1 \in 0..c /\ k \in 1..c
    BY <1>1
  <2>2. g[k] = IF k = 0 THEN <<>> ELSE step[<<g[k - 1], k>>]
    BY <1>9 DEF Successive
  <2>3. k # 0 => step[<<g[k - 1], k>>] = More(g[k - 1])
    BY <1>10, <2>1
  <2> HIDE DEF step
  <2> QED BY <2>2, <2>3
<1>12. g = [k \in 0..c |-> IF k = 0 THEN <<>> ELSE More(g[k - 1])]
  <2>1. g = [k \in 0..c |-> g[k]]
    BY <1>9 DEF Successive
  <2> QED BY <1>11, <2>1
<1>13. F = [k \in 0..c |-> IF k = 0 THEN <<>> ELSE More(F[k - 1])]
  BY <1>12, Zenon
<1>14. InOrder(P, before) = F[c]
  BY <1>2
<1> HIDE DEF F
<1>15. \A k \in 0..c : F[k] = IF k = 0 THEN <<>> ELSE More(F[k - 1])
  BY <1>13, Zenon
<1> DEFINE A == {k \in 0..c : F[k] \in Seq(P) /\ Begins(F[k], k)}
<1>16. \A k \in 0..c : k \in A
  <2>1. 0 \in A
    <3>1. 0 \in 0..c /\ <<>> \in Seq(P)
      BY <1>1, EmptySeq
    <3> QED BY <1>6, <1>15, <3>1
  <2>2. ASSUME NEW k \in 1..c, k - 1 \in A PROVE k \in A
    <3>1. k \in 0..c /\ k # 0 /\ F[k - 1] \in Seq(P) /\ Begins(F[k - 1], k - 1)
      BY <1>1, <2>2
    <3>2. F[k] = More(F[k - 1])
      BY <1>15, <3>1
    <3>3. More(F[k - 1]) \in Seq(P) /\ Begins(More(F[k - 1]), k)
      BY <1>5, <3>1
    <3> QED BY <3>1, <3>2, <3>3
  <2> HIDE DEF A
  <2> QED BY <1>1, <2>1, <2>2, UpTo
<1> DEFINE q == F[c]
<1>17. q \in Seq(P) /\ Begins(q, c)
  <2>1. c \in 0..c
    BY <1>1
  <2> QED BY <1>16, <2>1
<1> HIDE DEF q, A
<1>18. Len(q) = c /\ \A i \in 1..c : \A j \in 1..i - 1 : q[j] < q[i]
  BY <1>17 DEF Begins
<1>19. \A i \in 1..c : q[i] \in P
  BY <1>17, <1>18, ElementOfSeq
<1>20. \A x \in P : \E i \in 1..c : q[i] = x
  <2> DEFINE f == [i \in 1..c |-> q[i]]
  <2>1. ASSUME NEW i \in 1..c, NEW j \in 1..c, f[i] = f[j] PROVE i = j
    <3>1. f[i] = q[i] /\ f[j] = q[j] /\ q[i] \in Nat /\ q[j] \in Nat
      BY <1>1, <1>19
    <3>2. i < j => q[i] < q[j]
      <4>1. ASSUME i < j PROVE i \in 1..j - 1
        BY <1>1, <4>1
      <4> QED BY <1>18, <4>1
    <3>3. j < i => q[j] < q[i]
      <4>1. ASSUME j < i PROVE j \in 1..i - 1
        BY <1>1, <4>1
      <4> QED BY <1>18, <4>1
    <3>4. q[i] = q[j] /\ i \in Int /\ j \in Int
      <4>1. f[i] = f[j]
        BY <2>1
      <4> HIDE DEF f
      <4> QED BY <1>1, <3>1, <4>1
    <3>5. ~ (i < j) /\ ~ (j < i)
      <4> DEFINE x == q[i]
      <4>1. x \in Nat /\ q[j] = x
        BY <3>1, <3>4
      <4> HIDE DEF x
      <4>2. ~ (x < x)
        BY <4>1
      <4> QED BY <3>2, <3>3, <4>1, <4>2 DEF x
    <3> QED BY <3>4, <3>5
  <2> DEFINE I == 1..c
  <2>2. f \in Injection(I, P)
    BY <1>19, <2>1 DEF Injection, IsInjective
  <2>3. IsFiniteSet(I) /\ Cardinality(I) = Cardinality(P)
    BY <1>1, FirstNumbers DEF c
  <2>4. \A i \in I : f[i] = q[i]
    OBVIOUS
  <2> HIDE DEF f, I
  <2>5. f \in Surjection(I, P)
    BY <1>1, <2>2, <2>3, FS_Injection
  <2>6. \A x \in P : \E i \in I : f[i] = x
    BY <2>5 DEF Surjection
  <2> QED BY <2>4, <2>6 DEF I
<1> QED BY <1>14, <1>17, <1>18, <1>20 DEF q, before, Ascending
=============================================================================
