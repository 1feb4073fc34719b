--------------------------- MODULE OrderingProofs ---------------------------
(***************************************************************************)
(* What Ordering's operators return, for all finite sets and sequences.     *)
(***************************************************************************)
EXTENDS Ordering, FiniteSetTheorems, FunctionTheorems, WellFoundedInduction, TLAPS

StrictOrder(S, order) ==
  /\ \A x \in S : <<x, x>> \notin order
  /\ \A x, y \in S : x # y => <<x, y>> \in order \/ <<y, x>> \in order
  /\ \A x, y, z \in S : <<x, y>> \in order /\ <<y, z>> \in order => <<x, z>> \in order

\* The numbers from 1 to n are n.
LEMMA FiniteInterval ==
  ASSUME NEW n \in Nat
  PROVE  IsFiniteSet(1..n) /\ Cardinality(1..n) = n
<1>1. CASE n = 0
  <2>1. 1..n = {}
    BY <1>1
  <2>2. IsFiniteSet({}) /\ Cardinality({}) = 0
    BY FS_EmptySet
  <2>3. QED
    BY <1>1, <2>1, <2>2
<1>2. CASE n # 0
  <2>1. Cardinality(1..n) = n - 1 + 1 /\ IsFiniteSet(1..n)
    BY <1>2, FS_Interval
  <2>2. QED
    BY <2>1
<1>3. QED
  BY <1>1, <1>2

\* Counting what comes before an element is a bijection with 0 .. |S| - 1.
LEMMA RankBijective ==
  ASSUME NEW S, IsFiniteSet(S), NEW order, StrictOrder(S, order)
  PROVE  LET rank == [x \in S |-> Cardinality({y \in S : <<y, x>> \in order})] IN
         /\ rank \in [S -> 0..(Cardinality(S) - 1)]
         /\ \A x, y \in S : <<x, y>> \in order => rank[x] < rank[y]
         /\ \A i \in 0..(Cardinality(S) - 1) : \E x \in S : rank[x] = i
<1> DEFINE before(x) == {y \in S : <<y, x>> \in order}
           n == Cardinality(S)
           rank == [x \in S |-> Cardinality(before(x))]
<1>1. n \in Nat
  BY FS_CardinalityType
<1>2. ASSUME NEW x \in S PROVE IsFiniteSet(before(x)) /\ Cardinality(before(x)) \in 0..(n - 1)
  <2>1. before(x) \in SUBSET (S \ {x})
    BY DEF StrictOrder
  <2>2. IsFiniteSet(S \ {x}) /\ Cardinality(S \ {x}) = n - 1
    BY FS_RemoveElement
  <2> HIDE DEF before
  <2>3. IsFiniteSet(before(x)) /\ Cardinality(before(x)) <= n - 1
    BY <2>1, <2>2, FS_Subset
  <2>4. Cardinality(before(x)) \in Nat
    BY <2>3, FS_CardinalityType
  <2> HIDE DEF n
  <2>5. QED
    BY <2>3, <2>4, <1>1
<1>3. rank \in [S -> 0..(n - 1)]
  <2> HIDE DEF before, n
  <2>1. QED
    BY <1>2
<1>4. ASSUME NEW x \in S, NEW y \in S, <<x, y>> \in order PROVE rank[x] < rank[y]
  <2>1. before(x) \cup {x} \in SUBSET before(y)
    BY <1>4 DEF StrictOrder
  <2>2. x \notin before(x)
    BY DEF StrictOrder
  <2>3. Cardinality(before(x) \cup {x}) = Cardinality(before(x)) + 1
    BY <1>2, <2>2, FS_AddElement
  <2>4. Cardinality(before(x) \cup {x}) <= Cardinality(before(y))
    BY <1>2, <2>1, FS_Subset
  <2>5. Cardinality(before(x)) \in Int /\ Cardinality(before(y)) \in Int
    BY <1>2
  <2> HIDE DEF before
  <2>6. QED
    BY <2>3, <2>4, <2>5
<1>5. \A i \in 0..(n - 1) : \E x \in S : rank[x] = i
  <2> HIDE DEF rank
  <2>0. CASE S = {}
    <3>1. n = 0
      BY <2>0, FS_EmptySet
    <3> HIDE DEF n
    <3>2. 0..(n - 1) = {}
      BY <3>1
    <3>3. QED
      BY <3>2
  <2> SUFFICES ASSUME S # {} PROVE \A i \in 0..(n - 1) : \E x \in S : rank[x] = i
    BY <2>0
  <2>1. n > 0
    <3>1. n # 0
      BY FS_EmptySet
    <3> HIDE DEF n
    <3>2. QED
      BY <1>1, <3>1
  <2> HIDE DEF n
  <2>2. IsFiniteSet(0..(n - 1)) /\ Cardinality(0..(n - 1)) = n
    BY <1>1, <2>1, FS_Interval
  <2>3. \A x, y \in S : rank[x] = rank[y] => x = y
    <3> SUFFICES ASSUME NEW x \in S, NEW y \in S, rank[x] = rank[y], x # y PROVE FALSE
      OBVIOUS
    <3>1. rank[x] < rank[y] \/ rank[y] < rank[x]
      BY <1>4 DEF StrictOrder
    <3>2. rank[x] \in Int /\ rank[y] \in Int
      BY <1>3
    <3>3. QED
      BY <3>1, <3>2
  <2>4. rank \in Injection(S, 0..(n - 1))
    BY <1>3, <2>3, Fun_IsInj
  <2>5. rank \in Surjection(S, 0..(n - 1))
    BY <2>2, <2>4, FS_Injection DEF n
  <2>6. QED
    BY <2>5, Fun_SurjectionProperties
<1>6. QED
  BY <1>3, <1>4, <1>5

\* Ordered lists every element once, each before the ones that follow it.
LEMMA OrderedLists ==
  ASSUME NEW S, IsFiniteSet(S), NEW order, StrictOrder(S, order)
  PROVE  LET o == Ordered(S, order) IN
         /\ Cardinality(S) \in Nat
         /\ o \in [1..Cardinality(S) -> S]
         /\ \A j, k \in 1..Cardinality(S) : j < k => <<o[j], o[k]>> \in order
         /\ \A x \in S : \E k \in 1..Cardinality(S) : o[k] = x
<1> DEFINE n == Cardinality(S)
           before(x) == {y \in S : <<y, x>> \in order}
           rank == [x \in S |-> Cardinality(before(x))]
           o == Ordered(S, order)
<1>1. n \in Nat
  BY FS_CardinalityType
<1>2. /\ rank \in [S -> 0..(n - 1)]
      /\ \A x, y \in S : <<x, y>> \in order => rank[x] < rank[y]
      /\ \A i \in 0..(n - 1) : \E x \in S : rank[x] = i
  BY RankBijective
<1>3. o = [k \in 1..n |-> CHOOSE x \in S : Cardinality(before(x)) = k - 1]
  BY DEF Ordered
<1> HIDE DEF n, before, o
<1>4. ASSUME NEW k \in 1..n PROVE o[k] \in S /\ rank[o[k]] = k - 1
  <2>1. k - 1 \in 0..(n - 1)
    BY <1>1
  <2>2. PICK x \in S : Cardinality(before(x)) = k - 1
    BY <1>2, <2>1
  <2>3. o[k] = CHOOSE y \in S : Cardinality(before(y)) = k - 1
    BY <1>3
  <2>4. QED
    BY <2>2, <2>3
<1>5. o \in [1..n -> S]
  BY <1>3, <1>4
<1> HIDE DEF rank
<1>6. ASSUME NEW j \in 1..n, NEW k \in 1..n, j < k PROVE <<o[j], o[k]>> \in order
  <2>1. rank[o[j]] < rank[o[k]]
    BY <1>1, <1>4, <1>6
  <2>2. o[j] # o[k] /\ ~(<<o[k], o[j]>> \in order)
    <3>1. rank[o[j]] \in Int /\ rank[o[k]] \in Int
      BY <1>2, <1>4
    <3>2. QED
      BY <1>2, <1>4, <2>1, <3>1
  <2>3. QED
    BY <1>4, <2>2 DEF StrictOrder
<1>7. ASSUME NEW x \in S PROVE \E k \in 1..n : o[k] = x
  <2>1. rank[x] \in 0..(n - 1) /\ rank[x] + 1 \in 1..n
    BY <1>1, <1>2
  <2>2. o[rank[x] + 1] \in S /\ rank[o[rank[x] + 1]] = rank[x]
    BY <1>1, <1>4, <2>1
  <2>3. o[rank[x] + 1] = x
    <3> DEFINE y == o[rank[x] + 1]
    <3>1. SUFFICES ASSUME y # x PROVE FALSE
      OBVIOUS
    <3>2. rank[y] < rank[x] \/ rank[x] < rank[y]
      BY <1>2, <2>2, <3>1 DEF StrictOrder
    <3>3. QED
      BY <2>1, <2>2, <3>2
  <2>4. QED
    BY <2>1, <2>3
<1>8. QED
  BY <1>1, <1>5, <1>6, <1>7 DEF n, o

\* Ascending lists the numbers of a finite set once each, from the least.
LEMMA AscendingLists ==
  ASSUME NEW S \in SUBSET Int, IsFiniteSet(S)
  PROVE  LET a == Ascending(S) IN
         /\ Cardinality(S) \in Nat
         /\ a \in [1..Cardinality(S) -> S]
         /\ \A j, k \in 1..Cardinality(S) : j < k => a[j] < a[k]
         /\ \A x \in S : \E k \in 1..Cardinality(S) : a[k] = x
<1> DEFINE order == {p \in S \X S : p[1] < p[2]}
           n == Cardinality(S)
           a == Ascending(S)
<1>1. \A x, y \in S : <<x, y>> \in order <=> x < y
  OBVIOUS
<1>2. a = Ordered(S, order)
  BY DEF Ascending
<1> HIDE DEF order, n, a
<1>3. StrictOrder(S, order)
  BY <1>1 DEF StrictOrder
<1>4. /\ n \in Nat
      /\ a \in [1..n -> S]
      /\ \A j, k \in 1..n : j < k => <<a[j], a[k]>> \in order
      /\ \A x \in S : \E k \in 1..n : a[k] = x
  BY <1>2, <1>3, OrderedLists DEF n
<1>5. \A j, k \in 1..n : j < k => a[j] < a[k]
  BY <1>1, <1>4
<1>6. QED
  BY <1>4, <1>5 DEF n, a

\* Kept has an element for each position, in their order.
LEMMA KeptLists ==
  ASSUME NEW s, NEW K \in SUBSET Int, IsFiniteSet(K)
  PROVE  Kept(s, K) = [k \in 1..Cardinality(K) |-> s[Ascending(K)[k]]]
<1> DEFINE a == Ascending(K)
<1>1. a \in [1..Cardinality(K) -> K]
  BY AscendingLists
<1>2. Kept(s, K) = [k \in DOMAIN a |-> s[a[k]]]
  BY DEF Kept
<1> HIDE DEF a
<1>3. Kept(s, K) = [k \in 1..Cardinality(K) |-> s[a[k]]]
  BY <1>1, <1>2
<1>4. QED
  BY <1>3 DEF a

\* Kept returns what it was told to keep, and nothing else.
LEMMA KeptElements ==
  ASSUME NEW A, NEW s \in Seq(A), NEW K \in SUBSET (DOMAIN s)
  PROVE  /\ Kept(s, K) \in Seq(A)
         /\ Len(Kept(s, K)) = Cardinality(K)
         /\ \A k \in DOMAIN Kept(s, K) : \E i \in K : Kept(s, K)[k] = s[i]
         /\ \A i \in K : \E k \in DOMAIN Kept(s, K) : Kept(s, K)[k] = s[i]
<1> DEFINE n == Cardinality(K)
<1>1. IsFiniteSet(K) /\ K \in SUBSET Int
  <2>1. PICK m \in Nat : m = Len(s) /\ DOMAIN s = 1..m
    OBVIOUS
  <2>2. IsFiniteSet(1..m)
    BY <2>1, FS_Interval
  <2>3. K \subseteq 1..m
    BY <2>1
  <2>4. IsFiniteSet(K)
    BY <2>2, <2>3, FS_Subset
  <2>5. QED
    BY <2>3, <2>4
<1>2. PICK at : at = Ascending(K)
  OBVIOUS
<1>3. n \in Nat /\ at \in [1..n -> K] /\ \A i \in K : \E k \in 1..n : at[k] = i
  BY <1>1, <1>2, AscendingLists
<1>4. PICK kept : kept = Kept(s, K)
  OBVIOUS
<1>5. kept = [k \in 1..n |-> s[at[k]]]
  BY <1>1, <1>2, <1>4, KeptLists
<1> HIDE DEF n
<1>6. \A k \in 1..n : at[k] \in K /\ s[at[k]] \in A
  BY <1>3
<1>7. kept \in Seq(A) /\ Len(kept) = n /\ DOMAIN kept = 1..n
  BY <1>3, <1>5, <1>6
<1>8. \A k \in 1..n : \E i \in K : kept[k] = s[i]
  BY <1>5, <1>6
<1>9. \A i \in K : \E k \in 1..n : kept[k] = s[i]
  BY <1>3, <1>5
<1>10. QED
  BY <1>4, <1>7, <1>8, <1>9 DEF n

\* To have a smaller key orders the positions, those with the same key apart.
WeakOrder(n, before) ==
  /\ \A i, j \in 1..n : <<i, j>> \in before => <<j, i>> \notin before
  /\ \A i, j, k \in 1..n : <<i, j>> \in before => <<i, k>> \in before \/ <<k, j>> \in before

\* The order of sorted(): what Before leaves open the positions decide.
LEMMA StableIsStrict ==
  ASSUME NEW n \in Nat, NEW before,
         \A i, j \in 1..n : <<i, j>> \in before => <<j, i>> \notin before,
         \A i, j, k \in 1..n : <<i, j>> \in before => <<i, k>> \in before \/ <<k, j>> \in before
  PROVE  StrictOrder(1..n, {p \in (1..n) \X (1..n) :
           <<p[1], p[2]>> \in before \/ (p[1] < p[2] /\ <<p[2], p[1]>> \notin before)})
<1> DEFINE order == {p \in (1..n) \X (1..n) :
                       <<p[1], p[2]>> \in before \/ (p[1] < p[2] /\ <<p[2], p[1]>> \notin before)}
<1>1. \A i, j \in 1..n : <<i, j>> \in order <=>
         <<i, j>> \in before \/ (i < j /\ <<j, i>> \notin before)
  OBVIOUS
<1> HIDE DEF order
<1>2. ASSUME NEW x \in 1..n PROVE <<x, x>> \notin order
  BY <1>1
<1>3. ASSUME NEW x \in 1..n, NEW y \in 1..n, x # y
      PROVE  <<x, y>> \in order \/ <<y, x>> \in order
  <2>1. x < y \/ y < x
    BY <1>3
  <2>2. QED
    BY <1>1, <2>1
<1>4. ASSUME NEW x \in 1..n, NEW y \in 1..n, NEW z \in 1..n,
             <<x, y>> \in order, <<y, z>> \in order
      PROVE  <<x, z>> \in order
  <2>1. CASE <<x, y>> \in before
    <3>1. <<x, z>> \in before \/ <<z, y>> \in before
      BY <2>1
    <3>2. <<z, y>> \notin before
      BY <1>1, <1>4
    <3>3. QED
      BY <1>1, <3>1, <3>2
  <2>2. CASE <<x, y>> \notin before
    <3>1. x < y /\ <<y, x>> \notin before
      BY <1>1, <1>4, <2>2
    <3>2. CASE <<y, z>> \in before
      <4>1. <<y, x>> \in before \/ <<x, z>> \in before
        BY <3>2
      <4>2. QED
        BY <1>1, <3>1, <4>1
    <3>3. CASE <<y, z>> \notin before
      <4>1. y < z /\ <<z, y>> \notin before
        BY <1>1, <1>4, <3>3
      <4>2. <<z, x>> \notin before
        BY <3>1, <4>1
      <4>3. QED
        BY <1>1, <3>1, <4>1, <4>2
    <3>4. QED
      BY <3>2, <3>3
  <2>3. QED
    BY <2>1, <2>2
<1>5. QED
  BY <1>2, <1>3, <1>4 DEF StrictOrder, order

\* The order in which sorted() puts the positions of a sequence.
Stable(n, before) ==
  {p \in (1..n) \X (1..n) : p \in before \/ (p[1] < p[2] /\ <<p[2], p[1]>> \notin before)}

\* The positions of a sequence in that order.
Places(n, before) == Ordered(1..n, Stable(n, before))

\* Each position has one place, none after one with a greater key.
LEMMA PlacesList ==
  ASSUME NEW n \in Nat, NEW before, WeakOrder(n, before)
  PROVE  LET at == Places(n, before) IN
         /\ at \in [1..n -> 1..n]
         /\ \A j, k \in 1..n : j < k => at[j] # at[k] /\ <<at[k], at[j]>> \notin before
         /\ \A i \in 1..n : \E k \in 1..n : at[k] = i
<1> DEFINE at == Places(n, before)
           order == Stable(n, before)
           stable == {p \in (1..n) \X (1..n) :
                       <<p[1], p[2]>> \in before \/ (p[1] < p[2] /\ <<p[2], p[1]>> \notin before)}
<1>1. order = stable
  BY DEF Stable
<1>2. StrictOrder(1..n, stable)
  <2> HIDE DEF stable
  <2>1. QED
    BY StableIsStrict DEF stable, WeakOrder
<1>3. \A i, j \in 1..n : <<i, j>> \in order => i # j /\ <<j, i>> \notin before
  <2>1. \A i, j \in 1..n : <<i, j>> \in order =>
          <<i, j>> \in before \/ (i < j /\ <<j, i>> \notin before)
    BY DEF Stable
  <2>2. \A i, j \in 1..n : <<i, j>> \in before => <<j, i>> \notin before /\ i # j
    BY DEF WeakOrder
  <2> HIDE DEF order
  <2>3. QED
    BY <2>1, <2>2
<1> HIDE DEF at, order, stable
<1>4. IsFiniteSet(1..n) /\ Cardinality(1..n) = n
  BY FiniteInterval
<1>5. PICK D : D = 1..n
  OBVIOUS
<1>6. IsFiniteSet(D) /\ StrictOrder(D, order) /\ at = Ordered(D, order)
  BY <1>1, <1>2, <1>4, <1>5 DEF at, Places, order
<1>7. /\ at \in [1..Cardinality(D) -> D]
      /\ \A j, k \in 1..Cardinality(D) : j < k => <<at[j], at[k]>> \in order
      /\ \A i \in D : \E k \in 1..Cardinality(D) : at[k] = i
  BY <1>6, OrderedLists
<1>8. Cardinality(D) = n
  BY <1>4, <1>5
<1>9. /\ at \in [1..n -> 1..n]
      /\ \A j, k \in 1..n : j < k => <<at[j], at[k]>> \in order
      /\ \A i \in 1..n : \E k \in 1..n : at[k] = i
  BY <1>5, <1>7, <1>8
<1>10. \A j, k \in 1..n : j < k => at[j] # at[k] /\ <<at[k], at[j]>> \notin before
  BY <1>3, <1>9
<1>11. QED
  BY <1>9, <1>10 DEF at

\* No element comes after one with a greater key.
InOrder(sorted, s, before) ==
  \A j, k \in DOMAIN sorted : j < k =>
    \E x, y \in DOMAIN s :
      x # y /\ <<y, x>> \notin before /\ sorted[j] = s[x] /\ sorted[k] = s[y]

\* Sorted has the elements of a sequence, none after one with a greater key.
LEMMA SortedElements ==
  ASSUME NEW A, NEW s \in Seq(A), NEW before, WeakOrder(Len(s), before),
         NEW sorted, sorted = Sorted(s, before)
  PROVE  /\ sorted \in Seq(A)
         /\ Len(sorted) = Len(s)
         /\ \A k \in DOMAIN sorted : \E i \in DOMAIN s : sorted[k] = s[i]
         /\ \A i \in DOMAIN s : \E k \in DOMAIN sorted : sorted[k] = s[i]
         /\ InOrder(sorted, s, before)
<1>1. PICK n \in Nat : n = Len(s)
  OBVIOUS
<1>2. PICK at : at = Places(n, before)
  OBVIOUS
<1>3. /\ at \in [1..n -> 1..n]
      /\ \A j, k \in 1..n : j < k => at[j] # at[k] /\ <<at[k], at[j]>> \notin before
      /\ \A i \in 1..n : \E k \in 1..n : at[k] = i
  <2>1. WeakOrder(n, before)
    BY <1>1
  <2>2. /\ Places(n, before) \in [1..n -> 1..n]
        /\ \A j, k \in 1..n : j < k =>
             /\ Places(n, before)[j] # Places(n, before)[k]
             /\ <<Places(n, before)[k], Places(n, before)[j]>> \notin before
        /\ \A i \in 1..n : \E k \in 1..n : Places(n, before)[k] = i
    BY <2>1, PlacesList
  <2>3. QED
    BY <1>2, <2>2
<1>4. DOMAIN s = 1..n
  BY <1>1
<1>6. sorted = [k \in 1..n |-> s[at[k]]]
  <2>1. sorted = [k \in DOMAIN at |-> s[at[k]]]
    BY <1>2, <1>4 DEF Sorted, Stable, Places
  <2>2. DOMAIN at = 1..n
    BY <1>3
  <2>3. QED
    BY <2>1, <2>2
<1>7. \A i \in 1..n : s[i] \in A
  BY <1>1
<1>8. \A k \in 1..n : at[k] \in 1..n
  BY <1>3
<1>9. DOMAIN sorted = 1..n /\ \A k \in 1..n : sorted[k] = s[at[k]]
  BY <1>6
<1>10. sorted \in Seq(A) /\ Len(sorted) = n
  <2>1. sorted \in [1..n -> A]
    BY <1>6, <1>7, <1>8
  <2>2. QED
    BY <2>1
<1>11. \A k \in 1..n : \E i \in 1..n : sorted[k] = s[i]
  BY <1>8, <1>9
<1>12. \A i \in 1..n : \E k \in 1..n : sorted[k] = s[i]
  <2>1. ASSUME NEW i \in 1..n PROVE \E k \in 1..n : sorted[k] = s[i]
    <3>1. PICK k \in 1..n : at[k] = i
      BY <1>3
    <3>2. QED
      BY <1>9, <3>1
  <2>2. QED
    BY <2>1
<1>5. DOMAIN sorted = 1..n
  BY <1>9
<1>13. \A j, k \in 1..n : j < k =>
         \E x, y \in 1..n : x # y /\ <<y, x>> \notin before /\ sorted[j] = s[x] /\ sorted[k] = s[y]
  <2>1. ASSUME NEW j \in 1..n, NEW k \in 1..n, j < k
        PROVE  \E x, y \in 1..n :
                 x # y /\ <<y, x>> \notin before /\ sorted[j] = s[x] /\ sorted[k] = s[y]
    <3>1. /\ at[j] \in 1..n /\ at[k] \in 1..n /\ at[j] # at[k] /\ <<at[k], at[j]>> \notin before
          /\ sorted[j] = s[at[j]] /\ sorted[k] = s[at[k]]
      BY <1>3, <1>8, <1>9, <2>1
    <3>2. QED
      BY <3>1
  <2>2. QED
    BY <2>1
<1>14. \A k \in DOMAIN sorted : \E i \in DOMAIN s : sorted[k] = s[i]
  BY <1>4, <1>5, <1>11, Zenon
<1>15. \A i \in DOMAIN s : \E k \in DOMAIN sorted : sorted[k] = s[i]
  BY <1>4, <1>5, <1>12, Zenon
<1>16. InOrder(sorted, s, before)
  <2>1. ASSUME NEW j \in DOMAIN sorted, NEW k \in DOMAIN sorted, j < k
        PROVE  \E x, y \in DOMAIN s :
                 x # y /\ <<y, x>> \notin before /\ sorted[j] = s[x] /\ sorted[k] = s[y]
    <3>1. j \in 1..n /\ k \in 1..n
      BY <1>5
    <3>2. PICK x \in 1..n, y \in 1..n :
            x # y /\ <<y, x>> \notin before /\ sorted[j] = s[x] /\ sorted[k] = s[y]
      BY <1>13, <2>1, <3>1
    <3>3. x \in DOMAIN s /\ y \in DOMAIN s
      BY <1>4
    <3>4. QED
      BY <3>2, <3>3
  <2>2. QED
    BY <2>1 DEF InOrder
<1>17. sorted \in Seq(A) /\ Len(sorted) = Len(s)
  BY <1>1, <1>10
<1>18. QED
  BY <1>14, <1>15, <1>16, <1>17

-----------------------------------------------------------------------------
(* What is proved by induction rests on this. *)

\* A set of natural numbers that is not empty has a least element.
LEMMA LeastNatural ==
  ASSUME NEW T \in SUBSET Nat, T # {}
  PROVE  \E x \in T : \A y \in T : x <= y
<1>1. PICK less : less = OpToRel(<, Nat)
  OBVIOUS
<1>2. IsWellFoundedOn(less, Nat)
  BY <1>1, NatLessThanWellFounded, Zenon
<1>3. PICK x \in T : \A y \in T : <<y, x>> \notin less
  BY <1>2, WFMin
<1>4. \A y \in T : ~(y < x)
  BY <1>1, <1>3 DEF OpToRel
<1>5. QED
  BY <1>4

\* What grows from each place to the next grows throughout.
LEMMA ChainAscends ==
  ASSUME NEW n \in Nat, NEW f \in [1..n -> Int], \A k \in 2..n : f[k - 1] < f[k]
  PROVE  \A j, k \in 1..n : j < k => f[j] < f[k]
<1> SUFFICES ASSUME NEW j \in 1..n, NEW m \in 1..n, j < m, ~(f[j] < f[m]) PROVE FALSE
  OBVIOUS
<1> DEFINE T == {k \in 1..n : j < k /\ ~(f[j] < f[k])}
<1>1. T \in SUBSET Nat /\ m \in T
  OBVIOUS
<1>2. PICK k \in T : \A i \in T : k <= i
  <2> HIDE DEF T
  <2>1. QED
    BY <1>1, LeastNatural
<1>3. k \in 2..n /\ k - 1 \in 1..n /\ j <= k - 1 /\ k - 1 \notin T
  BY <1>2
<1>4. f[k - 1] < f[k]
  BY <1>3
<1>5. f[j] <= f[k - 1]
  BY <1>3
<1>6. QED
  BY <1>2, <1>3, <1>4, <1>5

\* The doubled median of whole numbers is one.
LEMMA MedianWhole ==
  ASSUME NEW values \in Seq(Int), values # <<>>
  PROVE  Median2(values) \in Int
<1>0. PICK n \in Nat : n = Len(values) /\ n > 0 /\ DOMAIN values = 1..n
  OBVIOUS
<1>1. PICK before : before = {p \in (1..n) \X (1..n) : values[p[1]] < values[p[2]]}
  OBVIOUS
<1>2. \A i, j \in 1..n : <<i, j>> \in before <=> values[i] < values[j]
  BY <1>1
<1>3. \A i \in 1..n : values[i] \in Int
  BY <1>0
<1>4. PICK s : s = Sorted(values, before)
  OBVIOUS
<1>5. s \in Seq(Int) /\ Len(s) = n
  <2>1. \A i, j \in 1..n : <<i, j>> \in before => <<j, i>> \notin before
    BY <1>2, <1>3
  <2>2. \A i, j, k \in 1..n : <<i, j>> \in before => <<i, k>> \in before \/ <<k, j>> \in before
    BY <1>2, <1>3
  <2>3. WeakOrder(n, before)
    BY <2>1, <2>2 DEF WeakOrder
  <2>4. WeakOrder(Len(values), before)
    BY <1>0, <2>3
  <2>5. s \in Seq(Int) /\ Len(s) = Len(values)
    BY <1>4, <2>4, SortedElements
  <2>6. QED
    BY <1>0, <2>5
<1>6. (n + 1) \div 2 \in 1..n /\ n \div 2 + 1 \in 1..n
  BY <1>0
<1>7. Median2(values) = s[(Len(s) + 1) \div 2] + s[Len(s) \div 2 + 1]
  BY <1>0, <1>1, <1>4 DEF Median2
<1>8. QED
  BY <1>5, <1>6, <1>7


-----------------------------------------------------------------------------
(* Medians. *)

\* Sorted puts the element at each place there.
LEMMA SortedPlaces ==
  ASSUME NEW A, NEW s \in Seq(A), NEW before, WeakOrder(Len(s), before)
  PROVE  Sorted(s, before) = [k \in 1..Len(s) |-> s[Places(Len(s), before)[k]]]
<1>1. PICK n \in Nat : n = Len(s) /\ DOMAIN s = 1..n
  OBVIOUS
<1>2. PICK at : at = Places(n, before)
  OBVIOUS
<1>3. at \in [1..n -> 1..n]
  BY <1>1, <1>2, PlacesList
<1>4. Sorted(s, before) = [k \in DOMAIN at |-> s[at[k]]]
  BY <1>1, <1>2 DEF Sorted, Stable, Places
<1>5. QED
  BY <1>1, <1>2, <1>3, <1>4

\* The places of the values, by value.
LEMMA ValuesOrdered ==
  ASSUME NEW values \in Seq(Int), NEW before,
         before = {p \in (DOMAIN values) \X (DOMAIN values) : values[p[1]] < values[p[2]]}
  PROVE  /\ \A i, j \in DOMAIN values : <<i, j>> \in before <=> values[i] < values[j]
         /\ WeakOrder(Len(values), before)
<1>1. PICK n \in Nat : n = Len(values) /\ DOMAIN values = 1..n
  OBVIOUS
<1>2. \A i, j \in 1..n : <<i, j>> \in before <=> values[i] < values[j]
  BY <1>1
<1>3. \A i \in 1..n : values[i] \in Int
  BY <1>1
<1>4. \A i, j \in 1..n : <<i, j>> \in before => <<j, i>> \notin before
  BY <1>2, <1>3
<1>5. \A i, j, k \in 1..n : <<i, j>> \in before => <<i, k>> \in before \/ <<k, j>> \in before
  BY <1>2, <1>3
<1>6. WeakOrder(n, before)
  BY <1>4, <1>5 DEF WeakOrder
<1>7. QED
  BY <1>1, <1>2, <1>6

\* The elements of a set appear in a list, from a to b.
Appear(S, f, a, b) == \A x \in S : \E k \in a..b : x = f[k]

\* What is listed in m places has at most m elements.
LEMMA ListedBound ==
  ASSUME NEW a \in Int, NEW b \in Int, NEW m \in Nat, b - a + 1 <= m, NEW f, NEW S,
         Appear(S, f, a, b)
  PROVE  Cardinality(S) \in Nat /\ Cardinality(S) <= m
<1>1. PICK K : K = {k \in a..b : f[k] \in S}
  OBVIOUS
<1>2. PICK I : I = a..b
  OBVIOUS
<1>3. IsFiniteSet(I) /\ Cardinality(I) = IF a > b THEN 0 ELSE b - a + 1
  BY <1>2, FS_Interval
<1>4. K \in SUBSET I
  BY <1>1, <1>2
<1>5. IsFiniteSet(K) /\ Cardinality(K) <= Cardinality(I)
  BY <1>3, <1>4, FS_Subset
<1>6. PICK g : g = [k \in K |-> f[k]]
  OBVIOUS
<1>7. g \in Surjection(K, S)
  <2>1. g \in [K -> S]
    BY <1>1, <1>6
  <2>2. \A x \in S : \E k \in K : g[k] = x
    BY <1>1, <1>6 DEF Appear
  <2>3. QED
    BY <2>1, <2>2 DEF Surjection
<1>8. IsFiniteSet(S) /\ Cardinality(S) <= Cardinality(K)
  BY <1>5, <1>7, FS_Surjection
<1>9. Cardinality(S) \in Nat /\ Cardinality(K) \in Nat
  BY <1>5, <1>8, FS_CardinalityType
<1>10. QED
  BY <1>3, <1>5, <1>8, <1>9

\* at lists the elements of T, in the order of their values.
InOrderOf(v, T, n, at) ==
  /\ \A t \in T : v[t] \in Int
  /\ at \in [1..n -> T] /\ \A t \in T : \E k \in 1..n : at[k] = t
  /\ \A j, k \in 1..n : j < k => v[at[j]] <= v[at[k]]

\* At most half of a list in order lies below its middle, and at most half above.
LEMMA MiddleOfList ==
  ASSUME NEW n \in Nat \ {0}, NEW T, NEW v, NEW at, InOrderOf(v, T, n, at),
         NEW x, x = v[at[(n + 1) \div 2]] + v[at[n \div 2 + 1]]
  PROVE  /\ 2 * Cardinality({t \in T : 2 * v[t] < x}) <= n
         /\ 2 * Cardinality({t \in T : 2 * v[t] > x}) <= n
<1>1. PICK lo \in 1..n : lo = (n + 1) \div 2
  OBVIOUS
<1>2. PICK hi \in 1..n : hi = n \div 2 + 1
  OBVIOUS
<1>3. 2 * (hi - 1) <= n /\ 2 * (n - lo) <= n /\ lo <= hi
  BY <1>1, <1>2
<1>4. PICK f \in [1..n -> Int] : \A k \in 1..n : f[k] = v[at[k]]
  <2>1. [k \in 1..n |-> v[at[k]]] \in [1..n -> Int]
    BY DEF InOrderOf
  <2>2. QED
    BY <2>1
<1>5. \A j, k \in 1..n : j <= k => f[j] <= f[k]
  <2>1. \A j, k \in 1..n : j < k => f[j] <= f[k]
    BY <1>4 DEF InOrderOf
  <2>2. \A j \in 1..n : f[j] <= f[j]
    BY <1>4
  <2>3. \A j, k \in 1..n : j <= k => j < k \/ j = k
    OBVIOUS
  <2>4. QED
    BY <2>1, <2>2, <2>3
<1>6. x = f[lo] + f[hi] /\ f[lo] <= f[hi] /\ f[lo] \in Int /\ f[hi] \in Int
  <2>1. x = f[lo] + f[hi]
    BY <1>1, <1>2, <1>4
  <2>2. QED
    BY <1>3, <1>5, <2>1
<1>7. ASSUME NEW k \in 1..n, 2 * f[k] < x PROVE k \in 1..(hi - 1)
  <2>1. f[k] < f[hi]
    BY <1>6, <1>7
  <2>2. hi <= k => f[hi] <= f[k]
    BY <1>5
  <2>3. QED
    BY <1>6, <2>1, <2>2
<1>8. ASSUME NEW k \in 1..n, 2 * f[k] > x PROVE k \in (lo + 1)..n
  <2>1. f[k] > f[lo]
    BY <1>6, <1>8
  <2>2. k <= lo => f[k] <= f[lo]
    BY <1>5
  <2>3. QED
    BY <1>6, <2>1, <2>2
<1>9. PICK S : S = {t \in T : 2 * v[t] < x}
  OBVIOUS
<1>10. PICK G : G = {t \in T : 2 * v[t] > x}
  OBVIOUS
<1>11. \A t \in S : \E k \in 1..(hi - 1) : t = at[k]
  BY <1>4, <1>7, <1>9 DEF InOrderOf
<1>12. \A t \in G : \E k \in (lo + 1)..n : t = at[k]
  BY <1>4, <1>8, <1>10 DEF InOrderOf
<1>13. Cardinality(S) \in Nat /\ Cardinality(S) <= hi - 1
  <2>1. PICK b \in Int : b = hi - 1
    OBVIOUS
  <2>2. b \in Nat /\ b - 1 + 1 <= b
    BY <2>1
  <2>3. Appear(S, at, 1, b)
    BY <1>11, <2>1 DEF Appear
  <2>4. Cardinality(S) \in Nat /\ Cardinality(S) <= b
    BY <2>2, <2>3, ListedBound
  <2>5. QED
    BY <2>1, <2>4
<1>14. Cardinality(G) \in Nat /\ Cardinality(G) <= n - lo
  <2>1. PICK a \in Int, m \in Nat : a = lo + 1 /\ m = n - lo
    OBVIOUS
  <2>2. n - a + 1 <= m /\ n \in Int
    BY <2>1
  <2>3. Appear(G, at, a, n)
    BY <1>12, <2>1 DEF Appear
  <2>4. Cardinality(G) \in Nat /\ Cardinality(G) <= m
    BY <2>2, <2>3, ListedBound
  <2>5. QED
    BY <2>1, <2>4
<1>15. 2 * Cardinality(S) <= n /\ 2 * Cardinality(G) <= n
  <2>1. PICK s \in Nat, g \in Nat : s = Cardinality(S) /\ g = Cardinality(G)
    BY <1>13, <1>14
  <2>2. s <= hi - 1 /\ g <= n - lo
    BY <1>13, <1>14, <2>1
  <2>3. 2 * s <= n /\ 2 * g <= n
    BY <1>3, <2>2
  <2>4. QED
    BY <2>1, <2>3
<1>16. QED
  BY <1>9, <1>10, <1>15

\* Kept keeps the order.
LEMMA KeptInOrder ==
  ASSUME NEW A, NEW s \in Seq(A), NEW K \in SUBSET (DOMAIN s), NEW kept, kept = Kept(s, K),
         NEW j \in DOMAIN kept, NEW k \in DOMAIN kept, j < k
  PROVE  \E x, y \in K : x < y /\ kept[j] = s[x] /\ kept[k] = s[y]
<1>1. IsFiniteSet(DOMAIN s) /\ DOMAIN s \subseteq Int
  <2>1. PICK n \in Nat : DOMAIN s = 1..n
    OBVIOUS
  <2>2. QED
    BY <2>1, FiniteInterval
<1>2. IsFiniteSet(K) /\ K \in SUBSET Int
  BY <1>1, FS_Subset
<1>3. PICK n : n = Cardinality(K)
  OBVIOUS
<1>4. PICK asc : asc = Ascending(K)
  OBVIOUS
<1>5. n \in Nat /\ asc \in [1..n -> K] /\ \A p, q \in 1..n : p < q => asc[p] < asc[q]
  BY <1>2, <1>3, <1>4, AscendingLists
<1>6. kept = [p \in 1..n |-> s[asc[p]]]
  BY <1>2, <1>3, <1>4, KeptLists
<1>7. j \in 1..n /\ k \in 1..n
  BY <1>6
<1>8. asc[j] \in K /\ asc[k] \in K /\ asc[j] < asc[k] /\ kept[j] = s[asc[j]] /\ kept[k] = s[asc[k]]
  BY <1>5, <1>6, <1>7
<1>9. QED
  BY <1>8
=============================================================================
