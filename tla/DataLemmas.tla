----------------------------- MODULE DataLemmas -----------------------------
(***************************************************************************)
(* Facts the proofs rest on that are about no component: numbers           *)
(* (induction over a set, least elements, powers of two and division),     *)
(* orders on a finite set, lists of numbers, and sequences.                *)
(***************************************************************************)
EXTENDS Integers, SequencesExt, TLAPS, WellFoundedInduction, FiniteSetTheorems, SequenceTheorems

\* A set of numbers that is not empty has a least element.
LEMMA LeastElement ==
  ASSUME NEW S \in SUBSET Nat, S # {}
  PROVE  \E x \in S : \A y \in S : x <= y
<1> DEFINE R == {ss \in Nat \X Nat : ss[1] < ss[2]}
<1>1. IsWellFoundedOn(R, Nat)
  BY NatLessThanWellFounded DEF OpToRel
<1>2. \E x \in S : \A y \in S : ~(<<y, x>> \in R)
  <2> HIDE DEF R
  <2> QED
    BY <1>1, WFMin
<1>3. PICK x \in S : \A y \in S : ~(<<y, x>> \in R)
  BY <1>2
<1>4. \A y \in S : x <= y
  <2> SUFFICES ASSUME NEW y \in S, ~(x <= y)
               PROVE  FALSE
    OBVIOUS
  <2>1. x \in Nat /\ y \in Nat /\ y < x
    OBVIOUS
  <2>2. <<y, x>> \in R
    BY <2>1
  <2> HIDE DEF R
  <2> QED
    BY <1>3, <2>2
<1> HIDE DEF R
<1> QED
  BY <1>4

\* Min of FiniteSetsExt is that element.
LEMMA MinIsLeast ==
  ASSUME NEW S \in SUBSET Nat, S # {}
  PROVE  Min(S) \in S /\ \A y \in S : Min(S) <= y
  BY LeastElement DEF Min

\* Induction, for a set of numbers.
LEMMA InductiveSet ==
  ASSUME NEW S \in SUBSET Nat, 0 \in S, \A n \in S : n + 1 \in S
  PROVE  S = Nat
<1> SUFFICES ASSUME Nat \ S # {}
             PROVE  FALSE
  OBVIOUS
<1>1. PICK x \in Nat \ S : \A y \in Nat \ S : x <= y
  BY LeastElement
<1>2. x # 0 /\ x - 1 \in Nat
  BY <1>1
<1>3. x - 1 \in S
  BY <1>1, <1>2
<1> QED
  BY <1>1, <1>2, <1>3

-----------------------------------------------------------------------------
(* Powers of two *)

\* 2^n is the number of subsets of a set of n elements.
LEMMA PowerCounts ==
  ASSUME NEW n \in Nat
  PROVE  /\ IsFiniteSet(SUBSET (1..n))
         /\ Cardinality(SUBSET (1..n)) = 2^n
<1>1. IsFiniteSet(1..n) /\ Cardinality(1..n) = n
  BY FS_Interval
<1> QED
  BY <1>1, FS_SUBSET

LEMMA PowerType ==
  ASSUME NEW n \in Nat
  PROVE  2^n \in Nat
  BY PowerCounts, FS_CardinalityType

\* The subsets with n + 1 and those without it are equally many.
LEMMA PowerStep ==
  ASSUME NEW n \in Nat
  PROVE  2^(n + 1) = 2 * 2^n
<1> DEFINE A == SUBSET (1..n)
           B == {S \cup {n + 1} : S \in A}
           f == [S \in A |-> S \cup {n + 1}]
<1>1. SUBSET (1..(n + 1)) = A \cup B
  <2>1. 1..(n + 1) = (1..n) \cup {n + 1}
    OBVIOUS
  <2>2. ASSUME NEW T \in SUBSET (1..(n + 1))
        PROVE  T \in A \cup B
    <3>1. CASE n + 1 \in T
      <4>1. T \ {n + 1} \in A /\ T = (T \ {n + 1}) \cup {n + 1}
        BY <2>1, <3>1
      <4> QED
        BY <4>1
    <3>2. CASE n + 1 \notin T
      BY <2>1, <3>2
    <3> QED
      BY <3>1, <3>2
  <2>3. ASSUME NEW T \in A \cup B
        PROVE  T \in SUBSET (1..(n + 1))
    BY <2>1
  <2> QED
    BY <2>2, <2>3
<1>2. n + 1 \notin 1..n
  OBVIOUS
<1>3. A \cap B = {}
  BY <1>2
<1>4. ExistsBijection(A, B)
  <2>1. f \in [A -> B]
    OBVIOUS
  <2>2. \A S, T \in A : f[S] = f[T] => S = T
    <3> SUFFICES ASSUME NEW S \in A, NEW T \in A, S \cup {n + 1} = T \cup {n + 1}
                 PROVE  S = T
      OBVIOUS
    <3>1. n + 1 \notin S /\ n + 1 \notin T
      BY <1>2
    <3> QED
      BY <3>1
  <2>3. \A T \in B : \E S \in A : f[S] = T
    OBVIOUS
  <2> HIDE DEF A, B, f
  <2>4. f \in Bijection(A, B)
    BY <2>1, <2>2, <2>3 DEF Bijection, Injection, Surjection, IsInjective
  <2> QED
    BY <2>4 DEF ExistsBijection
<1>5. IsFiniteSet(A) /\ Cardinality(A) = 2^n
  BY PowerCounts
<1> HIDE DEF A, B, f
<1>6. IsFiniteSet(B) /\ Cardinality(B) = 2^n
  BY <1>4, <1>5, FS_Bijection
<1>7. Cardinality(A \cup B) = 2^n + 2^n - Cardinality({})
  BY <1>3, <1>5, <1>6, FS_Union
<1>8. Cardinality(SUBSET (1..(n + 1))) = 2^(n + 1)
  BY PowerCounts
<1>9. Cardinality({}) = 0 /\ 2^n \in Nat
  BY FS_EmptySet, PowerType
<1>10. 2^(n + 1) = 2^n + 2^n - 0
  BY <1>1, <1>7, <1>8, <1>9
<1> QED
  BY <1>9, <1>10

LEMMA PowerPositive ==
  ASSUME NEW n \in Nat
  PROVE  2^n \in Nat \ {0}
<1> DEFINE S == {m \in Nat : 2^m \in Nat \ {0}}
<1>1. 0 \in S
  OBVIOUS
<1>2. \A m \in S : m + 1 \in S
  BY PowerStep, PowerType
<1> HIDE DEF S
<1>3. S = Nat
  BY <1>1, <1>2, InductiveSet DEF S
<1> QED
  BY <1>3 DEF S

LEMMA PowerSum ==
  ASSUME NEW m \in Nat, NEW n \in Nat
  PROVE  2^(m + n) = 2^m * 2^n
<1> DEFINE S == {k \in Nat : 2^(m + k) = 2^m * 2^k}
<1>1. 0 \in S
  BY PowerType
<1>2. ASSUME NEW k \in S
      PROVE  k + 1 \in S
  <2>1. 2^(m + k) = 2^m * 2^k /\ k \in Nat /\ 2^m \in Nat /\ 2^k \in Nat
    BY PowerType
  <2>2. 2^(m + (k + 1)) = 2 * 2^(m + k) /\ 2^(k + 1) = 2 * 2^k
    <3>1. m + (k + 1) = (m + k) + 1 /\ m + k \in Nat
      BY <2>1
    <3> QED
      BY <2>1, <3>1, PowerStep
  <2>3. \A x, y \in Nat : 2 * (x * y) = x * (2 * y)
    OBVIOUS
  <2>4. 2^(m + (k + 1)) = 2^m * 2^(k + 1)
    BY <2>1, <2>2, <2>3
  <2> QED
    BY <2>1, <2>4
<1> HIDE DEF S
<1>3. S = Nat
  BY <1>1, <1>2, InductiveSet DEF S
<1> QED
  BY <1>3 DEF S

-----------------------------------------------------------------------------
(* Division *)

\* A number is a multiple of the divisor and a remainder.
LEMMA Division ==
  ASSUME NEW x \in Nat, NEW s \in Nat \ {0}
  PROVE  /\ x \div s \in Nat
         /\ x % s \in 0..(s - 1)
         /\ x = s * (x \div s) + (x % s)
  OBVIOUS

\* The remainder of a multiple and something below the divisor.
LEMMA Remainder ==
  ASSUME NEW q \in Nat, NEW s \in Nat \ {0}, NEW r \in 0..(s - 1)
  PROVE  (s * q + r) % s = r
  OBVIOUS

\* Between two multiples there is room for the divisor.
LEMMA NextMultiple ==
  ASSUME NEW q \in Nat, NEW s \in Nat \ {0}, NEW t \in Nat, s * q < s * t
  PROVE  s * q + s <= s * t
<1>1. q < t
  OBVIOUS
<1>2. q + 1 <= t /\ q + 1 \in Nat
  BY <1>1
<1>3. s * (q + 1) <= s * t
  BY <1>2
<1>4. s * (q + 1) = s * q + s
  OBVIOUS
<1> QED
  BY <1>3, <1>4

-----------------------------------------------------------------------------
(* Orders *)

\* R is a strict total order on S.
IsStrictOrder(R, S) ==
  /\ \A i \in S : <<i, i>> \notin R
  /\ \A i, j \in S : i = j \/ <<i, j>> \in R \/ <<j, i>> \in R
  /\ \A i, j, k \in S : <<i, j>> \in R /\ <<j, k>> \in R => <<i, k>> \in R

\* How many of S come before i.
Place(R, S, i) == Cardinality({j \in S : <<j, i>> \in R})

\* In a finite set with a strict total order every place is taken by one element.
LEMMA PlacesAreTaken ==
  ASSUME NEW S, IsFiniteSet(S), NEW R,
         IsStrictOrder(R, S)
  PROVE  /\ \A i \in S : Place(R, S, i) + 1 \in 1..Cardinality(S)
         /\ \A k \in 1..Cardinality(S) : \E i \in S : Place(R, S, i) = k - 1
         /\ \A i, m \in S : Place(R, S, i) = Place(R, S, m) => i = m
<1> USE DEF IsStrictOrder, Place
<1> DEFINE B(i) == {j \in S : <<j, i>> \in R}
           rank(i) == Cardinality(B(i))
           N == Cardinality(S)
           places == 0..(N - 1)
           f == [i \in S |-> rank(i)]
<1>1. N \in Nat
  BY FS_CardinalityType
<1>2. ASSUME NEW i \in S
      PROVE  /\ IsFiniteSet(B(i)) /\ rank(i) \in Nat
             /\ rank(i) \in places
  <2>1. B(i) \in SUBSET S /\ i \notin B(i)
    OBVIOUS
  <2>2. IsFiniteSet(B(i)) /\ rank(i) <= N /\ rank(i) # N
    BY <2>1, FS_Subset
  <2>3. rank(i) \in Nat
    BY <2>2, FS_CardinalityType
  <2> QED
    BY <1>1, <2>2, <2>3
<1>3. ASSUME NEW i \in S, NEW m \in S, <<i, m>> \in R
      PROVE  rank(i) < rank(m)
  <2>1. B(i) \in SUBSET B(m) /\ i \in B(m) /\ i \notin B(i)
    BY <1>3
  <2>2. IsFiniteSet(B(m)) /\ rank(i) \in Nat /\ rank(m) \in Nat
    BY <1>2
  <2> HIDE DEF B
  <2>3. rank(i) <= rank(m) /\ rank(i) # rank(m)
    BY <2>1, <2>2, FS_Subset
  <2> QED
    BY <2>2, <2>3
<1>4. ASSUME NEW i \in S, NEW m \in S, rank(i) = rank(m)
      PROVE  i = m
  <2>1. rank(i) \in Nat /\ ~(rank(i) < rank(m)) /\ ~(rank(m) < rank(i))
    <3>1. rank(i) \in Nat
      BY <1>2
    <3> HIDE DEF rank
    <3> QED
      BY <1>4, <3>1
  <2>2. <<i, m>> \notin R /\ <<m, i>> \notin R
    <3> HIDE DEF rank
    <3> QED
      BY <1>3, <2>1
  <2> QED
    BY <2>2
<1>5. IsFiniteSet(places) /\ Cardinality(places) = N
  <2>1. N - 1 \in Int /\ (0 > N - 1 <=> N = 0) /\ (N - 1) - 0 + 1 = N
    BY <1>1
  <2> HIDE DEF N
  <2> QED
    BY <2>1, FS_Interval
<1>6. f \in Surjection(S, places)
  <2>1. \A i \in S : rank(i) \in places
    BY <1>2
  <2>2. f \in Injection(S, places)
    <3> HIDE DEF rank, places
    <3> QED
      BY <1>4, <2>1 DEF Injection, IsInjective
  <2> HIDE DEF f, places, N
  <2> QED
    BY <1>5, <2>2, FS_Injection DEF N
<1>7. ASSUME NEW k \in 1..N
      PROVE  \E i \in S : rank(i) = k - 1
  <2>1. k - 1 \in places
    BY <1>1
  <2> HIDE DEF rank, places
  <2> QED
    BY <1>6, <2>1 DEF Surjection
<1>8. \A i \in S : rank(i) + 1 \in 1..N
  <2>1. \A i \in S : rank(i) \in 0..(N - 1)
    BY <1>2
  <2> HIDE DEF rank, N
  <2> QED
    BY <1>1, <2>1
<1> HIDE DEF N
<1> QED
  BY <1>4, <1>7, <1>8 DEF N

\* at[k] is the one with k - 1 others before it, if there is one.
IsArrangement(at, R, S) ==
  \A k \in 1..Cardinality(S) :
    (\E i \in S : Place(R, S, i) = k - 1) => at[k] \in S /\ Place(R, S, at[k]) = k - 1

\* A sequence arranged by an order holds each of its elements.
LEMMA ArrangedIsThere ==
  ASSUME NEW S, NEW s \in Seq(S), NEW keep \in SUBSET DOMAIN s,
         NEW T, \A i \in keep : s[i] \in T, NEW R, NEW at,
         IsStrictOrder(R, keep),
         IsArrangement(at, R, keep)
  PROVE  LET t == [k \in 1..Cardinality(keep) |-> s[at[k]]]
         IN  /\ Cardinality(keep) \in Nat
             /\ t \in Seq(T)
             /\ \A i \in keep : s[i] \in ToSet(t)
<1> DEFINE rank(i) == Place(R, keep, i)
           N == Cardinality(keep)
           t == [k \in 1..N |-> s[at[k]]]
<1>1. IsFiniteSet(keep) /\ N \in Nat
  <2>1. DOMAIN s = 1..Len(s) /\ Len(s) \in Nat
    OBVIOUS
  <2>2. IsFiniteSet(1..Len(s))
    BY <2>1, FS_Interval
  <2>3. IsFiniteSet(keep)
    BY <2>1, <2>2, FS_Subset
  <2> QED
    BY <2>3, FS_CardinalityType
<1>2. /\ \A i \in keep : rank(i) + 1 \in 1..N
      /\ \A k \in 1..N : \E i \in keep : rank(i) = k - 1
      /\ \A i, m \in keep : rank(i) = rank(m) => i = m
  BY <1>1, PlacesAreTaken
<1>3. \A k \in 1..N : at[k] \in keep /\ rank(at[k]) = k - 1
  BY <1>2 DEF IsArrangement
<1>4. \A i \in keep : rank(i) \in Nat
  <2>1. \A i \in keep : {j \in keep : <<j, i>> \in R} \in SUBSET keep
    OBVIOUS
  <2> QED
    BY <1>1, <2>1, FS_Subset, FS_CardinalityType DEF Place
<1> HIDE DEF rank
<1>5. t \in Seq(T)
  <2> HIDE DEF N
  <2> QED
    BY <1>1, <1>3
<1>6. ASSUME NEW i \in keep
      PROVE  s[i] \in ToSet(t)
  <2> DEFINE k == rank(i) + 1
  <2>1. k \in 1..N /\ rank(i) = k - 1
    BY <1>2, <1>4
  <2> HIDE DEF k, N
  <2>2. at[k] = i
    BY <1>2, <1>3, <2>1
  <2> QED
    BY <2>1, <2>2 DEF ToSet
<1> QED
  BY <1>1, <1>5, <1>6

\* A sequence that is sorted holds all its elements.
LEMMA SortedIsThere ==
  ASSUME NEW S, NEW s \in Seq(S), NEW R, NEW at,
         IsStrictOrder(R, DOMAIN s), IsArrangement(at, R, DOMAIN s)
  PROVE  /\ [k \in DOMAIN s |-> s[at[k]]] \in Seq(S)
         /\ ToSet(s) \subseteq ToSet([k \in DOMAIN s |-> s[at[k]]])
<1> DEFINE D == DOMAIN s
           t == [k \in 1..Cardinality(D) |-> s[at[k]]]
<1>1. D = 1..Cardinality(D)
  <2>1. D = 1..Len(s) /\ Len(s) \in Nat
    OBVIOUS
  <2>2. ASSUME NEW n \in Nat
        PROVE  Cardinality(1..n) = n
    BY FS_Interval
  <2> HIDE DEF D
  <2> QED
    BY <2>1, <2>2
<1>2. D \in SUBSET DOMAIN s /\ \A i \in D : s[i] \in S
  OBVIOUS
<1>3. IsStrictOrder(R, D) /\ IsArrangement(at, R, D)
  OBVIOUS
<1> HIDE DEF D
<1>4. t \in Seq(S) /\ \A i \in D : s[i] \in ToSet(t)
  BY <1>2, <1>3, ArrangedIsThere
<1>5. t = [k \in DOMAIN s |-> s[at[k]]] /\ D = DOMAIN s
  BY <1>1 DEF D
<1>6. ToSet(s) = {s[i] : i \in D}
  BY DEF ToSet, D
<1> HIDE DEF t
<1> QED
  BY <1>4, <1>5, <1>6

-----------------------------------------------------------------------------
(* Bounds *)

\* A set of numbers that has a bound has a greatest element: Max of FiniteSetsExt.
LEMMA MaxIsGreatest ==
  ASSUME NEW S \in SUBSET Nat, S # {}, NEW b \in Nat, \A y \in S : y <= b
  PROVE  Max(S) \in S /\ \A y \in S : y <= Max(S)
<1> DEFINE U == {u \in Nat : \A y \in S : y <= u}
<1>1. U \in SUBSET Nat /\ b \in U
  OBVIOUS
<1>2. PICK u \in U : \A v \in U : u <= v
  <2> HIDE DEF U
  <2> QED
    BY <1>1, LeastElement
<1>3. u \in S
  <2> SUFFICES ASSUME u \notin S
               PROVE  FALSE
    OBVIOUS
  <2>1. \A y \in S : y \in Nat /\ y < u
    BY <1>2
  <2>2. u - 1 \in Nat /\ \A y \in S : y <= u - 1
    <3>1. u \in Nat
      BY <1>2
    <3>2. PICK y \in S : y \in Nat /\ y < u
      BY <2>1
    <3> HIDE DEF U
    <3> QED
      BY <2>1, <3>1, <3>2
  <2> QED
    BY <1>1, <1>2, <2>2
<1>4. \A y \in S : u >= y
  BY <1>2
<1> HIDE DEF U
<1>5. Max(S) \in S /\ \A y \in S : Max(S) >= y
  BY <1>3, <1>4 DEF Max
<1> QED
  BY <1>5

\* Finitely many numbers have a bound, by induction.
LEMMA NumbersAreBounded ==
  ASSUME NEW n \in Nat, NEW f, \A i \in 1..n : f[i] \in Nat
  PROVE  \E b \in Nat : \A i \in 1..n : f[i] <= b
<1> DEFINE N == {k \in Nat : \E b \in Nat : \A i \in 1..n : i <= k => f[i] <= b}
<1>1. 0 \in N
  OBVIOUS
<1>2. ASSUME NEW k \in N
      PROVE  k + 1 \in N
  <2>1. PICK b \in Nat : \A i \in 1..n : i <= k => f[i] <= b
    OBVIOUS
  <2>2. CASE k + 1 \notin 1..n
    <3>1. \A i \in 1..n : i <= k + 1 => f[i] <= b
      BY <2>1, <2>2
    <3> QED
      BY <3>1
  <2>3. CASE k + 1 \in 1..n
    <3> DEFINE c == b + f[k + 1]
    <3>1. c \in Nat /\ b <= c /\ f[k + 1] <= c
      BY <2>3
    <3> HIDE DEF c
    <3>2. ASSUME NEW i \in 1..n, i <= k + 1
          PROVE  f[i] <= c
      <4>1. i <= k \/ i = k + 1
        BY <3>2
      <4> QED
        BY <2>1, <3>1, <4>1
    <3> QED
      BY <3>1, <3>2
  <2> QED
    BY <2>2, <2>3
<1> HIDE DEF N
<1>3. N = Nat
  BY <1>1, <1>2, InductiveSet DEF N
<1>4. n \in N
  BY <1>3
<1>5. PICK b \in Nat : \A i \in 1..n : i <= n => f[i] <= b
  BY <1>4 DEF N
<1> QED
  BY <1>5

-----------------------------------------------------------------------------
(* Lists of numbers *)

\* The first m values of g are the elements of K in their order.
Lists(g, m, K) ==
  /\ m \in Nat
  /\ \A k \in 1..m : g[k] \in K
  /\ \A j, k \in 1..m : j < k => g[j] < g[k]
  /\ \A i \in K : \E k \in 1..m : g[k] = i

\* Two lists of the same numbers agree as far as both go: the first place where they do
\* not would hold a number that one of them has skipped.
LEMMA ListsAgree ==
  ASSUME NEW K \in SUBSET Nat, NEW g, NEW m, Lists(g, m, K), NEW h, NEW p, Lists(h, p, K)
  PROVE  \A k \in 1..m : k <= p => g[k] = h[k]
<1> DEFINE D == {k \in 1..m : k <= p /\ g[k] # h[k]}
<1> SUFFICES ASSUME D # {}
             PROVE  FALSE
  OBVIOUS
<1>1. m \in Nat /\ p \in Nat
  BY DEF Lists
<1>2. D \in SUBSET Nat
  OBVIOUS
<1>3. PICK k \in D : \A j \in D : k <= j
  <2> HIDE DEF D
  <2> QED
    BY <1>2, LeastElement
<1>4. k \in 1..m /\ k \in 1..p /\ g[k] # h[k]
  BY <1>1, <1>3
<1>5. \A j \in 1..m : j < k => g[j] = h[j]
  BY <1>1, <1>3, <1>4
<1>6. g[k] \in K /\ h[k] \in K /\ g[k] \in Nat /\ h[k] \in Nat
  BY <1>4 DEF Lists
<1>7. CASE g[k] < h[k]
  <2>1. PICK j \in 1..p : h[j] = g[k]
    BY <1>6 DEF Lists
  <2>2. j < k
    <3>1. k < j => h[k] < h[j]
      BY <1>4 DEF Lists
    <3>2. j # k /\ ~(k < j)
      BY <1>6, <1>7, <2>1, <3>1
    <3> QED
      BY <1>1, <1>4, <3>2
  <2>3. j \in 1..m
    BY <1>1, <1>4, <2>2
  <2>4. g[j] = h[j] /\ g[j] < g[k]
    BY <1>4, <1>5, <2>2, <2>3 DEF Lists
  <2> QED
    BY <1>6, <2>1, <2>4
<1>8. CASE h[k] < g[k]
  <2>1. PICK j \in 1..m : g[j] = h[k]
    BY <1>6 DEF Lists
  <2>2. j < k
    <3>1. k < j => g[k] < g[j]
      BY <1>4 DEF Lists
    <3>2. j # k /\ ~(k < j)
      BY <1>6, <1>8, <2>1, <3>1
    <3> QED
      BY <1>1, <1>4, <3>2
  <2>3. j \in 1..p
    BY <1>1, <1>4, <2>2
  <2>4. g[j] = h[j] /\ h[j] < h[k]
    BY <1>4, <1>5, <2>1, <2>2, <2>3 DEF Lists
  <2> QED
    BY <1>6, <2>1, <2>4
<1> QED
  BY <1>4, <1>6, <1>7, <1>8

\* No list of the same numbers is longer than another.
LEMMA ListIsNotLonger ==
  ASSUME NEW K \in SUBSET Nat, NEW g, NEW m, Lists(g, m, K), NEW h, NEW p, Lists(h, p, K)
  PROVE  m <= p
<1> SUFFICES ASSUME ~(m <= p)
             PROVE  FALSE
  OBVIOUS
<1>1. m \in Nat /\ p \in Nat /\ p + 1 \in 1..m
  BY DEF Lists
<1>2. g[p + 1] \in K /\ g[p + 1] \in Nat
  BY <1>1 DEF Lists
<1>3. PICK j \in 1..p : h[j] = g[p + 1]
  BY <1>2 DEF Lists
<1>4. j \in 1..m /\ j <= p /\ j < p + 1
  BY <1>1
<1>5. g[j] = h[j]
  BY <1>4, ListsAgree
<1>6. g[j] < g[p + 1]
  BY <1>1, <1>4 DEF Lists
<1> QED
  BY <1>2, <1>3, <1>5, <1>6

\* So there is but one.
LEMMA ListIsUnique ==
  ASSUME NEW K \in SUBSET Nat, NEW g, NEW m, Lists(g, m, K), NEW h, NEW p, Lists(h, p, K)
  PROVE  m = p /\ \A k \in 1..m : g[k] = h[k]
<1>1. m \in Nat /\ p \in Nat /\ m <= p
  BY ListIsNotLonger DEF Lists
<1>2. p <= m
  BY ListIsNotLonger
<1>3. \A k \in 1..m : k <= p => g[k] = h[k]
  BY ListsAgree
<1> QED
  BY <1>1, <1>3, <1>2

\* Numbers out of n are at most n.
LEMMA ListIsShort ==
  ASSUME NEW a \in Nat, NEW n \in Nat, NEW K \in SUBSET ((a + 1)..(a + n)),
         NEW g, NEW m, Lists(g, m, K)
  PROVE  m <= n
<1> DEFINE D == {k \in 1..m : g[k] < a + k}
<1>1. m \in Nat /\ \A k \in 1..m : g[k] \in (a + 1)..(a + n)
  BY DEF Lists
<1>2. D = {}
  <2> SUFFICES ASSUME D # {}
               PROVE  FALSE
    OBVIOUS
  <2>1. D \in SUBSET Nat
    OBVIOUS
  <2>2. PICK k \in D : \A j \in D : k <= j
    <3> HIDE DEF D
    <3> QED
      BY <2>1, LeastElement
  <2>3. k \in 1..m /\ g[k] < a + k /\ g[k] \in (a + 1)..(a + n)
    BY <1>1, <2>2
  <2>4. k # 1 /\ k - 1 \in 1..m /\ k - 1 < k
    BY <1>1, <2>3
  <2>5. ~(g[k - 1] < a + (k - 1))
    <3>1. k - 1 \notin D
      <4> HIDE DEF D
      <4> QED
        BY <2>2, <2>3, <2>4
    <3> QED
      BY <2>4, <3>1
  <2>7. g[k - 1] \in (a + 1)..(a + n)
    BY <1>1, <2>4
  <2>6. g[k - 1] < g[k]
    BY <2>3, <2>4 DEF Lists
  <2> QED
    BY <2>3, <2>4, <2>5, <2>6, <2>7
<1>3. CASE m = 0
  BY <1>3
<1>4. CASE m # 0
  <2>1. m \in 1..m /\ g[m] \in (a + 1)..(a + n)
    BY <1>1, <1>4
  <2>2. ~(g[m] < a + m)
    BY <1>2, <2>1
  <2> QED
    BY <1>1, <2>1, <2>2
<1> QED
  BY <1>3, <1>4

\* The numbers of an interval, one after the other.
LEMMA IntervalIsListed ==
  ASSUME NEW a \in Nat, NEW n \in Nat
  PROVE  Lists([k \in 1..n |-> a + k], n, (a + 1)..(a + n))
<1> DEFINE g == [k \in 1..n |-> a + k]
<1>1. \A k \in 1..n : g[k] = a + k
  OBVIOUS
<1> HIDE DEF g
<1>2. \A k \in 1..n : g[k] \in (a + 1)..(a + n)
  BY <1>1
<1>3. \A j, k \in 1..n : j < k => g[j] < g[k]
  BY <1>1
<1>4. ASSUME NEW i \in (a + 1)..(a + n)
      PROVE  \E k \in 1..n : g[k] = i
  <2>1. i - a \in 1..n /\ a + (i - a) = i
    OBVIOUS
  <2> QED
    BY <1>1, <2>1
<1>5. Lists(g, n, (a + 1)..(a + n))
  BY <1>2, <1>3, <1>4 DEF Lists
<1> QED
  BY <1>5 DEF g

\* L is what a list e of m numbers holds after place h, at the distances J from there.
LaterAt(e, m, h, J, L) ==
  /\ h \in 1..m
  /\ J \subseteq 1..(m - h)
  /\ \A i \in L : e[h] < i
  /\ \A j \in 1..(m - h) : j \in J <=> e[j + h] \in L

Shifted(g, e, h, d, p) == \A k \in 1..p : g[k] = e[d[k] + h]

\* A list of the distances becomes one of the numbers.
LEMMA LaterAreListed ==
  ASSUME NEW K \in SUBSET Nat, NEW L \in SUBSET K, NEW e, NEW m, Lists(e, m, K),
         NEW h, NEW J, LaterAt(e, m, h, J, L),
         NEW d, NEW p, Lists(d, p, J), NEW g, Shifted(g, e, h, d, p)
  PROVE  Lists(g, p, L)
<1> USE DEF LaterAt, Shifted
<1>1. m \in Nat /\ p \in Nat /\ \A k \in 1..p : d[k] \in J
  BY DEF Lists
<1>2. h \in Nat /\ h <= m /\ m - h \in Nat
  BY <1>1
<1>3. \A j \in J : j \in 1..(m - h) /\ j \in Nat /\ j + h \in 1..m /\ e[j + h] \in L
  BY <1>1, <1>2
<1>4. \A k \in 1..p : g[k] \in L
  BY <1>1, <1>3
<1>5. ASSUME NEW j \in 1..p, NEW k \in 1..p, j < k
      PROVE  g[j] < g[k]
  <2>1. d[j] < d[k] /\ d[j] \in J /\ d[k] \in J
    BY <1>5 DEF Lists
  <2>2. /\ d[j] + h \in 1..m /\ d[k] + h \in 1..m
        /\ d[j] \in Nat /\ d[k] \in Nat
    BY <1>3, <2>1
  <2>3. d[j] + h < d[k] + h
    BY <1>2, <2>1, <2>2
  <2>4. e[d[j] + h] < e[d[k] + h]
    BY <2>2, <2>3 DEF Lists
  <2> QED
    BY <2>4
<1>6. ASSUME NEW i \in L
      PROVE  \E k \in 1..p : g[k] = i
  <2>1. PICK q \in 1..m : e[q] = i
    BY DEF Lists
  <2>2. i \in Nat /\ e[h] \in Nat /\ e[h] < i
    BY DEF Lists
  <2>3. h < q
    <3>1. q < h => e[q] < e[h]
      BY DEF Lists
    <3>2. ~(q < h) /\ q # h
      BY <2>1, <2>2, <3>1
    <3> QED
      BY <1>1, <1>2, <3>2
  <2>4. q - h \in 1..(m - h) /\ (q - h) + h = q
    BY <1>1, <1>2, <2>3
  <2>5. q - h \in J
    BY <2>1, <2>4
  <2>6. PICK k \in 1..p : d[k] = q - h
    BY <2>5 DEF Lists
  <2>7. g[k] = e[q]
    BY <2>4, <2>6
  <2> QED
    BY <2>1, <2>7
<1> QED
  BY <1>1, <1>4, <1>5, <1>6 DEF Lists

\* The place of the least number of interest is the least of their places.
LEMMA FirstIsListed ==
  ASSUME NEW K \in SUBSET Nat, NEW e, NEW m, Lists(e, m, K), NEW D \in SUBSET (1..m),
         NEW h \in D, \A i \in D : e[h] <= e[i]
  PROVE  Min(D) = h
<1>1. m \in Nat /\ D \in SUBSET Nat
  BY DEF Lists
<1>2. Min(D) \in D /\ Min(D) <= h
  BY <1>1, MinIsLeast
<1>3. Min(D) \in 1..m /\ h \in 1..m
  BY <1>2
<1>4. e[Min(D)] \in Nat /\ e[h] \in Nat
  BY <1>3 DEF Lists
<1>5. ~(Min(D) < h)
  <2>1. Min(D) < h => e[Min(D)] < e[h]
    BY <1>3 DEF Lists
  <2>2. e[h] <= e[Min(D)]
    BY <1>2
  <2> QED
    BY <1>4, <2>1, <2>2
<1> QED
  BY <1>1, <1>2, <1>3, <1>5

\* An arrangement by size is a list.
LEMMA ArrangedIsListed ==
  ASSUME NEW n \in Nat, NEW K \in SUBSET (1..n), NEW R, NEW at,
         \A i, j \in K : <<i, j>> \in R <=> i < j, IsArrangement(at, R, K)
  PROVE  Lists(at, Cardinality(K), K)
<1> DEFINE N == Cardinality(K)
<1>1. IsFiniteSet(K) /\ N \in Nat /\ \A T \in SUBSET K : IsFiniteSet(T) /\ Cardinality(T) \in Nat
  <2>1. IsFiniteSet(1..n)
    BY FS_Interval
  <2>2. IsFiniteSet(K)
    BY <2>1, FS_Subset
  <2>3. \A T \in SUBSET K : IsFiniteSet(T)
    BY <2>2, FS_Subset
  <2> QED
    BY <2>2, <2>3, FS_CardinalityType
<1>2. IsStrictOrder(R, K)
  BY DEF IsStrictOrder
<1>3. /\ \A i \in K : Place(R, K, i) + 1 \in 1..N
      /\ \A k \in 1..N : \E i \in K : Place(R, K, i) = k - 1
      /\ \A i, j \in K : Place(R, K, i) = Place(R, K, j) => i = j
  BY <1>1, <1>2, PlacesAreTaken
<1>4. \A k \in 1..N : at[k] \in K /\ Place(R, K, at[k]) = k - 1
  BY <1>3 DEF IsArrangement
<1>5. ASSUME NEW i \in K, NEW j \in K, i <= j
      PROVE  Place(R, K, i) <= Place(R, K, j)
  <2>1. {l \in K : <<l, i>> \in R} \in SUBSET {l \in K : <<l, j>> \in R}
    <3>1. \A l \in K : l < i => l < j
      BY <1>5
    <3> QED
      BY <3>1
  <2>2. IsFiniteSet({l \in K : <<l, j>> \in R})
    BY <1>1
  <2> QED
    BY <2>1, <2>2, FS_Subset DEF Place
<1>6. ASSUME NEW j \in 1..N, NEW k \in 1..N, j < k
      PROVE  at[j] < at[k]
  <2>1. at[j] \in K /\ at[k] \in K /\ at[j] \in Nat /\ at[k] \in Nat
    <3>1. K \in SUBSET Nat
      OBVIOUS
    <3> QED
      BY <1>4, <3>1
  <2>2. at[k] <= at[j] => k - 1 <= j - 1
    BY <1>4, <1>5, <2>1
  <2> QED
    BY <1>1, <1>6, <2>1, <2>2
<1>7. ASSUME NEW i \in K
      PROVE  \E k \in 1..N : at[k] = i
  <2> DEFINE k == Place(R, K, i) + 1
  <2>1. Place(R, K, i) \in Nat
    BY <1>1 DEF Place
  <2>2. k \in 1..N /\ Place(R, K, i) = k - 1
    BY <1>3, <2>1
  <2> HIDE DEF k
  <2>3. at[k] = i
    BY <1>3, <1>4, <2>2
  <2> QED
    BY <2>2, <2>3
<1> HIDE DEF N
<1> QED
  BY <1>1, <1>4, <1>6, <1>7 DEF Lists, N

-----------------------------------------------------------------------------
(* Sequences *)

\* What is made of each element of a sequence is a sequence as long.
LEMMA EachIsMapped ==
  ASSUME NEW S, NEW s \in Seq(S), NEW T, NEW t, t \in [DOMAIN s -> T]
  PROVE  t \in Seq(T) /\ Len(t) = Len(s) /\ \A i \in 1..Len(s) : t[i] \in ToSet(t)
<1>1. DOMAIN s = 1..Len(s) /\ Len(s) \in Nat
  OBVIOUS
<1>2. t \in [1..Len(s) -> T]
  BY <1>1
<1>3. t \in Seq(T) /\ Len(t) = Len(s)
  BY <1>1, <1>2
<1> QED
  BY <1>2, <1>3 DEF ToSet

\* Each of them is in it.
LEMMA MappedIsContained ==
  ASSUME NEW S, NEW s \in Seq(S), NEW t, t = [i \in DOMAIN s |-> t[i]]
  PROVE  Len(t) = Len(s) /\ \A i \in DOMAIN s : Contains(t, t[i])
<1> DEFINE T == {t[i] : i \in DOMAIN s}
<1>1. t \in [DOMAIN s -> T]
  OBVIOUS
<1> HIDE DEF T
<1>2. Len(t) = Len(s) /\ DOMAIN s = 1..Len(s)
  BY <1>1, EachIsMapped
<1> QED
  BY <1>2 DEF Contains

LEMMA ContainsIsIn ==
  ASSUME NEW S, NEW s \in Seq(S), NEW e \in ToSet(s)
  PROVE  Contains(s, e)
  BY DEF Contains, ToSet

\* The recursion of FlattenSeq.
Recursion(f, ss) == f = [i \in 1..Len(ss) |-> IF i = 1 THEN ss[i] ELSE f[i - 1] \o ss[i]]

LEMMA FlattenIsRecursion ==
  ASSUME NEW S, NEW ss \in Seq(Seq(S)), ss # <<>>, NEW f, f = CHOOSE g : Recursion(g, ss)
  PROVE  FlattenSeq(ss) = f[Len(ss)]
<1>1. Len(ss) # 0
  OBVIOUS
<1>2. FlattenSeq(ss) = (CHOOSE g : g = [i \in 1..Len(ss) |-> IF i = 1 THEN ss[i] ELSE g[i - 1] \o ss[i]])[Len(ss)]
  BY <1>1 DEF FlattenSeq
<1> QED
  BY <1>2 DEF Recursion

\* The recursion has a solution, by induction on the sequences it has reached.
LEMMA FlattenExists ==
  ASSUME NEW S, NEW ss \in Seq(Seq(S))
  PROVE  \E f : Recursion(f, ss)
<1> DEFINE body(f, i) == IF i = 1 THEN ss[i] ELSE f[i - 1] \o ss[i]
           N == {n \in Nat : \E f : f = [i \in 1..n |-> body(f, i)]}
<1>1. 0 \in N
  <2>1. <<>> = [i \in 1..0 |-> body(<<>>, i)]
    OBVIOUS
  <2> QED
    BY <2>1
<1>2. ASSUME NEW n \in N
      PROVE  n + 1 \in N
  <2>1. PICK f : f = [i \in 1..n |-> body(f, i)]
    OBVIOUS
  <2> DEFINE g == [i \in 1..(n + 1) |-> IF i = n + 1 THEN body(f, i) ELSE f[i]]
  <2>2. g = [i \in 1..(n + 1) |-> body(g, i)]
    <3>1. ASSUME NEW i \in 1..(n + 1)
          PROVE  g[i] = body(g, i)
      <4>1. i # 1 => g[i - 1] = f[i - 1]
        OBVIOUS
      <4>2. body(g, i) = body(f, i)
        BY <4>1
      <4>3. CASE i = n + 1
        BY <4>2, <4>3
      <4>4. CASE i # n + 1
        <5>1. i \in 1..n
          BY <4>4
        <5>2. f[i] = body(f, i)
          BY <2>1, <5>1
        <5> QED
          BY <4>2, <4>4, <5>2
      <4> QED
        BY <4>3, <4>4
    <3> HIDE DEF body
    <3>2. g = [i \in 1..(n + 1) |-> g[i]]
      OBVIOUS
    <3> HIDE DEF g
    <3> QED
      BY <3>1, <3>2
  <2>3. n + 1 \in Nat
    OBVIOUS
  <2> HIDE DEF g, body
  <2>4. \E h : h = [i \in 1..(n + 1) |-> body(h, i)]
    BY <2>2
  <2> QED
    BY <2>3, <2>4
<1> HIDE DEF N, body
<1>3. N = Nat
  BY <1>1, <1>2, InductiveSet DEF N
<1>4. Len(ss) \in N
  BY <1>3
<1> QED
  BY <1>4 DEF N, body, Recursion

\* Nothing is lost in a concatenation ...
LEMMA ConcatKeeps ==
  ASSUME NEW S, NEW s \in Seq(S), NEW t \in Seq(S)
  PROVE  /\ s \o t \in Seq(S)
         /\ ToSet(s) \cup ToSet(t) \subseteq ToSet(s \o t)
<1>1. s \o t \in Seq(S) /\ Len(s \o t) = Len(s) + Len(t)
  OBVIOUS
<1>2. \A i \in 1..Len(s) : i \in 1..Len(s \o t) /\ (s \o t)[i] = s[i]
  OBVIOUS
<1>3. \A i \in 1..Len(t) : Len(s) + i \in 1..Len(s \o t) /\ (s \o t)[Len(s) + i] = t[i]
  OBVIOUS
<1>4. DOMAIN s = 1..Len(s) /\ DOMAIN t = 1..Len(t) /\ DOMAIN (s \o t) = 1..Len(s \o t)
  BY <1>1
<1> QED
  BY <1>1, <1>2, <1>3, <1>4 DEF ToSet

\* ... nor in one of many sequences, by induction again.
LEMMA FlattenKeeps ==
  ASSUME NEW S, NEW ss \in Seq(Seq(S))
  PROVE  /\ FlattenSeq(ss) \in Seq(S)
         /\ \A i \in DOMAIN ss : ToSet(ss[i]) \subseteq ToSet(FlattenSeq(ss))
<1>1. CASE ss = <<>>
  BY <1>1 DEF FlattenSeq
<1>2. CASE ss # <<>>
  <2>1. PICK f : f = CHOOSE g : Recursion(g, ss)
    OBVIOUS
  <2>2. Recursion(f, ss)
    BY <2>1, FlattenExists
  <2>3. \A i \in 1..Len(ss) : f[i] = IF i = 1 THEN ss[i] ELSE f[i - 1] \o ss[i]
    BY <2>2 DEF Recursion
  <2>4. \A i \in 1..Len(ss) : ss[i] \in Seq(S)
    OBVIOUS
  <2> DEFINE good(n) == f[n] \in Seq(S) /\ \A i \in 1..n : ToSet(ss[i]) \subseteq ToSet(f[n])
             N == {n \in Nat : n + 1 \in 1..Len(ss) => good(n + 1)}
  <2>5. 0 \in N
    <3> SUFFICES ASSUME 1 \in 1..Len(ss)
                 PROVE  good(1)
      OBVIOUS
    <3>1. f[1] = ss[1]
      BY <2>3
    <3> QED
      BY <2>4, <3>1
  <2>6. ASSUME NEW n \in N
        PROVE  n + 1 \in N
    <3> SUFFICES ASSUME n + 2 \in 1..Len(ss)
                 PROVE  good(n + 2)
      <4>1. n + 1 \in Nat /\ (n + 1) + 1 = n + 2
        OBVIOUS
      <4> HIDE DEF good
      <4> QED
        BY <4>1
    <3>0. n \in Nat /\ (n + 1 \in 1..Len(ss) => good(n + 1))
      <4> HIDE DEF good
      <4> QED
        OBVIOUS
    <3>1. n + 1 \in 1..Len(ss) /\ good(n + 1)
      <4> HIDE DEF good
      <4> QED
        BY <3>0
    <3>2. f[n + 2] = f[n + 1] \o ss[n + 2]
      <4>1. n + 2 # 1 /\ (n + 2) - 1 = n + 1
        BY <3>0
      <4> QED
        BY <2>3, <4>1
    <3>3. f[n + 1] \in Seq(S) /\ ss[n + 2] \in Seq(S)
      BY <2>4, <3>1
    <3>4. f[n + 2] \in Seq(S) /\ ToSet(f[n + 1]) \cup ToSet(ss[n + 2]) \subseteq ToSet(f[n + 2])
      BY <3>2, <3>3, ConcatKeeps
    <3>5. \A i \in 1..(n + 2) : i \in 1..(n + 1) \/ i = n + 2
      OBVIOUS
    <3> QED
      BY <3>1, <3>4, <3>5
  <2> HIDE DEF N, good
  <2>7. N = Nat
    BY <2>5, <2>6, InductiveSet DEF N
  <2>8. Len(ss) \in 1..Len(ss) /\ Len(ss) - 1 \in Nat
    BY <1>2
  <2>9. good(Len(ss))
    <3>1. Len(ss) - 1 \in N
      BY <2>7, <2>8
    <3>2. (Len(ss) - 1) + 1 = Len(ss)
      OBVIOUS
    <3> QED
      BY <2>8, <3>1, <3>2 DEF N
  <2>10. FlattenSeq(ss) = f[Len(ss)]
    BY <1>2, <2>1, FlattenIsRecursion
  <2>11. DOMAIN ss = 1..Len(ss)
    OBVIOUS
  <2> QED
    BY <2>9, <2>10, <2>11 DEF good
<1> QED
  BY <1>1, <1>2

\* A sequence of sequences of which all but the first have one element: the first
\* goes on with those.
LEMMA FlattenSingles ==
  ASSUME NEW S, NEW ss \in Seq(Seq(S)), ss # <<>>, \A j \in 2..Len(ss) : Len(ss[j]) = 1
  PROVE  /\ FlattenSeq(ss) \in Seq(S)
         /\ Len(FlattenSeq(ss)) = Len(ss[1]) + Len(ss) - 1
         /\ \A i \in 1..Len(ss[1]) : FlattenSeq(ss)[i] = ss[1][i]
         /\ \A j \in 2..Len(ss) : FlattenSeq(ss)[Len(ss[1]) + j - 1] = ss[j][1]
<1> DEFINE a == Len(ss[1])
<1>1. PICK f : f = CHOOSE g : Recursion(g, ss)
  OBVIOUS
<1>2. \A i \in 1..Len(ss) : f[i] = IF i = 1 THEN ss[i] ELSE f[i - 1] \o ss[i]
  <2>1. Recursion(f, ss)
    BY <1>1, FlattenExists
  <2> QED
    BY <2>1 DEF Recursion
<1>3. Len(ss) \in Nat /\ Len(ss) # 0 /\ \A i \in 1..Len(ss) : ss[i] \in Seq(S)
  OBVIOUS
<1>4. a \in Nat /\ ss[1] \in Seq(S)
  BY <1>3
<1> DEFINE good(n) == /\ f[n] \in Seq(S) /\ Len(f[n]) = a + n - 1
                      /\ \A i \in 1..a : f[n][i] = ss[1][i]
                      /\ \A j \in 2..n : f[n][a + j - 1] = ss[j][1]
           N == {n \in Nat : n + 1 \in 1..Len(ss) => good(n + 1)}
<1>5. 0 \in N
  <2>1. f[1] = ss[1]
    BY <1>2, <1>3
  <2>2. good(1)
    BY <1>4, <2>1
  <2> HIDE DEF good
  <2> QED
    BY <2>2
<1>6. ASSUME NEW n \in N
      PROVE  n + 1 \in N
  <2>0. n \in Nat /\ (n + 1 \in 1..Len(ss) => good(n + 1)) /\ (n + 1) + 1 = n + 2
    <3> HIDE DEF good
    <3> QED
      OBVIOUS
  <2> SUFFICES ASSUME n + 2 \in 1..Len(ss)
               PROVE  good(n + 2)
    <3> HIDE DEF good
    <3> QED
      BY <2>0
  <2> DEFINE old == f[n + 1]
             one == ss[n + 2]
             new == f[n + 2]
  <2>1. good(n + 1)
    <3> HIDE DEF good
    <3> QED
      BY <2>0, <1>3
  <2>2. new = old \o one
    <3>1. n + 2 # 1 /\ (n + 2) - 1 = n + 1
      BY <2>0
    <3> QED
      BY <1>2, <3>1
  <2>3. /\ old \in Seq(S) /\ Len(old) = a + n
        /\ \A i \in 1..a : old[i] = ss[1][i]
        /\ \A j \in 2..(n + 1) : old[a + j - 1] = ss[j][1]
    <3>1. a + (n + 1) - 1 = a + n
      BY <1>4, <2>0
    <3> QED
      BY <2>1, <3>1
  <2>4. one \in Seq(S) /\ Len(one) = 1
    <3>1. n + 2 \in 2..Len(ss)
      BY <1>3, <2>0
    <3> QED
      BY <1>3, <3>1
  <2> HIDE DEF old, one, new, a
  <2>5. /\ new \in Seq(S) /\ Len(new) = a + n + 1
        /\ \A i \in 1..(a + n) : new[i] = old[i]
        /\ new[a + n + 1] = one[1]
    <3>1. /\ old \o one \in Seq(S) /\ Len(old \o one) = Len(old) + Len(one)
          /\ \A i \in 1..(Len(old) + Len(one)) :
               (old \o one)[i] = IF i <= Len(old) THEN old[i] ELSE one[i - Len(old)]
      BY <2>3, <2>4, ConcatProperties
    <3>2. a + n \in Nat /\ a + n + 1 - (a + n) = 1 /\ a + n + 1 \in 1..(a + n + 1)
      BY <1>4, <2>0
    <3>3. \A i \in 1..(a + n) : i \in 1..(a + n + 1) /\ i <= a + n
      BY <3>2
    <3>4. ~(a + n + 1 <= a + n)
      BY <3>2
    <3> QED
      BY <2>2, <2>3, <2>4, <3>1, <3>2, <3>3, <3>4
  <2>6. \A i \in 1..a : new[i] = ss[1][i]
    <3>1. \A i \in 1..a : i \in 1..(a + n)
      BY <1>4, <2>0
    <3> QED
      BY <2>3, <2>5, <3>1
  <2>7. ASSUME NEW j \in 2..(n + 2)
        PROVE  new[a + j - 1] = ss[j][1]
    <3>1. CASE j = n + 2
      <4>1. a + j - 1 = a + n + 1
        BY <1>4, <2>0, <3>1
      <4> QED
        BY <2>5, <3>1, <4>1 DEF one
    <3>2. CASE j # n + 2
      <4>1. j \in 2..(n + 1) /\ a + j - 1 \in 1..(a + n)
        BY <1>4, <2>0, <3>2
      <4> QED
        BY <2>3, <2>5, <4>1
    <3> QED
      BY <3>1, <3>2
  <2>8. Len(new) = a + (n + 2) - 1
    BY <1>4, <2>0, <2>5
  <2> QED
    BY <2>5, <2>6, <2>7, <2>8 DEF new
<1> HIDE DEF N, good, a
<1>7. N = Nat
  BY <1>5, <1>6, InductiveSet DEF N
<1>8. Len(ss) - 1 \in N /\ (Len(ss) - 1) + 1 = Len(ss) /\ Len(ss) \in 1..Len(ss)
  BY <1>3, <1>7
<1>9. good(Len(ss))
  BY <1>8 DEF N
<1>10. FlattenSeq(ss) = f[Len(ss)]
  BY <1>1, FlattenIsRecursion
<1> QED
  BY <1>9, <1>10 DEF good, a

\* t is what follows place h of s.
IsRest(t, s, h) == h \in 1..Len(s) /\ t = SubSeq(s, h + 1, Len(s))

IsShifted(t, s, h) ==
  /\ Len(t) = Len(s) - h
  /\ \A j \in 1..(Len(s) - h) : j + h \in 1..Len(s) /\ t[j] = s[j + h]

\* What follows place h has the elements of s, moved by h.
LEMMA RestIsShifted ==
  ASSUME NEW S, NEW s \in Seq(S), NEW h, NEW t, IsRest(t, s, h)
  PROVE  t \in Seq(S) /\ IsShifted(t, s, h)
<1> DEFINE n == Len(s)
<1>1. n \in Nat /\ h \in Nat /\ h <= n /\ h + 1 \in Int /\ n \in Int
  BY DEF IsRest
<1>2. \A i \in (h + 1)..n : s[i] \in S
  BY <1>1
<1>3. /\ t \in Seq(S) /\ Len(t) = IF h + 1 <= n THEN n - (h + 1) + 1 ELSE 0
      /\ \A i \in 1..(n - (h + 1) + 1) : t[i] = s[(h + 1) + i - 1]
  <2>1. t = SubSeq(s, h + 1, n)
    BY DEF IsRest
  <2> QED
    BY <1>1, <1>2, <2>1, SubSeqProperties
<1> HIDE DEF n
<1>4. n - (h + 1) + 1 = n - h /\ (~(h + 1 <= n) => n - h = 0)
  BY <1>1
<1>5. \A j \in 1..(n - h) : j + h \in 1..n /\ (h + 1) + j - 1 = j + h
  BY <1>1
<1>6. /\ t \in Seq(S) /\ Len(t) = n - h
      /\ \A j \in 1..(n - h) : j + h \in 1..n /\ t[j] = s[j + h]
  BY <1>3, <1>4, <1>5
<1> QED
  BY <1>6 DEF n, IsShifted

\* l begins with the first n parts of p, part c after place a[c], and ends with them.
StartsAt(a, p, n) ==
  /\ \A c \in 1..(n + 1) : a[c] \in Nat
  /\ a[1] = 0
  /\ \A c \in 1..n : a[c + 1] = a[c] + Len(p[c])

IsMadeOf(l, p, a, n) ==
  /\ Len(l) = a[n + 1]
  /\ \A c \in 1..n : \A j \in 1..Len(p[c]) : a[c] + j \in 1..a[n + 1] /\ l[a[c] + j] = p[c][j]
  /\ \A i \in 1..a[n + 1] : \E c \in 1..n : \E j \in 1..Len(p[c]) : i = a[c] + j

\* The first part alone ...
LEMMA FirstPart ==
  ASSUME NEW S, NEW p, p[1] \in Seq(S), NEW a, NEW n \in Nat \ {0}, StartsAt(a, p, n)
  PROVE  IsMadeOf(p[1], p, a, 1)
<1>1. a[1] = 0 /\ a[1 + 1] = a[1] + Len(p[1])
  BY DEF StartsAt
<1>2. Len(p[1]) \in Nat
  OBVIOUS
<1>3. a[1 + 1] = Len(p[1])
  BY <1>1, <1>2
<1>4. \A j \in 1..Len(p[1]) : a[1] + j = j
  BY <1>1
<1>5. \A c \in 1..1 : c = 1
  OBVIOUS
<1>6. \A i \in 1..a[1 + 1] : \E j \in 1..Len(p[1]) : i = a[1] + j
  BY <1>3, <1>4
<1>7. 1 \in 1..1
  OBVIOUS
<1> HIDE <1>1
<1>8. \A c \in 1..1 : \A j \in 1..Len(p[c]) : a[c] + j \in 1..a[1 + 1] /\ p[1][a[c] + j] = p[c][j]
  BY <1>3, <1>4, <1>5
<1>9. \A i \in 1..a[1 + 1] : \E c \in 1..1 : \E j \in 1..Len(p[c]) : i = a[c] + j
  BY <1>6, <1>7
<1> QED
  BY <1>3, <1>8, <1>9 DEF IsMadeOf

\* ... and one more part.
LEMMA NextPart ==
  ASSUME NEW S, NEW l \in Seq(S), NEW p, NEW n \in Nat, NEW k \in Nat, n < k, p[n + 1] \in Seq(S),
         NEW a, StartsAt(a, p, k), IsMadeOf(l, p, a, n)
  PROVE  l \o p[n + 1] \in Seq(S) /\ IsMadeOf(l \o p[n + 1], p, a, n + 1)
<1> DEFINE q == p[n + 1]
           t == l \o q
           x == a[n + 1]
           y == a[(n + 1) + 1]
<1>1. x \in Nat /\ y \in Nat /\ y = x + Len(q) /\ Len(q) \in Nat
  <2>1. n + 1 \in 1..k /\ n + 1 \in 1..(k + 1) /\ (n + 1) + 1 \in 1..(k + 1)
    OBVIOUS
  <2> QED
    BY <2>1 DEF StartsAt
<1>2. /\ Len(l) = x
      /\ \A c \in 1..n : \A j \in 1..Len(p[c]) : a[c] + j \in 1..x /\ l[a[c] + j] = p[c][j]
      /\ \A i \in 1..x : \E c \in 1..n : \E j \in 1..Len(p[c]) : i = a[c] + j
  BY DEF IsMadeOf
<1>3. /\ t \in Seq(S) /\ Len(t) = x + Len(q)
      /\ \A i \in 1..(x + Len(q)) : t[i] = IF i <= x THEN l[i] ELSE q[i - x]
  <2>1. /\ l \o q \in Seq(S) /\ Len(l \o q) = Len(l) + Len(q)
        /\ \A i \in 1..(Len(l) + Len(q)) :
             (l \o q)[i] = IF i <= Len(l) THEN l[i] ELSE q[i - Len(l)]
    BY ConcatProperties
  <2>2. Len(l) = x
    BY <1>2
  <2> HIDE DEF q, x
  <2> QED
    BY <2>1, <2>2
<1> HIDE DEF t, q, x, y
<1>4. \A i \in 1..x : i \in 1..y /\ t[i] = l[i]
  BY <1>1, <1>3
<1>5. \A j \in 1..Len(q) : x + j \in 1..y /\ t[x + j] = q[j]
  BY <1>1, <1>3
<1>6. ASSUME NEW c \in 1..(n + 1), NEW j \in 1..Len(p[c])
      PROVE  a[c] + j \in 1..y /\ t[a[c] + j] = p[c][j]
  <2>1. CASE c = n + 1
    BY <1>5, <2>1 DEF q, x
  <2>2. CASE c # n + 1
    <3>1. c \in 1..n
      BY <2>2
    <3>2. a[c] + j \in 1..x /\ l[a[c] + j] = p[c][j]
      BY <1>2, <3>1
    <3> QED
      BY <1>4, <3>2
  <2> QED
    BY <2>1, <2>2
<1>7. ASSUME NEW i \in 1..y
      PROVE  \E c \in 1..(n + 1) : \E j \in 1..Len(p[c]) : i = a[c] + j
  <2>1. CASE i <= x
    <3>1. i \in 1..x
      BY <1>1, <2>1
    <3>2. PICK c \in 1..n : \E j \in 1..Len(p[c]) : i = a[c] + j
      BY <1>2, <3>1
    <3>3. c \in 1..(n + 1)
      OBVIOUS
    <3> QED
      BY <3>2, <3>3
  <2>2. CASE ~(i <= x)
    <3>1. i - x \in 1..Len(q) /\ i = x + (i - x)
      BY <1>1, <2>2
    <3>2. n + 1 \in 1..(n + 1)
      OBVIOUS
    <3> QED
      BY <3>1, <3>2 DEF q, x
  <2> QED
    BY <2>1, <2>2
<1>8. Len(t) = y
  BY <1>1, <1>3
<1>9. IsMadeOf(t, p, a, n + 1)
  BY <1>6, <1>7, <1>8 DEF IsMadeOf, y
<1> QED
  BY <1>3, <1>9 DEF t, q

\* A part can be cut out again.
LEMMA PartIsCut ==
  ASSUME NEW S, NEW l \in Seq(S), NEW p, NEW a, NEW n \in Nat, StartsAt(a, p, n),
         IsMadeOf(l, p, a, n), NEW c \in 1..n, p[c] \in Seq(S)
  PROVE  SubSeq(l, a[c] + 1, a[c + 1]) = p[c]
<1> DEFINE x == a[c]
           y == a[c + 1]
           t == SubSeq(l, x + 1, y)
<1>1. x \in Nat /\ y \in Nat /\ y = x + Len(p[c]) /\ Len(p[c]) \in Nat
  <2>1. c \in 1..(n + 1) /\ c + 1 \in 1..(n + 1)
    OBVIOUS
  <2> QED
    BY <2>1 DEF StartsAt
<1>2. \A j \in 1..Len(p[c]) : l[x + j] = p[c][j]
  BY DEF IsMadeOf
<1> HIDE DEF x, y
<1>3. \A i \in (x + 1)..y : l[i] \in S
  <2> SUFFICES ASSUME NEW i \in (x + 1)..y
               PROVE  l[i] \in S
    OBVIOUS
  <2>1. i - x \in 1..Len(p[c]) /\ x + (i - x) = i
    BY <1>1
  <2>2. l[i] = p[c][i - x]
    BY <1>2, <2>1
  <2> QED
    BY <2>1, <2>2
<1>4. /\ t \in Seq(S) /\ Len(t) = IF x + 1 <= y THEN y - (x + 1) + 1 ELSE 0
      /\ \A i \in 1..(y - (x + 1) + 1) : t[i] = l[(x + 1) + i - 1]
  <2>1. x + 1 \in Int /\ y \in Int
    BY <1>1
  <2> QED
    BY <1>3, <2>1, SubSeqProperties
<1> HIDE DEF t
<1>5. Len(t) = Len(p[c])
  BY <1>1, <1>4
<1>6. \A i \in 1..Len(t) : t[i] = p[c][i]
  <2>1. \A i \in 1..Len(p[c]) : i \in 1..(y - (x + 1) + 1) /\ (x + 1) + i - 1 = x + i
    BY <1>1
  <2> QED
    BY <1>2, <1>4, <1>5, <2>1
<1>7. t = p[c]
  BY <1>4, <1>5, <1>6, SeqEqual
<1> QED
  BY <1>7 DEF t, x, y

\* The smaller one of two numbers.
LEMMA MinOfTwo ==
  ASSUME NEW m \in Nat, NEW n \in Nat, m <= n
  PROVE  Min({m, n}) = m
<1>1. {m, n} \in SUBSET Nat /\ {m, n} # {}
  OBVIOUS
<1>2. Min({m, n}) \in {m, n} /\ \A y \in {m, n} : Min({m, n}) <= y
  BY <1>1, MinIsLeast
<1> QED
  BY <1>2

\* The same, n times.
Same(t, n, e) == t = [i \in 1..n |-> e]

\* They are a sequence of n.
LEMMA SameIsSequence ==
  ASSUME NEW S, NEW e \in S, NEW n \in Nat, NEW t, Same(t, n, e)
  PROVE  t \in Seq(S) /\ Len(t) = n /\ \A i \in 1..n : t[i] = e
<1>1. t \in [1..n -> S] /\ \A i \in 1..n : t[i] = e
  BY DEF Same
<1> QED
  BY <1>1
\* t begins with s and has only e after it.
GoesOn(t, s, e) ==
  /\ Len(s) <= Len(t)
  /\ \A i \in 1..Len(s) : t[i] = s[i]
  /\ \A i \in 1..Len(t) : i > Len(s) => t[i] = e

\* A sequence and n times e.
LEMMA WithTheSame ==
  ASSUME NEW S, NEW s \in Seq(S), NEW e \in S, NEW n \in Nat, NEW r, Same(r, n, e),
         NEW t, t = s \o r
  PROVE  t \in Seq(S) /\ Len(t) = Len(s) + n /\ GoesOn(t, s, e)
<1>1. r \in Seq(S) /\ Len(r) = n /\ \A i \in 1..n : r[i] = e
  BY SameIsSequence
<1> DEFINE k == Len(s)
<1>2. k \in Nat
  BY LenProperties
<1>3. /\ s \o r \in Seq(S) /\ Len(s \o r) = Len(s) + Len(r)
      /\ \A i \in 1..(Len(s) + Len(r)) :
           (s \o r)[i] = IF i <= Len(s) THEN s[i] ELSE r[i - Len(s)]
  BY <1>1, ConcatProperties
<1>4. /\ t \in Seq(S) /\ Len(t) = k + n
      /\ \A i \in 1..(k + n) : t[i] = IF i <= k THEN s[i] ELSE r[i - k]
  <2>1. Len(r) = n
    BY <1>1
  <2> QED
    BY <1>3, <2>1
<1> HIDE DEF k
<1>5. \A i \in 1..k : t[i] = s[i]
  <2>1. \A i \in 1..k : i \in 1..(k + n) /\ i <= k
    BY <1>2
  <2> QED
    BY <1>4, <2>1
<1>6. ASSUME NEW i \in 1..(k + n), i > k
      PROVE  t[i] = e
  <2>1. ~(i <= k) /\ i - k \in 1..n
    BY <1>2, <1>6
  <2> QED
    BY <1>1, <1>4, <2>1
<1>7. k <= k + n
  BY <1>2
<1>8. GoesOn(t, s, e)
  BY <1>4, <1>5, <1>6, <1>7 DEF GoesOn, k
<1> QED
  BY <1>4, <1>8 DEF k

IsOneMore(t, r, e) == t = r \o <<e>>

IsExtended(t, r, e, n, S) ==
  /\ t \in [1..(n + 1) -> S] /\ t[n + 1] = e
  /\ \A c \in 1..n : t[c] = r[c]

\* A function on 1..n goes on with e.
LEMMA OneMore ==
  ASSUME NEW S, NEW n \in Nat, NEW r \in [1..n -> S], NEW e \in S, NEW t, IsOneMore(t, r, e)
  PROVE  IsExtended(t, r, e, n, S)
<1>1. r \in Seq(S) /\ Len(r) = n
  OBVIOUS
<1>2. PICK q : q = <<e>> /\ t = r \o q
  BY DEF IsOneMore
<1>3. q \in Seq(S) /\ Len(q) = 1 /\ q[1] = e
  BY <1>2
<1>4. /\ r \o q \in Seq(S) /\ Len(r \o q) = Len(r) + Len(q)
      /\ \A i \in 1..(Len(r) + Len(q)) :
           (r \o q)[i] = IF i <= Len(r) THEN r[i] ELSE q[i - Len(r)]
  BY <1>1, <1>3, ConcatProperties
<1>5. /\ t \in Seq(S) /\ Len(t) = n + 1
      /\ \A i \in 1..(n + 1) : t[i] = IF i <= n THEN r[i] ELSE q[i - n]
  BY <1>1, <1>2, <1>3, <1>4
<1>6. /\ \A i \in 1..n : i \in 1..(n + 1) /\ i <= n
      /\ n + 1 \in 1..(n + 1) /\ ~(n + 1 <= n) /\ (n + 1) - n = 1
  OBVIOUS
<1>7. t[n + 1] = e
  BY <1>3, <1>5, <1>6
<1>8. \A c \in 1..n : t[c] = r[c]
  BY <1>5, <1>6
<1>9. t \in [1..(n + 1) -> S]
  BY <1>5, LenProperties
<1> QED
  BY <1>7, <1>8, <1>9 DEF IsExtended

\* Nothing is behind the end.
LEMMA CutBehind ==
  ASSUME NEW S, NEW t \in Seq(S), NEW m \in Nat, m > Len(t)
  PROVE  SubSeq(t, m, Len(t)) = <<>>
  OBVIOUS

\* The head of a concatenation is that of the first that is not empty.
LEMMA HeadOfConcat ==
  ASSUME NEW S, NEW s \in Seq(S), NEW t \in Seq(S)
  PROVE  /\ s # <<>> => Head(s \o t) = s[1]
         /\ s = <<>> /\ t # <<>> => Head(s \o t) = t[1]
  OBVIOUS

\* t is m with two before it and one after.
IsFramed(t, x, y, m, z) == t = <<x, y>> \o m \o <<z>>

\* Where its elements are.
LEMMA FramedElements ==
  ASSUME NEW S, NEW x \in S, NEW y \in S, NEW z \in S, NEW m \in Seq(S), NEW t, IsFramed(t, x, y, m, z)
  PROVE  /\ t \in Seq(S) /\ Len(t) = Len(m) + 3
         /\ t[1] = x /\ t[2] = y /\ t[Len(m) + 3] = z
         /\ \A i \in 1..Len(m) : t[2 + i] = m[i]
<1>1. PICK a, c : a = <<x, y>> /\ c = <<z>> /\ t = (a \o m) \o c
  BY DEF IsFramed
<1>2. a \in Seq(S) /\ Len(a) = 2 /\ a[1] = x /\ a[2] = y
  BY <1>1
<1>3. c \in Seq(S) /\ Len(c) = 1 /\ c[1] = z
  BY <1>1
<1>4. PICK n \in Nat : n = Len(m)
  BY LenProperties
<1>5. PICK b : b = a \o m
  OBVIOUS
<1>6. /\ b \in Seq(S) /\ Len(b) = 2 + n
      /\ \A i \in 1..(2 + n) : b[i] = IF i <= 2 THEN a[i] ELSE m[i - 2]
  <2>1. /\ a \o m \in Seq(S) /\ Len(a \o m) = Len(a) + Len(m)
        /\ \A i \in 1..(Len(a) + Len(m)) : (a \o m)[i] = IF i <= Len(a) THEN a[i] ELSE m[i - Len(a)]
    BY <1>2, ConcatProperties
  <2> QED
    BY <1>2, <1>4, <1>5, <2>1
<1>7. /\ t \in Seq(S) /\ Len(t) = (2 + n) + 1
      /\ \A i \in 1..((2 + n) + 1) : t[i] = IF i <= 2 + n THEN b[i] ELSE c[i - (2 + n)]
  <2>1. /\ b \o c \in Seq(S) /\ Len(b \o c) = Len(b) + Len(c)
        /\ \A i \in 1..(Len(b) + Len(c)) : (b \o c)[i] = IF i <= Len(b) THEN b[i] ELSE c[i - Len(b)]
    BY <1>3, <1>6, ConcatProperties
  <2>2. t = b \o c
    BY <1>1, <1>5
  <2> QED
    BY <1>3, <1>6, <2>1, <2>2
<1>8. /\ 1 \in 1..(2 + n) /\ 2 \in 1..(2 + n) /\ 1 <= 2 /\ 2 <= 2 /\ (2 + n) + 1 = n + 3
      /\ n + 3 \in 1..((2 + n) + 1) /\ ~(n + 3 <= 2 + n) /\ (n + 3) - (2 + n) = 1
  OBVIOUS
<1>9. /\ \A i \in 1..(2 + n) : i \in 1..((2 + n) + 1) /\ i <= 2 + n
      /\ \A i \in 1..n : 2 + i \in 1..(2 + n) /\ ~(2 + i <= 2) /\ (2 + i) - 2 = i
  OBVIOUS
<1>10. \A i \in 1..(2 + n) : t[i] = b[i]
  BY <1>7, <1>9
<1>11. t[1] = x /\ t[2] = y
  BY <1>2, <1>6, <1>8, <1>10
<1>12. t[n + 3] = z
  BY <1>3, <1>7, <1>8
<1>13. \A i \in 1..n : t[2 + i] = m[i]
  BY <1>6, <1>9, <1>10
<1> QED
  BY <1>4, <1>7, <1>8, <1>11, <1>12, <1>13
=============================================================================
