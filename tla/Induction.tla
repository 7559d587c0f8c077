----------------------------- MODULE Induction -----------------------------
(***************************************************************************)
(* Induction over numbers, said of sets instead of predicates: what the    *)
(* proofs about recursive functions, sequences and sorted lists rest on.   *)
(***************************************************************************)
EXTENDS Naturals, FiniteSetTheorems, WellFoundedInduction, TLAPS

\* A bounded set of numbers has a least element: the initial segments that end
\* in it are finite sets, and these are well-founded under inclusion.
LEMMA LeastUpTo ==
  ASSUME NEW n \in Nat, NEW T \in SUBSET (0 .. n), T # {}
  PROVE  \E m \in T : \A k \in T : m <= k
<1> DEFINE Segment(k) == {j \in 0 .. n : j <= k}
           Segments == {U \in SUBSET (0 .. n) : \E k \in T : U = Segment(k)}
<1>1. IsWellFoundedOn(StrictSubsetOrdering(Nat), FiniteSubsetsOf(Nat))
  BY FS_StrictSubsetOrderingWellFounded
<1>2. Segments \subseteq FiniteSubsetsOf(Nat)
  <2> SUFFICES ASSUME NEW U \in Segments
               PROVE  U \in FiniteSubsetsOf(Nat)
    OBVIOUS
  <2>1. IsFiniteSet(0 .. n)
    BY FS_Interval
  <2>2. IsFiniteSet(U)
    BY <2>1, FS_Subset
  <2> QED
    BY <2>2 DEF FiniteSubsetsOf
<1>3. Segments # {}
  <2>1. PICK k \in T : TRUE
    OBVIOUS
  <2> QED
    BY <2>1
<1> HIDE DEF Segments
<1>4. PICK U \in Segments : \A V \in Segments : <<V, U>> \notin StrictSubsetOrdering(Nat)
  BY <1>1, <1>2, <1>3, WFMin
<1>5. PICK m \in T : U = Segment(m)
  BY DEF Segments
<1>6. ASSUME NEW k \in T, k < m
      PROVE  FALSE
  <2>1. Segment(k) \in Segments
    BY DEF Segments
  <2>2. Segment(k) \subseteq U /\ Segment(k) # U
    BY <1>5, <1>6
  <2>3. <<Segment(k), U>> \in StrictSubsetOrdering(Nat)
    BY <1>5, <2>2 DEF StrictSubsetOrdering
  <2> QED
    BY <1>4, <2>1, <2>3
<1> QED
  BY <1>6

\* Every set of numbers that is not empty has a least element.
LEMMA LeastNumber ==
  ASSUME NEW T \in SUBSET Nat, T # {}
  PROVE  \E m \in T : \A k \in T : m <= k
<1>1. PICK n \in T : TRUE
  OBVIOUS
<1>2. T \cap (0 .. n) \in SUBSET (0 .. n) /\ T \cap (0 .. n) # {}
  BY <1>1
<1>3. PICK m \in T \cap (0 .. n) : \A k \in T \cap (0 .. n) : m <= k
  BY <1>2, LeastUpTo
<1> QED
  BY <1>1, <1>3

\* A bounded set of numbers that is not empty has a largest element.
LEMMA LargestNumber ==
  ASSUME NEW n \in Nat, NEW T \in SUBSET (0 .. n), T # {}
  PROVE  \E m \in T : \A k \in T : k <= m
<1> DEFINE Bounds == {b \in Nat : \A k \in T : k <= b}
<1>1. n \in Bounds
  OBVIOUS
<1>2. PICK b \in Bounds : \A c \in Bounds : b <= c
  BY <1>1, LeastNumber
<1>3. CASE b \in T
  BY <1>2, <1>3
<1>4. CASE b \notin T
  <2>1. \A k \in T : k <= b - 1
    BY <1>2, <1>4
  <2>2. PICK k \in T : TRUE
    OBVIOUS
  <2>3. k \in Nat /\ b \in Nat /\ k <= b - 1
    BY <2>1
  <2>4. b - 1 \in Nat
    BY <2>3
  <2> QED
    BY <1>2, <2>1, <2>4
<1> QED
  BY <1>3, <1>4

\* Induction from 0 to n.
LEMMA UpToInduction ==
  ASSUME NEW n \in Nat, NEW S, 0 \in S,
         \A k \in 0 .. n - 1 : k \in S => k + 1 \in S
  PROVE  \A k \in 0 .. n : k \in S
<1> SUFFICES ASSUME (0 .. n) \ S # {}
             PROVE  FALSE
  OBVIOUS
<1>1. PICK m \in (0 .. n) \ S : \A k \in (0 .. n) \ S : m <= k
  BY LeastUpTo
<1>2. m - 1 \in 0 .. n - 1
  BY <1>1
<1>3. m - 1 \in S
  BY <1>1, <1>2
<1> QED
  BY <1>1, <1>2, <1>3

-----------------------------------------------------------------------------

\* R puts the members of T in one order.
IsOrder(R, T) ==
  /\ \A x \in T : <<x, x>> \notin R
  /\ \A x, y \in T : x # y => <<x, y>> \in R \/ <<y, x>> \in R
  /\ \A x, y, z \in T : <<x, y>> \in R /\ <<y, z>> \in R => <<x, z>> \in R

\* A finite set can be written down in order, each member once: at the place
\* that the number of members before it says.
LEMMA SortedEnumeration ==
  ASSUME NEW T, IsFiniteSet(T), NEW R, IsOrder(R, T)
  PROVE  \E s \in Bijection(1 .. Cardinality(T), T) :
           \A i, j \in 1 .. Cardinality(T) : i < j => <<s[i], s[j]>> \in R
<1> DEFINE n == Cardinality(T)
           Below(x) == {y \in T : <<y, x>> \in R}
           rank == [x \in T |-> Cardinality(Below(x)) + 1]
<1>1. n \in Nat
  BY FS_CardinalityType
<1>2. ASSUME NEW x \in T
      PROVE  IsFiniteSet(Below(x)) /\ Cardinality(Below(x)) \in Nat /\ rank[x] \in 1 .. n
  <2>1. Below(x) \in SUBSET (T \ {x})
    BY DEF IsOrder
  <2>2. IsFiniteSet(T \ {x}) /\ Cardinality(T \ {x}) = n - 1
    BY FS_RemoveElement
  <2>3. IsFiniteSet(Below(x)) /\ Cardinality(Below(x)) <= n - 1
    BY <2>1, <2>2, FS_Subset
  <2>4. Cardinality(Below(x)) \in Nat
    BY <2>3, FS_CardinalityType
  <2> HIDE DEF Below
  <2> QED
    BY <1>1, <2>3, <2>4
<1>3. ASSUME NEW x \in T, NEW y \in T, <<x, y>> \in R
      PROVE  rank[x] < rank[y]
  <2>1. Below(x) \in SUBSET Below(y) /\ x \in Below(y) /\ x \notin Below(x)
    BY <1>3 DEF IsOrder
  <2> HIDE DEF Below
  <2>2. Cardinality(Below(x)) <= Cardinality(Below(y)) /\ Cardinality(Below(x)) # Cardinality(Below(y))
    BY <1>2, <2>1, FS_Subset
  <2> QED
    BY <1>2, <2>2
<1>4. rank \in [T -> 1 .. n]
  BY <1>2
<1> HIDE DEF rank
<1>5. \A x, y \in T : rank[x] = rank[y] => x = y
  <2> SUFFICES ASSUME NEW x \in T, NEW y \in T, rank[x] = rank[y], x # y
               PROVE  FALSE
    OBVIOUS
  <2>1. rank[x] \in 1 .. n /\ rank[y] \in 1 .. n
    BY <1>4
  <2>2. rank[x] < rank[y] \/ rank[y] < rank[x]
    BY <1>3 DEF IsOrder
  <2> QED
    BY <1>1, <2>1, <2>2
<1>6. rank \in Injection(T, 1 .. n)
  BY <1>4, <1>5 DEF Injection, IsInjective
<1>7. IsFiniteSet(1 .. n) /\ Cardinality(1 .. n) = n
  BY <1>1, FS_Interval
<1>8. rank \in Surjection(T, 1 .. n)
  BY <1>6, <1>7, FS_Injection
<1> DEFINE s == [i \in 1 .. n |-> CHOOSE x \in T : rank[x] = i]
<1>9. \A i \in 1 .. n : s[i] \in T /\ rank[s[i]] = i
  BY <1>8 DEF Surjection
<1>10. s \in [1 .. n -> T]
  BY <1>9
<1> HIDE DEF s
<1>11. \A i, j \in 1 .. n : s[i] = s[j] => i = j
  BY <1>9
<1>12. \A x \in T : s[rank[x]] = x
  BY <1>4, <1>5, <1>9
<1>13. s \in Bijection(1 .. n, T)
  BY <1>4, <1>10, <1>11, <1>12 DEF Bijection, Injection, IsInjective, Surjection
<1>14. ASSUME NEW i \in 1 .. n, NEW j \in 1 .. n, i < j
       PROVE  <<s[i], s[j]>> \in R
  <2>1. s[i] # s[j] /\ s[i] \in T /\ s[j] \in T
    BY <1>9, <1>11, <1>14
  <2>2. <<s[j], s[i]>> \notin R
    BY <1>3, <1>9, <1>14, <2>1
  <2> QED
    BY <2>1, <2>2 DEF IsOrder
<1> QED
  BY <1>13, <1>14

\* What stands at n places, each time something else, has n members.
LEMMA CountPlaces ==
  ASSUME NEW n \in Nat, NEW L, NEW f \in [1 .. n -> L],
         \A i, j \in 1 .. n : f[i] = f[j] => i = j,
         \A x \in L : \E i \in 1 .. n : f[i] = x
  PROVE  IsFiniteSet(L) /\ Cardinality(L) = n
<1>1. f \in Surjection(1 .. n, L) /\ f \in Injection(1 .. n, L)
  BY DEF Surjection, Injection, IsInjective
<1>2. IsFiniteSet(1 .. n) /\ Cardinality(1 .. n) = n
  BY FS_Interval
<1> QED
  BY <1>1, <1>2, FS_Surjection
=============================================================================
