---------------------------- MODULE OrderProofs ----------------------------
(***************************************************************************)
(* What a list made of a finite set holds, for every set and strict order, *)
(* and the least element of a set of naturals.  Counting is enough: no     *)
(* two elements have the same number of elements before them, so these     *)
(* numbers are all those below the size of the set.                        *)
(***************************************************************************)
EXTENDS Orders, FiniteSetTheorems, WellFoundedInduction, TLAPS

\* R puts any two elements of S one before the other, never both.
StrictOrder(S, R) ==
    /\ \A x \in S : <<x, x>> \notin R
    /\ \A x, y \in S : x # y => <<x, y>> \in R \/ <<y, x>> \in R
    /\ \A x, y, z \in S : <<x, y>> \in R /\ <<y, z>> \in R => <<x, z>> \in R

\* A set of naturals that is not empty has a least element.
LEMMA LeastNat ==
    ASSUME NEW S \in SUBSET Nat, S # {}
    PROVE  \E x \in S : \A y \in S : x <= y
<1> DEFINE R == OpToRel(<, Nat)
<1>1. PICK x \in S : \A y \in S : ~(<<y, x>> \in R)
  BY NatLessThanWellFounded, WFMin, Zenon
<1>2. \A a, b \in Nat : <<a, b>> \in R <=> a < b
  BY Zenon DEF OpToRel
<1> HIDE DEF R
<1>3. \A y \in S : ~(y < x)
  BY <1>1, <1>2, Zenon
<1> QED
  BY <1>3

\* An element has more before it than any element before it has.
LEMMA RankGrows ==
    ASSUME NEW S, IsFiniteSet(S), NEW R, StrictOrder(S, R),
           NEW x \in S, NEW y \in S, <<x, y>> \in R
    PROVE  Cardinality({z \in S : <<z, x>> \in R}) < Cardinality({z \in S : <<z, y>> \in R})
<1> DEFINE X == {z \in S : <<z, x>> \in R}
           Y == {z \in S : <<z, y>> \in R}
<1>1. X \in SUBSET Y /\ x \in Y /\ x \notin X
  BY DEF StrictOrder
<1>2. IsFiniteSet(Y) /\ Cardinality(Y) \in Nat
  BY FS_Subset, FS_CardinalityType, Y \in SUBSET S
<1> HIDE DEF X, Y
<1>3. IsFiniteSet(X) /\ Cardinality(X) <= Cardinality(Y) /\ (Cardinality(Y) = Cardinality(X) => Y = X)
  BY <1>1, <1>2, FS_Subset
<1>4. Cardinality(X) \in Nat
  BY <1>3, FS_CardinalityType
<1>5. Cardinality(X) < Cardinality(Y)
  BY <1>1, <1>2, <1>3, <1>4
<1> QED
  BY <1>5 DEF X, Y

\* The list holds every element of the set once, in the order.
LEMMA InOrderIs ==
    ASSUME NEW S, IsFiniteSet(S), NEW R, StrictOrder(S, R)
    PROVE  /\ Cardinality(S) \in Nat
           /\ InOrder(S, R) \in [1..Cardinality(S) -> S]
           /\ \A i, j \in 1..Cardinality(S) : i < j => <<InOrder(S, R)[i], InOrder(S, R)[j]>> \in R
           /\ \A x \in S : \E i \in 1..Cardinality(S) : InOrder(S, R)[i] = x
<1> DEFINE n == Cardinality(S)
           rank == [x \in S |-> Cardinality({y \in S : <<y, x>> \in R})]
           f == InOrder(S, R)
<1>1. n \in Nat
  BY FS_CardinalityType
<1>2. \A x \in S : rank[x] \in Nat /\ rank[x] < n
  <2> TAKE x \in S
  <2> DEFINE X == {y \in S : <<y, x>> \in R}
  <2>1. X \in SUBSET S /\ x \notin X
    BY DEF StrictOrder
  <2> HIDE DEF X
  <2>2. IsFiniteSet(X) /\ Cardinality(X) <= n /\ (n = Cardinality(X) => S = X)
    BY <2>1, FS_Subset
  <2>3. Cardinality(X) \in Nat
    BY <2>2, FS_CardinalityType
  <2>4. Cardinality(X) < n
    BY <1>1, <2>1, <2>2, <2>3
  <2> QED
    BY <2>3, <2>4 DEF X
<1>3. \A x, y \in S : <<x, y>> \in R => rank[x] < rank[y]
  BY RankGrows
<1> HIDE DEF rank
<1>4. rank \in [S -> 0..(n - 1)]
  BY <1>1, <1>2 DEF rank
<1>5. ASSUME NEW x \in S, NEW y \in S, rank[x] = rank[y] PROVE x = y
  <2>1. <<x, y>> \notin R /\ <<y, x>> \notin R
    <3>1. rank[x] \in Nat /\ rank[y] \in Nat
      BY <1>2
    <3>2. ~(rank[x] < rank[y]) /\ ~(rank[y] < rank[x])
      BY <1>5, <3>1
    <3> QED
      BY <1>3, <3>2, Zenon
  <2> QED
    BY <2>1, Zenon DEF StrictOrder
<1>6. rank \in Surjection(S, 0..(n - 1))
  <2>1. rank \in Injection(S, 0..(n - 1))
    BY <1>4, <1>5 DEF Injection, IsInjective
  <2>2. IsFiniteSet(0..(n - 1)) /\ Cardinality(0..(n - 1)) = n
    BY <1>1, FS_Interval
  <2> QED
    BY <2>1, <2>2, FS_Injection
<1>7. \A i \in 1..n : f[i] \in S /\ rank[f[i]] = i - 1
  <2> TAKE i \in 1..n
  <2>1. i - 1 \in 0..(n - 1)
    BY <1>1
  <2>2. \E x \in S : rank[x] = i - 1
    BY <1>6, <2>1 DEF Surjection
  <2>3. f[i] = CHOOSE x \in S : rank[x] = i - 1
    BY DEF InOrder, rank
  <2> QED
    BY <2>2, <2>3
<1>8. f \in [1..n -> S]
  BY <1>7 DEF InOrder
<1> HIDE DEF f
<1>9. ASSUME NEW i \in 1..n, NEW j \in 1..n, i < j PROVE <<f[i], f[j]>> \in R
  <2>1. f[i] \in S /\ f[j] \in S /\ rank[f[i]] < rank[f[j]]
    BY <1>1, <1>7, <1>9
  <2>2. f[i] # f[j] /\ <<f[j], f[i]>> \notin R
    <3>1. rank[f[i]] \in Nat /\ rank[f[j]] \in Nat
      BY <1>2, <2>1
    <3>2. ~(rank[f[j]] < rank[f[i]]) /\ rank[f[i]] # rank[f[j]]
      BY <2>1, <3>1
    <3> QED
      BY <1>3, <2>1, <3>2, Zenon
  <2> QED
    BY <2>1, <2>2, Zenon DEF StrictOrder
<1>10. ASSUME NEW x \in S PROVE \E i \in 1..n : f[i] = x
  <2>1. rank[x] + 1 \in 1..n /\ rank[x] + 1 - 1 = rank[x]
    BY <1>1, <1>2
  <2> QED
    BY <1>2, <1>5, <1>7, <2>1
<1> QED
  BY <1>1, <1>8, <1>9, <1>10 DEF f

\* The numbers of a finite set, smaller ones first.
LEMMA AscendingIs ==
    ASSUME NEW S \in SUBSET Int, IsFiniteSet(S)
    PROVE  /\ Cardinality(S) \in Nat
           /\ Ascending(S) \in [1..Cardinality(S) -> S]
           /\ \A i, j \in 1..Cardinality(S) : i < j => Ascending(S)[i] < Ascending(S)[j]
           /\ \A x \in S : \E i \in 1..Cardinality(S) : Ascending(S)[i] = x
<1> DEFINE R == {p \in S \X S : p[1] < p[2]}
<1>1. \A x, y \in S : <<x, y>> \in R <=> x < y
  OBVIOUS
<1> HIDE DEF R
<1>2. StrictOrder(S, R)
  BY <1>1 DEF StrictOrder
<1>3. Ascending(S) = InOrder(S, R)
  BY DEF Ascending, R
<1> DEFINE n == Cardinality(S)
           f == InOrder(S, R)
<1>4. /\ n \in Nat /\ f \in [1..n -> S]
      /\ \A i, j \in 1..n : i < j => <<f[i], f[j]>> \in R
      /\ \A x \in S : \E i \in 1..n : f[i] = x
  BY <1>2, InOrderIs
<1> HIDE DEF f, n
<1>5. \A i, j \in 1..n : i < j => f[i] < f[j]
  BY <1>1, <1>4
<1>6. Ascending(S) = f
  BY <1>3 DEF f
<1> QED
  BY <1>4, <1>5, <1>6 DEF n
===========================================================================
