----------------------------- MODULE NumberSets -----------------------------
(***************************************************************************)
(* Facts about finite sets of natural numbers that the proofs about the    *)
(* configuration and about descriptors rest on: a least and a greatest     *)
(* element, the k lowest elements, and the elements in increasing order.   *)
(* Each is an induction, done by way of a least counterexample.            *)
(***************************************************************************)
EXTENDS FiniteSetsExt, FiniteSetTheorems, SequenceTheorems, TLAPS

LEMMA LeastNat ==
    ASSUME NEW T \in SUBSET Nat, T # {}
    PROVE  \E x \in T : \A y \in T : x <= y
<1>. DEFINE R == {ss \in Nat \X Nat : ss[1] < ss[2]}
<1>1. IsWellFoundedOn(R, Nat)
  BY NatLessThanWellFounded DEF OpToRel
<1>. HIDE DEF R
<1>2. PICK x \in T : \A y \in T : ~(<<y, x>> \in R)
  BY <1>1, WFMin
<1>3. \A y \in T : ~(y < x)
  BY <1>2 DEF R
<1>. QED  BY <1>3

LEMMA MaxOfIndices ==
    ASSUME NEW n \in Nat, NEW s \in SUBSET (1 .. n), s # {}
    PROVE  Max(s) \in s /\ \A y \in s : y <= Max(s)
<1>. DEFINE T == {k \in Nat : \A y \in s : y <= k}
<1>1. n \in T
  OBVIOUS
<1>2. PICK x \in T : \A y \in T : x <= y
  BY <1>1, LeastNat
<1>3. x \in s
  <2>. SUFFICES ASSUME x \notin s PROVE FALSE
    OBVIOUS
  <2>1. \A y \in s : y <= x - 1
    BY <1>2
  <2>2. x - 1 \in Nat
    <3>1. PICK y \in s : y \in 1 .. n
      OBVIOUS
    <3>. QED  BY <2>1, <3>1
  <2>. QED  BY <1>2, <2>1, <2>2
<1>4. \A y \in s : x >= y
  BY <1>2
<1>5. Max(s) \in s /\ \A y \in s : Max(s) >= y
  BY <1>3, <1>4 DEF Max
<1>. QED  BY <1>5

LEMMA UpTo ==
    ASSUME NEW n \in Nat
    PROVE  IsFiniteSet(1 .. n) /\ Cardinality(1 .. n) = n
BY FS_Interval

LEMMA PartsFinite ==
    ASSUME NEW n \in Nat, NEW S \in SUBSET (1 .. n)
    PROVE  IsFiniteSet(S) /\ Cardinality(S) \in Nat /\ Cardinality(S) <= n
<1>1. IsFiniteSet(1 .. n) /\ Cardinality(1 .. n) = n
  BY FS_Interval
<1>. QED  BY <1>1, FS_Subset, FS_CardinalityType

\* F is the k lowest elements of S.
AreLowest(F, S, k) ==
    /\ F \in SUBSET S
    /\ Cardinality(F) = k
    /\ \A f \in F, g \in S \ F : f < g

\* A set has the k lowest of its elements, if it has that many.
LEMMA LowestNumbers ==
    ASSUME NEW n \in Nat, NEW S \in SUBSET (1 .. n),
           NEW k \in Nat, k <= Cardinality(S)
    PROVE  \E F : AreLowest(F, S, k)
<1>. DEFINE Has(j) == \E F : AreLowest(F, S, j)
            T == {j \in Nat : j <= Cardinality(S) /\ ~Has(j)}
<1>. SUFFICES ASSUME T # {} PROVE FALSE
  OBVIOUS
<1>1. PICK j \in T : \A m \in T : j <= m
  <2>1. T \in SUBSET Nat
    OBVIOUS
  <2>. HIDE DEF T
  <2>. QED  BY <2>1, LeastNat
<1>2. Has(0)
  BY FS_EmptySet DEF AreLowest
<1>3. j \in Nat /\ j # 0 /\ j <= Cardinality(S) /\ ~Has(j)
  <2>. HIDE DEF Has
  <2>. QED  BY <1>2
<1>4. Has(j - 1)
  <2>. HIDE DEF Has
  <2>1. j - 1 \in Nat /\ j - 1 <= Cardinality(S) /\ ~(j <= j - 1)
    BY <1>3, PartsFinite
  <2>. QED  BY <1>1, <2>1
<1>5. PICK F \in SUBSET S : /\ Cardinality(F) = j - 1
                            /\ \A f \in F, g \in S \ F : f < g
  BY <1>4 DEF AreLowest
<1>6. IsFiniteSet(F) /\ S # F /\ S \ F \in SUBSET Nat
  <2>1. F \in SUBSET (1 .. n) /\ S \ F \in SUBSET Nat
    OBVIOUS
  <2>2. Cardinality(S) # Cardinality(F)
    BY <1>3, <1>5
  <2>. QED  BY <2>1, <2>2, PartsFinite
<1>7. PICK m \in S \ F : \A g \in S \ F : m <= g
  <2>1. S \ F # {}
    BY <1>6
  <2>. QED  BY <1>6, <2>1, LeastNat
<1>8. Cardinality(F \cup {m}) = j
  <2>1. Cardinality(F \cup {m}) = Cardinality(F) + 1
    BY <1>6, <1>7, FS_AddElement
  <2>. QED  BY <1>3, <1>5, <2>1
<1>9. \A f \in F \cup {m}, g \in S \ (F \cup {m}) : f < g
  <2>1. \A g \in S \ (F \cup {m}) : m < g
    BY <1>6, <1>7
  <2>. QED  BY <1>5, <2>1
<1>. QED  BY <1>3, <1>8, <1>9 DEF AreLowest

\* The increasing lists of k elements of F.
Increasing(F, k) ==
    {s \in [1 .. k -> F] : \A i, j \in 1 .. k : i < j => s[i] < s[j]}

\* A set has all its elements in increasing order.
LEMMA InOrder ==
    ASSUME NEW n \in Nat, NEW F \in SUBSET (1 .. n)
    PROVE  Increasing(F, Cardinality(F)) # {}
<1>. DEFINE Ordered(G) == Increasing(G, Cardinality(G)) # {}
            T == {k \in Nat : \E G \in SUBSET (1 .. n) :
                                 Cardinality(G) = k /\ ~Ordered(G)}
<1>. SUFFICES ASSUME ~Ordered(F) PROVE FALSE
  OBVIOUS
<1>. HIDE DEF Ordered, Increasing
<1>1. Cardinality(F) \in T
  BY PartsFinite
<1>2. PICK k \in T : \A m \in T : k <= m
  <2>1. T \in SUBSET Nat
    OBVIOUS
  <2>. HIDE DEF T
  <2>. QED  BY <1>1, <2>1, LeastNat
<1>3. PICK G \in SUBSET (1 .. n) : Cardinality(G) = k /\ ~Ordered(G)
  OBVIOUS
<1>4. IsFiniteSet(G) /\ k \in Nat
  BY <1>3, PartsFinite
<1>5. G # {}
  <2>. SUFFICES ASSUME G = {} PROVE FALSE
    OBVIOUS
  <2>1. Cardinality(G) = 0
    BY FS_EmptySet
  <2>2. [i \in 1 .. 0 |-> i] \in [1 .. 0 -> G]
    OBVIOUS
  <2>3. Ordered(G)
    BY <2>1, <2>2 DEF Ordered, Increasing
  <2>. QED  BY <1>3, <2>3
<1>6. Max(G) \in G /\ \A g \in G : g <= Max(G)
  BY <1>5, MaxOfIndices
<1>. DEFINE m == Max(G)
            H == G \ {m}
<1>7. H \in SUBSET (1 .. n) /\ Cardinality(H) = k - 1 /\ k - 1 \in Nat
  <2>1. Cardinality(H) = k - 1
    BY <1>3, <1>4, <1>6, FS_RemoveElement
  <2>. QED  BY <2>1, PartsFinite
<1>8. Ordered(H)
  <2>. HIDE DEF H
  <2>1. k - 1 \notin T
    BY <1>2, <1>4
  <2>. QED  BY <1>7, <2>1
<1>9. PICK s \in [1 .. k - 1 -> H] : \A i, j \in 1 .. k - 1 : i < j => s[i] < s[j]
  BY <1>7, <1>8 DEF Ordered, Increasing
<1>. DEFINE t == [i \in 1 .. k |-> IF i = k THEN m ELSE s[i]]
<1>10. \A i \in 1 .. k : i # k => i \in 1 .. k - 1 /\ s[i] \in H
  BY <1>4, <1>9
<1>11. t \in [1 .. k -> G]
  BY <1>6, <1>10
<1>12. \A h \in H : h < m
  <2>1. G \subseteq Nat
    OBVIOUS
  <2>2. m \in Nat /\ \A h \in H : h \in Nat /\ h <= m /\ h # m
    BY <1>6, <2>1
  <2>. QED  BY <2>2
<1>13. ASSUME NEW i \in 1 .. k, NEW j \in 1 .. k, i < j
       PROVE  t[i] < t[j]
  <2>1. i # k
    BY <1>4, <1>13
  <2>2. t[i] = s[i] /\ i \in 1 .. k - 1 /\ s[i] \in H
    BY <1>10, <2>1
  <2>3. CASE j = k
    BY <1>12, <2>2, <2>3
  <2>4. CASE j # k
    BY <1>9, <1>10, <1>13, <2>2, <2>4
  <2>. QED  BY <2>3, <2>4
<1>14. Ordered(G)
  <2>. HIDE DEF t
  <2>. QED  BY <1>3, <1>11, <1>13 DEF Ordered, Increasing
<1>. QED  BY <1>3, <1>14

\* An increasing list as long as the set has all of it.
LEMMA OrderCovers ==
    ASSUME NEW n \in Nat, NEW F \in SUBSET (1 .. n), NEW k, k = Cardinality(F),
           NEW s \in Increasing(F, k)
    PROVE  s \in Bijection(1 .. k, F)
<1>1. IsFiniteSet(F) /\ k \in Nat
  BY PartsFinite
<1>2. \A i, j \in 1 .. k : s[i] = s[j] => i = j
  <2>0. F \subseteq Nat
    OBVIOUS
  <2>1. \A i \in 1 .. k : s[i] \in Nat
    BY <2>0 DEF Increasing
  <2>2. \A i, j \in 1 .. k : i < j \/ j < i \/ i = j
    BY <1>1
  <2>. QED  BY <2>1, <2>2 DEF Increasing
<1>3. s \in Injection(1 .. k, F)
  BY <1>2 DEF Increasing, Injection, IsInjective
<1>4. Cardinality(1 .. k) = k
  BY <1>1, FS_Interval
<1>5. s \in Surjection(1 .. k, F)
  BY <1>1, <1>3, <1>4, FS_Injection
<1>. QED  BY <1>3, <1>5 DEF Bijection
=============================================================================
