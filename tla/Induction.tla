------------------------------ MODULE Induction ------------------------------
(***************************************************************************)
(* Facts about numbers, recursive functions and finite sets which the      *)
(* proofs about the components share.  What is computed by recursion over  *)
(* 0..n is proved by taking the least place where it fails.                *)
(***************************************************************************)
EXTENDS Naturals, Sequences, FiniteSets, SequencesExt, FiniteSetTheorems, SequenceTheorems,
        WellFoundedInduction, TLAPS

\* A set of naturals that is not empty has a least element.
LEMMA LeastNat ==
  ASSUME NEW T \in SUBSET Nat, T # {}
  PROVE  \E m \in T : \A k \in T : m <= k
<1>1. \E m \in T : \A k \in T : <<k, m>> \notin OpToRel(<, Nat)
  BY NatLessThanWellFounded, WFMin, Zenon
<1>2. PICK m \in T : \A k \in T : <<k, m>> \notin OpToRel(<, Nat)
  BY <1>1, Zenon
<1>3. ASSUME NEW k \in T PROVE ~(k < m)
  BY <1>2, Zenon DEF OpToRel
<1> QED BY <1>3

\* Min of such a set is that element.
LEMMA LeastOf ==
  ASSUME NEW S \in SUBSET Nat, S # {}
  PROVE  Min(S) \in S /\ \A k \in S : Min(S) <= k
<1>1. PICK m \in S : \A k \in S : m <= k
  BY LeastNat
<1> QED BY <1>1 DEF Min

\* The least of two numbers.
LEMMA MinOfTwo ==
  ASSUME NEW a \in Nat, NEW b \in Nat
  PROVE  Min({a, b}) = IF a <= b THEN a ELSE b
<1> DEFINE m == IF a <= b THEN a ELSE b
<1>1. m \in {a, b} /\ \A y \in {a, b} : m <= y
  OBVIOUS
<1>2. \A x \in {a, b} : (\A y \in {a, b} : x <= y) => x = m
  OBVIOUS
<1> QED
  BY <1>1, <1>2 DEF Min

\* A set that has 0, and with each number below n the next one, has 0..n.
LEMMA Climb ==
  ASSUME NEW n \in Nat, NEW S, 0 \in S, \A k \in 0..(n - 1) : k \in S => k + 1 \in S
  PROVE  0..n \subseteq S
<1> DEFINE T == {k \in 0..n : k \notin S}
<1> SUFFICES ASSUME T # {} PROVE FALSE
  OBVIOUS
<1>1. PICK m \in T : \A k \in T : m <= k
  <2>1. T \in SUBSET Nat
    OBVIOUS
  <2> HIDE DEF T
  <2> QED BY <2>1, LeastNat
<1>2. m # 0 /\ m - 1 \in 0..(n - 1) /\ m - 1 \in S
  BY <1>1
<1>3. (m - 1) + 1 \in S
  BY <1>2
<1> QED BY <1>1, <1>3

\* f starts at base, and takes the step at each of the places 1..n.
Recursive(f, n, X, base, step) ==
  /\ f \in [0..n -> X] /\ f[0] = base
  /\ \A k \in 1..n : f[k] = step[k][f[k - 1]]

\* There is a function that does: what a recursive definition over 0..n means.
LEMMA Recursion ==
  ASSUME NEW n \in Nat, NEW X, NEW base \in X, NEW step \in [1..n -> [X -> X]]
  PROVE  \E f : Recursive(f, n, X, base, step)
<1> DEFINE Good(m, f) == /\ f \in [0..m -> X] /\ f[0] = base
                         /\ \A k \in 1..m : f[k] = step[k][f[k - 1]]
           S == {m \in 0..n : \E f : Good(m, f)}
<1>1. 0 \in S
  <2> DEFINE g == [k \in 0..0 |-> base]
  <2>1. g \in [0..0 -> X] /\ g[0] = base /\ \A k \in 1..0 : FALSE
    OBVIOUS
  <2> HIDE DEF g
  <2>2. Good(0, g)
    BY <2>1
  <2> QED BY <2>2
<1>2. ASSUME NEW m \in 0..(n - 1), m \in S PROVE m + 1 \in S
  <2>1. PICK f : Good(m, f)
    BY <1>2
  <2> DEFINE g == [k \in 0..(m + 1) |-> IF k = m + 1 THEN step[m + 1][f[m]] ELSE f[k]]
  <2>2. f[m] \in X /\ m + 1 \in 1..n
    BY <2>1
  <2>3. step[m + 1] \in [X -> X]
    BY <2>2
  <2>4. step[m + 1][f[m]] \in X
    BY <2>2, <2>3
  <2>5. Good(m + 1, g)
    <3>1. g \in [0..(m + 1) -> X]
      BY <2>1, <2>4
    <3>2. g[0] = base
      BY <2>1
    <3>3. ASSUME NEW k \in 1..(m + 1) PROVE g[k] = step[k][g[k - 1]]
      <4>1. CASE k = m + 1
        <5>1. g[m + 1] = step[m + 1][f[m]] /\ g[m] = f[m] /\ k - 1 = m
          BY <4>1
        <5> QED BY <4>1, <5>1
      <4>2. CASE k # m + 1
        <5>1. k \in 1..m /\ g[k] = f[k] /\ g[k - 1] = f[k - 1]
          BY <4>2
        <5> QED BY <2>1, <5>1
      <4> QED BY <4>1, <4>2
    <3> HIDE DEF g
    <3> QED BY <3>1, <3>2, <3>3
  <2>6. m + 1 \in 0..n
    OBVIOUS
  <2> HIDE DEF g
  <2> QED BY <2>5, <2>6
<1>3. 0..n \subseteq S
  <2> HIDE DEF S
  <2> QED BY <1>1, <1>2, Climb
<1>4. n \in S
  BY <1>3
<1> QED BY <1>4 DEF Recursive

\* One more place to count.
LEMMA OneMore ==
  ASSUME NEW P, NEW k \in Nat \ {0}
  PROVE  /\ IsFiniteSet(1..k \cap P) /\ Cardinality(1..k \cap P) \in Nat
         /\ Cardinality(1..k \cap P)
              = Cardinality(1..(k - 1) \cap P) + (IF k \in P THEN 1 ELSE 0)
<1> DEFINE A == 1..(k - 1) \cap P
           B == 1..k \cap P
<1>1. IsFiniteSet(1..(k - 1)) /\ IsFiniteSet(1..k)
  BY FS_Interval
<1>2. A \in SUBSET (1..(k - 1)) /\ B \in SUBSET (1..k) /\ k \notin A
  OBVIOUS
<1>3. B = IF k \in P THEN A \cup {k} ELSE A
  OBVIOUS
<1> HIDE DEF A, B
<1>4. IsFiniteSet(A) /\ IsFiniteSet(B)
  BY ONLY <1>1, <1>2, FS_Subset
<1>5. Cardinality(A) \in Nat /\ Cardinality(B) \in Nat
  BY ONLY <1>4, FS_CardinalityType
<1>6. Cardinality(A \cup {k}) = Cardinality(A) + 1
  BY ONLY <1>2, <1>4, FS_AddElement
<1>7. Cardinality(B) = Cardinality(A) + (IF k \in P THEN 1 ELSE 0)
  BY <1>3, <1>5, <1>6
<1> QED BY <1>4, <1>5, <1>7 DEF A, B

\* A set and its image under a function that keeps its elements apart.
LEMMA SameSize ==
  ASSUME NEW S, NEW T, IsFiniteSet(S), NEW f \in [S -> T],
         \A a, b \in S : f[a] = f[b] => a = b,
         \A t \in T : \E s \in S : f[s] = t
  PROVE  IsFiniteSet(T) /\ Cardinality(T) = Cardinality(S)
<1>1. f \in Bijection(S, T)
  BY Zenon DEF Bijection, Injection, Surjection, IsInjective
<1> QED BY <1>1, FS_Bijection DEF ExistsBijection

\* Two sets that are apart.
LEMMA Apart ==
  ASSUME NEW S, NEW T, IsFiniteSet(S), IsFiniteSet(T), S \cap T = {}
  PROVE  /\ IsFiniteSet(S \cup T) /\ Cardinality(S \cup T) = Cardinality(S) + Cardinality(T)
<1>1. /\ IsFiniteSet(S \cup T)
      /\ Cardinality(S \cup T) = Cardinality(S) + Cardinality(T) - Cardinality(S \cap T)
  BY FS_Union
<1>2. Cardinality(S \cap T) = 0 /\ Cardinality(S) \in Nat /\ Cardinality(T) \in Nat
  BY FS_EmptySet, FS_CardinalityType
<1> QED BY <1>1, <1>2

\* A set that can be laid into another without overlap is no larger.
LEMMA NoLarger ==
  ASSUME NEW S, NEW T, IsFiniteSet(T), NEW f \in [S -> T],
         \A a, b \in S : f[a] = f[b] => a = b
  PROVE  IsFiniteSet(S) /\ Cardinality(S) <= Cardinality(T)
<1>1. f \in Injection(S, T)
  BY Zenon DEF Injection, IsInjective
<1> QED BY <1>1, FS_Injection

\* A finite set listed as a sequence has each of its elements, once.
LEMMA InSequence ==
  ASSUME NEW S, IsFiniteSet(S), NEW order, order = SetToSeq(S)
  PROVE  /\ Cardinality(S) \in Nat /\ Len(order) = Cardinality(S)
         /\ order \in [1..Cardinality(S) -> S]
         /\ \A i, j \in 1..Cardinality(S) : order[i] = order[j] => i = j
         /\ \A x \in S : \E i \in 1..Cardinality(S) : order[i] = x
<1> DEFINE n == Cardinality(S)
<1>1. n \in Nat /\ ExistsBijection(1..n, S)
  BY FS_CardinalityType
<1>2. PICK f : f \in Bijection(1..n, S)
  BY <1>1 DEF ExistsBijection
<1> HIDE DEF n
<1>3. f \in [1..n -> S] /\ IsInjective(f)
  BY <1>2 DEF Bijection, Injection
<1>4. order = CHOOSE g \in [1..n -> S] : IsInjective(g)
  BY DEF SetToSeq, n
<1>5. order \in [1..n -> S] /\ IsInjective(order)
  BY <1>3, <1>4
<1>6. order \in Injection(1..n, S)
  BY <1>5 DEF Injection
<1>7. IsFiniteSet(1..n) /\ Cardinality(1..n) = n
  BY <1>1, FS_Interval
<1>8. order \in Surjection(1..n, S)
  BY <1>1, <1>6, <1>7, FS_Injection DEF n
<1>9. Len(order) = n
  BY <1>1, <1>5
<1>10. \A i, j \in 1..n : order[i] = order[j] => i = j
  <2>1. DOMAIN order = 1..n
    BY <1>5
  <2> QED BY <1>5, <2>1, Zenon DEF IsInjective
<1>11. \A x \in S : \E i \in 1..n : order[i] = x
  BY <1>8 DEF Surjection
<1> QED BY <1>1, <1>5, <1>9, <1>10, <1>11 DEF n
=============================================================================
