----------------------------- MODULE FiniteOrders -----------------------------
(***************************************************************************)
(* Facts about finite sets and orders that the proofs of the other modules *)
(* cite: a finite set has minimal elements, a finite set of integers has a *)
(* largest one, a set that holds 0 and is closed under +1 holds every      *)
(* natural number, 2^n doubles with n, a fold over a finite set has a      *)
(* value, and a finite set in a total order has one list by rank, which    *)
(* goes over into that of any set in the same order.  Induction is carried *)
(* by sets (WFMin), not by predicates.                                     *)
(***************************************************************************)
EXTENDS FiniteSetTheorems, TLAPS

\* A strict order on a finite set has a minimal element.
LEMMA FiniteMinimal ==
    ASSUME NEW S, IsFiniteSet(S), S # {}, NEW R,
           \A x \in S : <<x, x>> \notin R,
           \A x, y, z \in S : <<x, y>> \in R /\ <<y, z>> \in R => <<x, z>> \in R
    PROVE  \E x \in S : \A y \in S : <<y, x>> \notin R
<1> DEFINE Below(x) == {y \in S : <<y, x>> \in R}
           T == {Below(x) : x \in S}
<1>1. T \subseteq SUBSET S /\ T # {}
  <2>1. \A x \in S : Below(x) \subseteq S
    OBVIOUS
  <2>2. PICK x \in S : TRUE
    OBVIOUS
  <2>3. Below(x) \in T
    OBVIOUS
  <2>4. T \subseteq SUBSET S
    <3> SUFFICES ASSUME NEW B \in T PROVE B \subseteq S
      BY Zenon
    <3>. QED  BY <2>1
  <2> HIDE DEF T
  <2>. QED  BY <2>3, <2>4
<1>2. IsWellFoundedOn(StrictSubsetOrdering(S), SUBSET S)
  BY FS_StrictSubsetOrderingWellFounded, FS_FiniteSubsetsOfFinite
<1>3. PICK B \in T : \A C \in T : <<C, B>> \notin StrictSubsetOrdering(S)
  <2> HIDE DEF T
  <2>. QED  BY <1>1, <1>2, WFMin
<1>4. PICK x \in S : B = Below(x)
  OBVIOUS
<1>5. ASSUME NEW y \in S, <<y, x>> \in R PROVE FALSE
  <2>1. Below(y) \subseteq Below(x) /\ y \in Below(x) /\ y \notin Below(y)
    BY <1>5
  <2>2. <<Below(y), Below(x)>> \in StrictSubsetOrdering(S)
    BY <2>1 DEF StrictSubsetOrdering
  <2>. QED  BY <1>3, <1>4, <2>2
<1>. QED  BY <1>5

\* A finite set of integers has a largest element.
LEMMA FiniteMax ==
    ASSUME NEW S \in SUBSET Int, IsFiniteSet(S), S # {}
    PROVE  \E m \in S : \A x \in S : x <= m
<1> DEFINE R == {p \in S \X S : p[1] > p[2]}
<1>1. \A x, y \in S : <<x, y>> \in R <=> x > y
  OBVIOUS
<1>2. \E m \in S : \A x \in S : <<x, m>> \notin R
  <2>1. \A x \in S : <<x, x>> \notin R
    BY <1>1
  <2>2. \A x, y, z \in S : <<x, y>> \in R /\ <<y, z>> \in R => <<x, z>> \in R
    BY <1>1
  <2> HIDE DEF R
  <2>. QED  BY <2>1, <2>2, FiniteMinimal
<1>3. PICK m \in S : \A x \in S : ~(x > m)
  <2> HIDE DEF R
  <2>. QED  BY <1>1, <1>2
<1>4. \A x \in S : x <= m
  BY <1>3
<1>. QED  BY <1>4

\* A non-empty set of natural numbers has a smallest element.
LEMMA LeastNat ==
    ASSUME NEW S \in SUBSET Nat, S # {}
    PROVE  \E m \in S : \A x \in S : m <= x
<1> PICK n \in S : TRUE
  OBVIOUS
<1> DEFINE Low == {x \in S : x <= n}
           R == {p \in Low \X Low : p[1] < p[2]}
<1>1. IsFiniteSet(Low) /\ Low # {}
  BY FS_BoundedSetOfNaturals
<1>2. \A x, y \in Low : <<x, y>> \in R <=> x < y
  OBVIOUS
<1>3. PICK m \in Low : \A x \in Low : <<x, m>> \notin R
  <2>1. \A x \in Low : <<x, x>> \notin R
    BY <1>2
  <2>2. \A x, y, z \in Low : <<x, y>> \in R /\ <<y, z>> \in R => <<x, z>> \in R
    BY <1>2
  <2> HIDE DEF R, Low
  <2>. QED  BY <1>1, <2>1, <2>2, FiniteMinimal
<1>4. \A x \in Low : ~(x < m)
  <2> HIDE DEF R
  <2>. QED  BY <1>2, <1>3
<1>5. \A x \in S : m <= x
  BY <1>4
<1>. QED  BY <1>5

\* Induction over the naturals, for a set.
LEMMA SetInduction ==
    ASSUME NEW S, 0 \in S, \A n \in Nat : n \in S => n + 1 \in S
    PROVE  Nat \subseteq S
<1> SUFFICES ASSUME Nat \ S # {} PROVE FALSE
  OBVIOUS
<1>1. PICK m \in Nat \ S : \A x \in Nat \ S : m <= x
  BY LeastNat
<1>2. m # 0 /\ m - 1 \in Nat /\ m - 1 \in S
  BY <1>1
<1>. QED  BY <1>1, <1>2

\* The powers of two: subsets of 1..n, with and without the last number.
LEMMA PowerOfTwo ==
    /\ 2^0 = 1
    /\ \A n \in Nat : 2^n \in Nat \ {0} /\ 2^(n + 1) = 2 * 2^n
<1> SUFFICES ASSUME NEW n \in Nat PROVE 2^n \in Nat \ {0} /\ 2^(n + 1) = 2 * 2^n
  OBVIOUS
<1> DEFINE Low == SUBSET (1..n)
           With == {A \cup {n + 1} : A \in Low}
<1>1. /\ IsFiniteSet(Low) /\ Cardinality(Low) = 2^n
      /\ IsFiniteSet(SUBSET (1..n + 1)) /\ Cardinality(SUBSET (1..n + 1)) = 2^(n + 1)
  <2>1. /\ IsFiniteSet(1..n) /\ Cardinality(1..n) = n
        /\ IsFiniteSet(1..n + 1) /\ Cardinality(1..n + 1) = n + 1
    BY FS_Interval
  <2>. QED  BY <2>1, FS_SUBSET
<1>2. With # {} /\ Low # {} /\ Low \cap With = {} /\ SUBSET (1..n + 1) = Low \cup With
  <2>1. \A A \in Low : n + 1 \notin A
    OBVIOUS
  <2>2. ASSUME NEW B \in SUBSET (1..n + 1), n + 1 \in B PROVE B \in With
    <3>1. B \ {n + 1} \in Low /\ B = (B \ {n + 1}) \cup {n + 1}
      BY <2>2
    <3>. QED  BY <3>1
  <2>3. ASSUME NEW B \in SUBSET (1..n + 1), n + 1 \notin B PROVE B \in Low
    BY <2>3
  <2>4. ASSUME NEW B \in With PROVE B \in SUBSET (1..n + 1) /\ n + 1 \in B
    <3>1. PICK A \in Low : B = A \cup {n + 1}
      OBVIOUS
    <3>2. A \subseteq 1..n + 1 /\ n + 1 \in 1..n + 1
      OBVIOUS
    <3>. QED  BY <3>1, <3>2
  <2>5. Low \subseteq SUBSET (1..n + 1)
    OBVIOUS
  <2>6. {} \in Low /\ {} \cup {n + 1} \in With
    OBVIOUS
  <2> HIDE DEF Low, With
  <2>. QED  BY <2>1, <2>2, <2>3, <2>4, <2>5, <2>6
<1>3. IsFiniteSet(With) /\ Cardinality(With) = Cardinality(Low)
  <2> DEFINE f == [A \in Low |-> A \cup {n + 1}]
  <2>1. f \in Bijection(Low, With)
    <3>1. f \in [Low -> With]
      OBVIOUS
    <3>2. ASSUME NEW A \in Low, NEW B \in Low, f[A] = f[B] PROVE A = B
      <4>1. A \cup {n + 1} = B \cup {n + 1} /\ n + 1 \notin A /\ n + 1 \notin B
        BY <3>2
      <4>. QED  BY <4>1
    <3>3. \A B \in With : \E A \in Low : f[A] = B
      OBVIOUS
    <3> HIDE DEF f, With, Low
    <3>. QED  BY <3>1, <3>2, <3>3 DEF Bijection, Injection, Surjection, IsInjective
  <2> HIDE DEF f, With, Low
  <2>. QED  BY <2>1, <1>1, FS_Bijection DEF ExistsBijection
<1> HIDE DEF Low, With
<1>4. Cardinality(Low) \in Nat \ {0}
  BY <1>1, <1>2, FS_EmptySet, FS_CardinalityType
<1>5. Cardinality(SUBSET (1..n + 1)) = Cardinality(Low) + Cardinality(With)
  BY <1>1, <1>2, <1>3, <1>4, FS_Union, FS_EmptySet
<1>. QED  BY <1>1, <1>3, <1>4, <1>5

LEMMA SubsetsWellFounded ==
    ASSUME NEW S, IsFiniteSet(S)
    PROVE  IsWellFoundedOn(StrictSubsetOrdering(S), SUBSET S)
  BY FS_StrictSubsetOrderingWellFounded, FS_FiniteSubsetsOfFinite

\* Induction over the subsets of a finite set, for a set of them.
Inductive(S, P) ==
    /\ {} \in P
    /\ \A s \in SUBSET S : s # {} => \E x \in s : s \ {x} \in P => s \in P

LEMMA SubsetInduction ==
    ASSUME NEW S, IsFiniteSet(S), NEW P, Inductive(S, P)
    PROVE  SUBSET S \subseteq P
<1> DEFINE Bad == (SUBSET S) \ P
<1> SUFFICES ASSUME Bad # {} PROVE FALSE
  OBVIOUS
<1>1. IsWellFoundedOn(StrictSubsetOrdering(S), SUBSET S)
  BY SubsetsWellFounded
<1>2. PICK s \in Bad : \A t \in Bad : <<t, s>> \notin StrictSubsetOrdering(S)
  <2>1. Bad \subseteq SUBSET S
    OBVIOUS
  <2> HIDE DEF Bad
  <2>. QED  BY <1>1, <2>1, WFMin
<1>3. PICK x \in s : s \ {x} \in P => s \in P
  <2>1. s # {}
    BY DEF Inductive
  <2>. QED  BY <2>1 DEF Inductive
<1>4. <<s \ {x}, s>> \in StrictSubsetOrdering(S)
  BY <1>3 DEF StrictSubsetOrdering
<1>5. s \ {x} \in P
  BY <1>2, <1>4
<1>. QED  BY <1>3, <1>5

Picks(S, pick) == \A s \in SUBSET S : s # {} => pick[s] \in s
FoldOf(f, S, base, pick, step) ==
    \A s \in SUBSET S :
        f[s] = IF s = {} THEN base ELSE step[<<pick[s], f[s \ {pick[s]}]>>]

\* A fold over a finite set has a value: the recursion that removes the element
\* pick gives from a set, one after another, is that of a function.
LEMMA FoldWithin ==
    ASSUME NEW S, IsFiniteSet(S), NEW V, NEW base \in V,
           NEW pick, Picks(S, pick),
           NEW step \in [S \X V -> V]
    PROVE  \E f \in [SUBSET S -> V] : FoldOf(f, S, base, pick, step)
<1> DEFINE D(k) == {s \in SUBSET S : Cardinality(s) <= k}
           Folds(f, k) == \A s \in D(k) :
               f[s] = IF s = {} THEN base ELSE step[<<pick[s], f[s \ {pick[s]}]>>]
           K == {k \in Nat : \E f \in [D(k) -> V] : Folds(f, k)}
<1>1. \A s \in SUBSET S : IsFiniteSet(s) /\ Cardinality(s) \in Nat
  BY FS_Subset, FS_CardinalityType
<1>2. 0 \in K
  <2> DEFINE f == [s \in D(0) |-> base]
  <2>1. \A s \in D(0) : s = {}
    BY <1>1, FS_EmptySet
  <2>2. f \in [D(0) -> V]
    OBVIOUS
  <2>3. Folds(f, 0)
    BY <2>1
  <2> HIDE DEF D, Folds, f
  <2>. QED  BY <2>2, <2>3
<1>3. ASSUME NEW k \in Nat, k \in K PROVE k + 1 \in K
  <2>1. PICK f \in [D(k) -> V] : Folds(f, k)
    BY <1>3
  <2> DEFINE g == [s \in D(k + 1) |-> IF s \in D(k) THEN f[s]
                                      ELSE step[<<pick[s], f[s \ {pick[s]}]>>]]
  <2>2. D(k) \subseteq D(k + 1)
    BY <1>1
  <2>3. ASSUME NEW s \in D(k + 1), s # {}
        PROVE  pick[s] \in s /\ s \ {pick[s]} \in D(k)
    <3>1. pick[s] \in s
      BY <2>3 DEF Picks
    <3>2. Cardinality(s \ {pick[s]}) = Cardinality(s) - 1 /\ Cardinality(s) <= k + 1
      BY <1>1, <3>1, FS_RemoveElement
    <3>. QED  BY <1>1, <3>1, <3>2
  <2>4. ASSUME NEW s \in D(k + 1), s \notin D(k) PROVE s # {}
    <3>1. Cardinality({}) = 0
      BY FS_EmptySet
    <3>2. {} \in D(k)
      BY <3>1
    <3>. QED  BY <2>4, <3>2
  <2>5. g \in [D(k + 1) -> V]
    <3> SUFFICES ASSUME NEW s \in D(k + 1), s \notin D(k)
                 PROVE  step[<<pick[s], f[s \ {pick[s]}]>>] \in V
      OBVIOUS
    <3>1. pick[s] \in s /\ s \ {pick[s]} \in D(k) /\ s \in SUBSET S
      BY <2>3, <2>4
    <3> HIDE DEF D
    <3>2. <<pick[s], f[s \ {pick[s]}]>> \in S \X V
      BY <2>1, <3>1
    <3>. QED  BY <3>2
  <2>6. Folds(g, k + 1)
    <3> SUFFICES ASSUME NEW s \in D(k + 1)
                 PROVE  g[s] = IF s = {} THEN base
                               ELSE step[<<pick[s], g[s \ {pick[s]}]>>]
      OBVIOUS
    <3>1. s # {} => g[s \ {pick[s]}] = f[s \ {pick[s]}]
      BY <2>2, <2>3
    <3>2. CASE s \in D(k)
      BY <2>1, <3>1, <3>2
    <3>3. CASE s \notin D(k)
      BY <2>4, <3>1, <3>3
    <3>. QED  BY <3>2, <3>3
  <2> HIDE DEF D, Folds, g
  <2>. QED  BY <2>5, <2>6
<1>4. Cardinality(S) \in K
  <2> HIDE DEF K
  <2>. QED  BY <1>1, <1>2, <1>3, SetInduction
<1>5. D(Cardinality(S)) = SUBSET S
  BY FS_Subset
<1>. QED  BY <1>4, <1>5 DEF FoldOf

-----------------------------------------------------------------------------
(* Lists by rank.                                                          *)

\* A strict total order, as a set of pairs.
TotalOrder(S, R) ==
    /\ \A x \in S : <<x, x>> \notin R
    /\ \A x, y, z \in S : <<x, y>> \in R /\ <<y, z>> \in R => <<x, z>> \in R
    /\ \A x, y \in S : x # y => <<x, y>> \in R \/ <<y, x>> \in R

Preceding(S, R, x) == {y \in S : <<y, x>> \in R}
Place(S, R, x) == Cardinality(Preceding(S, R, x))

\* s lists S in the order R: the element at place k has k - 1 before it.
Ranking(s, S, R) ==
    /\ s = [k \in 1..Cardinality(S) |-> s[k]]
    /\ \A k \in 1..Cardinality(S) : s[k] \in S /\ Place(S, R, s[k]) = k - 1

\* The places of a finite set in a total order are 0..n - 1, each taken once.
LEMMA Places ==
    ASSUME NEW S, IsFiniteSet(S), NEW R, TotalOrder(S, R)
    PROVE  /\ \A x \in S : Place(S, R, x) \in 0..Cardinality(S) - 1
           /\ \A x, y \in S : Place(S, R, x) = Place(S, R, y) => x = y
           /\ \A k \in 1..Cardinality(S) : \E x \in S : Place(S, R, x) = k - 1
<1> DEFINE n == Cardinality(S)
           P(x) == Preceding(S, R, x)
           g == [x \in S |-> Place(S, R, x)]
<1>1. n \in Nat
  BY FS_CardinalityType
<1>2. \A x \in S : IsFiniteSet(P(x)) /\ Place(S, R, x) \in Nat
  <2>1. \A x \in S : P(x) \in SUBSET S
    BY DEF Preceding
  <2>2. \A x \in S : IsFiniteSet(P(x))
    BY <2>1, FS_Subset
  <2>. QED  BY <2>2, FS_CardinalityType DEF Place
<1>3. ASSUME NEW x \in S PROVE Place(S, R, x) \in 0..n - 1
  <2>1. P(x) \in SUBSET (S \ {x})
    BY DEF Preceding, TotalOrder
  <2>2. IsFiniteSet(S \ {x}) /\ Cardinality(S \ {x}) = n - 1
    BY FS_RemoveElement
  <2>3. Cardinality(P(x)) <= n - 1
    BY <2>1, <2>2, FS_Subset
  <2>. QED  BY <1>1, <1>2, <2>3 DEF Place
<1>4. ASSUME NEW x \in S, NEW y \in S, <<x, y>> \in R
      PROVE  Place(S, R, x) < Place(S, R, y)
  <2>1. P(x) \in SUBSET P(y) /\ x \in P(y) /\ x \notin P(x)
    BY <1>4 DEF Preceding, TotalOrder
  <2>2. P(x) # P(y)
    BY <2>1
  <2>3. Cardinality(P(x)) <= Cardinality(P(y)) /\ Cardinality(P(x)) # Cardinality(P(y))
    BY <1>2, <2>1, <2>2, FS_Subset
  <2>. QED  BY <1>2, <2>3 DEF Place
<1>5. \A x, y \in S : Place(S, R, x) = Place(S, R, y) => x = y
  <2> SUFFICES ASSUME NEW x \in S, NEW y \in S, x # y
               PROVE  Place(S, R, x) # Place(S, R, y)
    OBVIOUS
  <2>1. <<x, y>> \in R \/ <<y, x>> \in R
    BY DEF TotalOrder
  <2>. QED  BY <1>2, <1>4, <2>1
<1>6. g \in Injection(S, 0..n - 1)
  <2>1. g \in [S -> 0..n - 1]
    BY <1>3
  <2>. QED  BY <1>5, <2>1 DEF Injection, IsInjective
<1>7. IsFiniteSet(0..n - 1) /\ Cardinality(0..n - 1) = n
  BY <1>1, FS_Interval
<1>8. g \in Surjection(S, 0..n - 1)
  <2> HIDE DEF g
  <2>. QED  BY <1>6, <1>7, FS_Injection
<1>9. \A k \in 1..n : \E x \in S : Place(S, R, x) = k - 1
  <2>1. \A m \in 0..n - 1 : \E x \in S : g[x] = m
    BY <1>8 DEF Surjection
  <2>2. \A k \in 1..n : k - 1 \in 0..n - 1
    BY <1>1
  <2>. QED  BY <2>1, <2>2
<1>. QED  BY <1>3, <1>5, <1>9

\* A bijection that keeps the order moves a list element by element.
Keeping(h, S, R, T, Q) ==
    /\ h \in Bijection(S, T)
    /\ \A x, y \in S : <<x, y>> \in R <=> <<h[x], h[y]>> \in Q

LEMMA PlaceMoves ==
    ASSUME NEW S, IsFiniteSet(S), NEW R, NEW T, NEW Q, NEW h, Keeping(h, S, R, T, Q),
           NEW x \in S
    PROVE  h[x] \in T /\ Place(T, Q, h[x]) = Place(S, R, x)
<1> DEFINE A == Preceding(S, R, x)
           B == Preceding(T, Q, h[x])
           g == [y \in A |-> h[y]]
<1>1. /\ h \in [S -> T] /\ \A y, z \in S : h[y] = h[z] => y = z
      /\ \A e \in T : \E y \in S : h[y] = e
  BY DEF Keeping, Bijection, Injection, Surjection, IsInjective
<1>2. A \in SUBSET S
  BY DEF Preceding
<1>3. \A y \in S : h[y] \in B <=> y \in A
  BY <1>1 DEF Preceding, Keeping
<1>4. B \in SUBSET T
  BY DEF Preceding
<1> HIDE DEF A, B
<1>5. g \in [A -> B] /\ (\A y, z \in A : g[y] = g[z] => y = z) /\ \A e \in B : \E y \in A : g[y] = e
  BY <1>1, <1>2, <1>3, <1>4
<1>6. DOMAIN g = A
  OBVIOUS
<1> HIDE DEF g
<1>7. g \in Bijection(A, B)
  BY <1>5, <1>6 DEF Bijection, Injection, Surjection, IsInjective
<1>8. Cardinality(B) = Cardinality(A)
  BY <1>2, <1>7, FS_Subset, FS_Bijection DEF ExistsBijection
<1>. QED  BY <1>1, <1>8 DEF Place, A, B

LEMMA RankingMoves ==
    ASSUME NEW S, IsFiniteSet(S), NEW R, TotalOrder(S, R), NEW T, NEW Q,
           NEW h, Keeping(h, S, R, T, Q), NEW s, Ranking(s, S, R), NEW u, Ranking(u, T, Q)
    PROVE  /\ Cardinality(T) = Cardinality(S)
           /\ u = [k \in 1..Cardinality(S) |-> h[s[k]]]
<1>1. Cardinality(T) = Cardinality(S)
  BY FS_Bijection DEF Keeping, ExistsBijection
<1>2. ASSUME NEW k \in 1..Cardinality(S) PROVE u[k] = h[s[k]]
  <2>1. u[k] \in T /\ Place(T, Q, u[k]) = k - 1 /\ s[k] \in S /\ Place(S, R, s[k]) = k - 1
    BY <1>1 DEF Ranking
  <2>2. PICK x \in S : h[x] = u[k]
    BY <2>1 DEF Keeping, Bijection, Surjection
  <2>3. Place(S, R, x) = Place(S, R, s[k])
    BY <2>1, <2>2, PlaceMoves
  <2>. QED  BY <2>1, <2>2, <2>3, Places
<1>3. u = [k \in 1..Cardinality(S) |-> u[k]]
  BY <1>1 DEF Ranking
<1>. QED  BY <1>1, <1>2, <1>3

LEMMA TotalMoves ==
    ASSUME NEW S, IsFiniteSet(S), NEW R, TotalOrder(S, R), NEW T, NEW Q,
           NEW h, Keeping(h, S, R, T, Q)
    PROVE  /\ Cardinality(T) = Cardinality(S)
           /\ \A k \in 1..Cardinality(T) : \E e \in T : Place(T, Q, e) = k - 1
<1>1. Cardinality(T) = Cardinality(S)
  BY FS_Bijection DEF Keeping, ExistsBijection
<1>. QED  BY <1>1, Places, PlaceMoves
=============================================================================
