----------------------------- MODULE FiniteOrder -----------------------------
(***************************************************************************)
(* Least and greatest elements of finite sets of integers, ranks, the cuts *)
(* of a range into even stretches, sums over finite sets (what they are of *)
(* one element more, and how bounds add up), and pairs counted row by row. *)
(* The library states induction with an operator parameter; strict         *)
(* inclusion of finite sets being well founded is enough to do without it. *)
(***************************************************************************)
EXTENDS Integers, FiniteSets, FiniteSetTheorems, WellFoundedInduction, TLAPS

\* A non-empty finite set of integers has a least element: the one whose set of
\* smaller elements is minimal for strict inclusion.
LEMMA LeastElement ==
    ASSUME NEW T \in SUBSET Int, IsFiniteSet(T), T # {}
    PROVE  \E x \in T : \A y \in T : x <= y
<1> DEFINE Below(x) == {y \in T : y < x}
           B == {Below(x) : x \in T}
<1>1. B \subseteq FiniteSubsetsOf(T)
  <2>1. \A x \in T : IsFiniteSet(Below(x))
    BY FS_Subset
  <2> QED BY <2>1 DEF FiniteSubsetsOf
<1>2. \E b \in B : \A c \in B : ~ (<<c, b>> \in StrictSubsetOrdering(T))
  <2> HIDE DEF B
  <2>1. B # {}
    BY DEF B
  <2> QED BY <2>1, <1>1, WFMin, FS_StrictSubsetOrderingWellFounded
<1>3. PICK x \in T :
         \A y \in T : <<Below(y), Below(x)>> \notin StrictSubsetOrdering(T)
  <2> HIDE DEF Below
  <2> QED BY <1>2
<1>4. ASSUME NEW y \in T, y < x PROVE FALSE
  <2>1. ASSUME NEW z \in Below(y) PROVE z \in Below(x)
    <3>1. z \in T /\ z \in Int /\ y \in Int /\ x \in Int /\ z < y
      BY <2>1
    <3>2. z < x
      BY <3>1, <1>4
    <3> QED BY <3>1, <3>2
  <2>2. y \in Below(x) /\ y \notin Below(y)
    BY <1>4
  <2>3. Below(x) \in SUBSET T /\ Below(y) \in SUBSET T
    OBVIOUS
  <2> HIDE DEF Below
  <2>4. <<Below(y), Below(x)>> \in StrictSubsetOrdering(T)
    BY <2>1, <2>2, <2>3 DEF StrictSubsetOrdering
  <2> QED BY <2>4, <1>3
<1> QED BY <1>4

\* ... and a greatest one, the mirror image of the least.
LEMMA GreatestElement ==
    ASSUME NEW T \in SUBSET Int, IsFiniteSet(T), T # {}
    PROVE  \E x \in T : \A y \in T : y <= x
<1> DEFINE M == {- x : x \in T}
<1>1. M \in SUBSET Int /\ M # {}
  <2>1. \A x \in T : - x \in Int
    OBVIOUS
  <2>2. PICK x \in T : TRUE
    OBVIOUS
  <2>3. - x \in M
    BY <2>2
  <2> QED BY <2>1, <2>3
<1>2. IsFiniteSet(M)
  <2> DEFINE f == [x \in T |-> - x]
  <2>1. f \in Surjection(T, M)
    BY DEF Surjection
  <2> QED BY <2>1, FS_Surjection
<1>3. PICK m \in M : \A n \in M : m <= n
  <2> HIDE DEF M
  <2> QED BY <1>1, <1>2, LeastElement
<1>4. PICK x \in T : m = - x
  BY <1>3
<1>5. ASSUME NEW y \in T PROVE y <= x
  <2>1. m <= - y
    BY <1>3
  <2> QED BY <2>1, <1>4
<1> QED BY <1>5

\* How many elements of S come before x in the order whose pairs are R.
Rank(S, R, x) == Cardinality({y \in S : <<y, x>> \in R})

\* In a finite strict total order, given by the set of its pairs, the number of
\* smaller elements tells the elements apart and takes every value below the size
\* of the set: it is injective, and a set is not mapped into a smaller one.
LEMMA Ranks ==
    ASSUME NEW S, IsFiniteSet(S), NEW R,
           \A x \in S : <<x, x>> \notin R,
           \A x, y \in S : x # y => <<x, y>> \in R \/ <<y, x>> \in R,
           \A x, y, z \in S : <<x, y>> \in R /\ <<y, z>> \in R => <<x, z>> \in R
    PROVE  /\ \A x \in S : Rank(S, R, x) \in 0 .. Cardinality(S) - 1
           /\ \A x, y \in S : Rank(S, R, x) = Rank(S, R, y) => x = y
           /\ \A p \in 0 .. Cardinality(S) - 1 : \E x \in S : Rank(S, R, x) = p
<1> DEFINE n == Cardinality(S)
           Below(x) == {y \in S : <<y, x>> \in R}
           rank == [x \in S |-> Cardinality(Below(x))]
<1>1. n \in Nat
  BY FS_CardinalityType
<1>2. \A x \in S : IsFiniteSet(Below(x)) /\ Cardinality(Below(x)) \in Nat
  BY FS_Subset, FS_CardinalityType
<1>3. ASSUME NEW x \in S PROVE Cardinality(Below(x)) \in 0 .. n - 1
  <2>1. Below(x) \in SUBSET S /\ Below(x) # S
    OBVIOUS
  <2> HIDE DEF Below
  <2>2. Cardinality(Below(x)) <= n /\ Cardinality(Below(x)) # n
    BY <2>1, FS_Subset
  <2> QED BY <2>2, <1>1, <1>2
<1>4. ASSUME NEW x \in S, NEW y \in S, <<x, y>> \in R
      PROVE  Cardinality(Below(x)) < Cardinality(Below(y))
  <2>1. Below(x) \in SUBSET Below(y) /\ Below(x) # Below(y)
    <3>1. x \in Below(y) /\ x \notin Below(x)
      BY <1>4
    <3>2. Below(x) \subseteq Below(y)
      BY <1>4
    <3> QED BY <3>1, <3>2
  <2> HIDE DEF Below
  <2>2. /\ Cardinality(Below(x)) <= Cardinality(Below(y))
        /\ Cardinality(Below(x)) # Cardinality(Below(y))
    BY <2>1, <1>2, FS_Subset
  <2> QED BY <2>2, <1>2
<1>5. \A x, y \in S : Cardinality(Below(x)) = Cardinality(Below(y)) => x = y
  <2> HIDE DEF Below
  <2>1. SUFFICES ASSUME NEW x \in S, NEW y \in S, x # y,
                        Cardinality(Below(x)) = Cardinality(Below(y))
                 PROVE  FALSE
    OBVIOUS
  <2>2. CASE <<x, y>> \in R
    BY <2>1, <2>2, <1>2, <1>4
  <2>3. CASE <<y, x>> \in R
    BY <2>1, <2>3, <1>2, <1>4
  <2> QED BY <2>1, <2>2, <2>3
<1> HIDE DEF Below
<1>6. rank \in [S -> 0 .. n - 1] /\ \A x \in S : rank[x] = Cardinality(Below(x))
  BY <1>3
<1> HIDE DEF rank
<1>7. rank \in Injection(S, 0 .. n - 1)
  BY <1>5, <1>6 DEF Injection, IsInjective
<1>8. IsFiniteSet(0 .. n - 1) /\ Cardinality(0 .. n - 1) = n
  <2> HIDE DEF n
  <2>1. n - 1 \in Int /\ 0 \in Int
    BY <1>1
  <2> QED BY <2>1, <1>1, FS_Interval
<1>9. rank \in Surjection(S, 0 .. n - 1)
  <2> HIDE DEF n
  <2> QED BY <1>7, <1>8, FS_Injection DEF n
<1>10. \A p \in 0 .. n - 1 : \E x \in S : rank[x] = p
  BY <1>9 DEF Surjection
<1>11. \A x \in S : Rank(S, R, x) = Cardinality(Below(x))
  BY DEF Rank, Below
<1> QED BY <1>3, <1>5, <1>6, <1>10, <1>11

\* The same of an order that is given a name.
IsStrictTotalOrder(S, R) ==
    /\ \A x \in S : <<x, x>> \notin R
    /\ \A x, y \in S : x # y => <<x, y>> \in R \/ <<y, x>> \in R
    /\ \A x, y, z \in S : <<x, y>> \in R /\ <<y, z>> \in R => <<x, z>> \in R

LEMMA EveryRankIsTaken ==
    ASSUME NEW S, IsFiniteSet(S), NEW R, IsStrictTotalOrder(S, R),
           NEW p \in 0 .. Cardinality(S) - 1
    PROVE  \E x \in S : Rank(S, R, x) = p
BY Ranks DEF IsStrictTotalOrder

\* A product grows with its first factor.
LEMMA TimesGrows ==
    ASSUME NEW a \in Nat, NEW b \in Nat, NEW q \in Nat, a <= b
    PROVE  a * q <= b * q
<1>1. PICK k \in Nat : b = a + k
  <2>1. b - a \in Nat /\ b = a + (b - a)
    OBVIOUS
  <2> QED BY <2>1
<1>2. b * q = a * q + k * q
  BY <1>1
<1>3. k * q \in Nat /\ a * q \in Nat
  OBVIOUS
<1> QED BY <1>2, <1>3

\* The multiples of a number below others.
LEMMA Division ==
    ASSUME NEW s \in Nat \ {0}, NEW t \in Nat, NEW u \in Nat
    PROVE  /\ t \div s \in Nat /\ s * (t \div s) \in Nat
           /\ s * (t \div s) <= t /\ t < s * (t \div s) + s
           /\ t <= u => t \div s <= u \div s /\ s * (t \div s) <= s * (u \div s)
           /\ s * (t \div s) < s * (u \div s) => s * (t \div s) + s <= s * (u \div s)
<1> DEFINE q == t \div s
           r == u \div s
<1>1. /\ q \in Nat /\ s * q <= t /\ t < s * q + s
      /\ r \in Nat /\ s * r <= u /\ u < s * r + s
  <2>1. \A w \in Nat : w \div s \in Nat /\ s * (w \div s) <= w /\ w < s * (w \div s) + s
    OBVIOUS
  <2> QED BY <2>1
<1> HIDE DEF q, r
<1>2. s * q \in Nat /\ s * r \in Nat /\ q * s = s * q /\ r * s = s * r
  BY <1>1
<1>3. q <= r => s * q <= s * r
  BY <1>1, <1>2, TimesGrows
<1>4. ASSUME q < r PROVE s * q + s <= s * r
  <2>1. (q + 1) * s <= r * s
    BY <1>1, <1>4, TimesGrows
  <2>2. (q + 1) * s = q * s + s
    BY <1>1
  <2> QED BY <2>1, <2>2, <1>2
<1>5. ASSUME r < q PROVE s * r + s <= s * q
  <2>1. (r + 1) * s <= q * s
    BY <1>1, <1>5, TimesGrows
  <2>2. (r + 1) * s = r * s + s
    BY <1>1
  <2> QED BY <2>1, <2>2, <1>2
<1>6. t <= u => q <= r
  BY <1>1, <1>2, <1>5
<1>7. s * q < s * r => q < r
  BY <1>1, <1>2, <1>5
<1> QED BY <1>1, <1>2, <1>3, <1>4, <1>6, <1>7 DEF q, r

\* Where the g-th of parts stretches of n rows begins, the first n % parts of them
\* a row longer.
CutAt(n, parts, g) == g * (n \div parts) + IF g < n % parts THEN g ELSE n % parts

\* The cuts go from the first row to the last and never back.
LEMMA EvenCuts ==
    ASSUME NEW n \in Nat, NEW parts \in Nat \ {0}
    PROVE  /\ CutAt(n, parts, 0) = 0 /\ CutAt(n, parts, parts) = n
           /\ \A g \in 0 .. parts : CutAt(n, parts, g) \in Nat
           /\ \A g, h \in 0 .. parts : g <= h => CutAt(n, parts, g) <= CutAt(n, parts, h)
<1> DEFINE q == n \div parts
           r == n % parts
<1>1. n \in Nat /\ parts \in Nat /\ parts >= 1
  OBVIOUS
<1>2. q \in Nat /\ r \in Nat /\ r < parts /\ n = parts * q + r
  BY <1>1, Z3
<1>3. \A g : CutAt(n, parts, g) = g * q + IF g < r THEN g ELSE r
  BY DEF CutAt
<1> HIDE DEF q, r
<1>4. CutAt(n, parts, 0) = 0 /\ CutAt(n, parts, parts) = n
  <2>1. 0 * q = 0
    BY <1>2
  <2>2. CutAt(n, parts, 0) = 0
    BY <1>2, <1>3, <2>1
  <2>3. CutAt(n, parts, parts) = n
    BY <1>1, <1>2, <1>3
  <2> QED BY <2>2, <2>3
<1>5. ASSUME NEW g \in 0 .. parts PROVE CutAt(n, parts, g) \in Nat
  <2>1. g \in Nat /\ g * q \in Nat
    BY <1>1, <1>2
  <2> QED BY <2>1, <1>2, <1>3
<1>6. ASSUME NEW g \in 0 .. parts, NEW h \in 0 .. parts, g <= h
      PROVE  CutAt(n, parts, g) <= CutAt(n, parts, h)
  <2>1. g \in Nat /\ h \in Nat /\ g * q \in Nat /\ h * q \in Nat
    BY <1>1, <1>2
  <2>2. g * q <= h * q
    BY <2>1, <1>2, <1>6, TimesGrows
  <2>3. (IF g < r THEN g ELSE r) <= (IF h < r THEN h ELSE r)
    BY <2>1, <1>2, <1>6
  <2> QED BY <2>1, <2>2, <2>3, <1>2, <1>3
<1> QED BY <1>4, <1>5, <1>6

------------------------------------------------------------------------------
(* Sums.  The library sums a function over a finite set by taking elements *)
(* away one at a time, in an order it does not say.                        *)

\* Among some subsets of a finite set there is one that includes no other.
LEMMA SmallestSet ==
    ASSUME NEW S, IsFiniteSet(S), NEW B \in SUBSET (SUBSET S), B # {}
    PROVE  \E T \in B : \A U \in B : U \subseteq T => U = T
<1>1. B \subseteq FiniteSubsetsOf(S)
  BY FS_FiniteSubsetsOfFinite
<1>2. PICK T \in B : \A U \in B : ~ (<<U, T>> \in StrictSubsetOrdering(S))
  BY <1>1, WFMin, FS_StrictSubsetOrderingWellFounded
<1>3. ASSUME NEW U \in B, U \subseteq T PROVE U = T
  BY <1>2, <1>3 DEF StrictSubsetOrdering
<1> QED BY <1>3

\* What holds of the empty set, and of a set with one element more, holds of every
\* finite set; P is the set of the subsets it holds of.
LEMMA SetInduction ==
    ASSUME NEW S, IsFiniteSet(S), NEW P, {} \in P,
           \A T \in SUBSET S : \A x \in S \ T : T \in P => T \cup {x} \in P
    PROVE  S \in P
<1> DEFINE B == {T \in SUBSET S : T \notin P}
<1>1. SUFFICES ASSUME S \notin P PROVE FALSE
  OBVIOUS
<1>2. S \in B
  BY <1>1
<1>3. PICK T \in B : \A U \in B : U \subseteq T => U = T
  <2>1. B \in SUBSET (SUBSET S) /\ B # {}
    BY <1>2
  <2> HIDE DEF B
  <2> QED BY <2>1, SmallestSet
<1>4. PICK x \in T : TRUE
  BY <1>3
<1>5. T \ {x} \in P /\ T \ {x} \in SUBSET S /\ x \in S \ (T \ {x})
  <2>1. T \ {x} # T /\ T \ {x} \subseteq T
    BY <1>4
  <2> QED BY <2>1, <1>3, <1>4
<1>6. (T \ {x}) \cup {x} = T
  BY <1>4
<1> QED BY <1>3, <1>5, <1>6

\* The element taken away, and what it means to sum the sets of D that way.
Picked(T) == CHOOSE x \in T : TRUE
Closed(D) == \A T \in D : T # {} => T \ {Picked(T)} \in D
IsSumOn(g, f, D) ==
    g = [T \in D |-> IF T = {} THEN 0 ELSE f[Picked(T)] + g[T \ {Picked(T)}]]

\* There is one way to sum a set.
LEMMA SumsAgree ==
    ASSUME NEW S, IsFiniteSet(S), NEW f, NEW g, NEW h,
           NEW D \in SUBSET (SUBSET S), NEW E \in SUBSET (SUBSET S),
           Closed(D), Closed(E), IsSumOn(g, f, D), IsSumOn(h, f, E),
           NEW T \in D, T \in E
    PROVE  g[T] = h[T]
<1> DEFINE B == {U \in D \cap E : g[U] # h[U]}
<1>1. SUFFICES ASSUME B # {} PROVE FALSE
  OBVIOUS
<1>2. PICK U \in B : \A V \in B : V \subseteq U => V = U
  <2>1. B \in SUBSET (SUBSET S)
    OBVIOUS
  <2> HIDE DEF B
  <2> QED BY <1>1, <2>1, SmallestSet
<1> DEFINE V == U \ {Picked(U)}
<1>3. U \in D /\ U \in E /\ g[U] # h[U]
  BY <1>2
<1>4. CASE U = {}
  BY <1>3, <1>4 DEF IsSumOn
<1>5. CASE U # {}
  <2>1. Picked(U) \in U /\ V \subseteq U /\ V # U
    BY <1>5 DEF Picked
  <2>2. V \in D /\ V \in E
    BY <1>3, <1>5 DEF Closed
  <2>3. g[V] = h[V]
    BY <2>1, <2>2, <1>2
  <2>4. g[U] = f[Picked(U)] + g[V]
    BY <1>3, <1>5 DEF IsSumOn
  <2>5. h[U] = f[Picked(U)] + h[V]
    BY <1>3, <1>5 DEF IsSumOn
  <2> QED BY <2>3, <2>4, <2>5, <1>3
<1> QED BY <1>4, <1>5

\* ... and there is one: the sums of smaller sets extend to a larger one.
LEMMA SumExists ==
    ASSUME NEW S, IsFiniteSet(S), NEW f
    PROVE  \E g : IsSumOn(g, f, SUBSET S)
<1> DEFINE Sums(T, D, g) == /\ D \in SUBSET (SUBSET S) /\ Closed(D)
                            /\ IsSumOn(g, f, D) /\ T \in D
           B == {T \in SUBSET S : ~ \E D, g : Sums(T, D, g)}
<1>1. B = {}
  <2>1. SUFFICES ASSUME B # {} PROVE FALSE
    OBVIOUS
  <2>2. PICK T \in B : \A U \in B : U \subseteq T => U = T
    <3>1. B \in SUBSET (SUBSET S)
      OBVIOUS
    <3> HIDE DEF B
    <3> QED BY <2>1, <3>1, SmallestSet
  <2>3. T \in SUBSET S /\ ~ \E D, g : Sums(T, D, g)
    BY <2>2
  <2>4. CASE T = {}
    <3> DEFINE z == [U \in {{}} |-> 0]
    <3>1. IsSumOn(z, f, {{}})
      BY DEF IsSumOn
    <3>2. Closed({{}})
      BY DEF Closed
    <3>3. Sums(T, {{}}, z)
      BY <3>1, <3>2, <2>4
    <3> QED BY <3>3, <2>3
  <2>5. CASE T # {}
    <3> DEFINE U == T \ {Picked(T)}
    <3>1. Picked(T) \in T /\ U \subseteq T /\ U # T /\ U \in SUBSET S
      BY <2>3, <2>5 DEF Picked
    <3>2. U \notin B
      BY <3>1, <2>2
    <3>3. PICK D, g : Sums(U, D, g)
      BY <3>1, <3>2
    <3> DEFINE E == D \cup {T}
               h == [V \in E |-> IF V \in D THEN g[V] ELSE f[Picked(T)] + g[U]]
    <3>4. Closed(E) /\ E \in SUBSET (SUBSET S) /\ T \in E
      BY <3>3, <2>3 DEF Closed
    <3>5. ASSUME NEW V \in E
          PROVE  h[V] = IF V = {} THEN 0 ELSE f[Picked(V)] + h[V \ {Picked(V)}]
      <4>1. CASE V \in D
        <5>1. V # {} => V \ {Picked(V)} \in D
          BY <3>3, <4>1 DEF Closed
        <5>2. g[V] = IF V = {} THEN 0 ELSE f[Picked(V)] + g[V \ {Picked(V)}]
          BY <3>3, <4>1 DEF IsSumOn
        <5> QED BY <5>1, <5>2, <4>1
      <4>2. CASE V \notin D
        <5>1. V = T /\ U \in D
          BY <4>2, <3>3
        <5> QED BY <5>1, <4>2, <2>5
      <4> QED BY <4>1, <4>2
    <3>6. IsSumOn(h, f, E)
      <4> DEFINE k == [V \in E |-> IF V = {} THEN 0 ELSE f[Picked(V)] + h[V \ {Picked(V)}]]
      <4>1. \A V \in E : h[V] = k[V]
        BY <3>5
      <4>2. h = [V \in E |-> h[V]] /\ k = [V \in E |-> k[V]]
        OBVIOUS
      <4> HIDE DEF h
      <4>3. h = k
        <5> HIDE DEF k
        <5> QED BY <4>1, <4>2
      <4> QED BY <4>3 DEF IsSumOn
    <3>7. Sums(T, E, h)
      <4> HIDE DEF h, E
      <4> QED BY <3>4, <3>6
    <3> HIDE DEF Sums, E, h
    <3> QED BY <3>7, <2>3
  <2> QED BY <2>4, <2>5
<1> DEFINE G == [T \in SUBSET S |-> CHOOSE v : \E D, g : Sums(T, D, g) /\ v = g[T]]
<1>2. ASSUME NEW T \in SUBSET S, NEW D, NEW g, Sums(T, D, g)
      PROVE  G[T] = g[T]
  <2>1. \E v : \E E, h : Sums(T, E, h) /\ v = h[T]
    <3> HIDE DEF Sums
    <3> QED BY <1>2
  <2>2. \E E, h : Sums(T, E, h) /\ G[T] = h[T]
    <3> HIDE DEF Sums
    <3> QED BY <2>1
  <2>3. PICK E, h : Sums(T, E, h) /\ G[T] = h[T]
    <3> HIDE DEF Sums, G
    <3> QED BY <2>2
  <2>4. g[T] = h[T]
    <3> HIDE DEF G
    <3> QED BY <1>2, <2>3, SumsAgree
  <2> QED BY <2>3, <2>4
<1>3. ASSUME NEW T \in SUBSET S
      PROVE  G[T] = IF T = {} THEN 0 ELSE f[Picked(T)] + G[T \ {Picked(T)}]
  <2>1. PICK D, g : Sums(T, D, g)
    BY <1>1
  <2>2. G[T] = g[T]
    <3> HIDE DEF Sums, G
    <3> QED BY <2>1, <1>2
  <2>3. g[T] = IF T = {} THEN 0 ELSE f[Picked(T)] + g[T \ {Picked(T)}]
    BY <2>1 DEF IsSumOn
  <2>4. T # {} => G[T \ {Picked(T)}] = g[T \ {Picked(T)}]
    <3>1. T # {} => Sums(T \ {Picked(T)}, D, g)
      BY <2>1 DEF Closed
    <3>2. T \ {Picked(T)} \in SUBSET S
      OBVIOUS
    <3> HIDE DEF Sums, G
    <3> QED BY <3>1, <3>2, <1>2
  <2> HIDE DEF G
  <2> QED BY <2>2, <2>3, <2>4
<1>4. G = [T \in SUBSET S |-> G[T]]
  OBVIOUS
<1> HIDE DEF G
<1>5. IsSumOn(G, f, SUBSET S)
  <2> DEFINE k == [T \in SUBSET S |-> IF T = {} THEN 0 ELSE f[Picked(T)] + G[T \ {Picked(T)}]]
  <2>1. \A T \in SUBSET S : G[T] = k[T]
    BY <1>3
  <2>2. k = [T \in SUBSET S |-> k[T]]
    OBVIOUS
  <2>3. G = k
    <3> HIDE DEF k
    <3> QED BY <2>1, <2>2, <1>4
  <2> QED BY <2>3 DEF IsSumOn
<1> QED BY <1>5

\* The sum of the library is that sum.
LEMMA SumEquation ==
    ASSUME NEW S, IsFiniteSet(S), NEW f
    PROVE  SumFunctionOnSet(f, S) =
              IF S = {} THEN 0
              ELSE f[Picked(S)] + SumFunctionOnSet(f, S \ {Picked(S)})
<1> DEFINE G(T) == CHOOSE g : IsSumOn(g, f, SUBSET T)
<1>1. \A T : SumFunctionOnSet(f, T) = G(T)[T]
  BY DEF SumFunctionOnSet, FoldFunctionOnSet, MapThenFoldSet, IsSumOn, Picked
<1>2. \A T \in SUBSET S : IsFiniteSet(T)
  BY FS_Subset
<1>3. \A T \in SUBSET S : IsSumOn(G(T), f, SUBSET T)
  BY <1>2, SumExists
<1> HIDE DEF G
<1>4. G(S)[S] = IF S = {} THEN 0 ELSE f[Picked(S)] + G(S)[S \ {Picked(S)}]
  BY <1>3 DEF IsSumOn
<1> DEFINE T == S \ {Picked(S)}
<1>5. T \in SUBSET S /\ SUBSET T \in SUBSET (SUBSET S) /\ SUBSET S \in SUBSET (SUBSET S)
      /\ T \in SUBSET T
  OBVIOUS
<1>6. Closed(SUBSET T) /\ Closed(SUBSET S)
  BY DEF Closed
<1>7. G(S)[T] = G(T)[T]
  <2> HIDE DEF T
  <2> QED BY <1>3, <1>5, <1>6, SumsAgree
<1> QED BY <1>1, <1>4, <1>7

\* Nothing sums to nothing, and what is summed is all that counts.
LEMMA SumOfNone == \A f : SumFunctionOnSet(f, {}) = 0
BY FS_EmptySet, SumEquation

\* Elements may be taken away in any order.
LEMMA SumStep ==
    ASSUME NEW S, IsFiniteSet(S), NEW f, \A x \in S : f[x] \in Int
    PROVE  /\ SumFunctionOnSet(f, S) \in Int
           /\ \A x \in S : SumFunctionOnSet(f, S) = f[x] + SumFunctionOnSet(f, S \ {x})
<1> DEFINE g == [T \in SUBSET S |-> SumFunctionOnSet(f, T)]
<1>1. \A T \in SUBSET S : SumFunctionOnSet(f, T) = g[T]
  OBVIOUS
<1>2. \A T \in SUBSET S : g[T] = IF T = {} THEN 0 ELSE f[Picked(T)] + g[T \ {Picked(T)}]
  <2>1. \A T \in SUBSET S : IsFiniteSet(T) /\ T \ {Picked(T)} \in SUBSET S
    BY FS_Subset
  <2> QED BY <2>1, SumEquation
<1> HIDE DEF g
<1> DEFINE Good(T) == /\ g[T] \in Int
                      /\ \A x \in T : g[T] = f[x] + g[T \ {x}]
           B == {T \in SUBSET S : ~ Good(T)}
<1>3. B = {}
  <2>1. SUFFICES ASSUME B # {} PROVE FALSE
    OBVIOUS
  <2>2. PICK T \in B : \A U \in B : U \subseteq T => U = T
    <3>1. B \in SUBSET (SUBSET S)
      OBVIOUS
    <3> HIDE DEF B
    <3> QED BY <2>1, <3>1, SmallestSet
  <2>3. T \in SUBSET S /\ ~ Good(T)
    BY <2>2
  <2>4. \A x \in T : T \ {x} \in SUBSET S /\ Good(T \ {x})
    <3>1. ASSUME NEW x \in T PROVE T \ {x} \in SUBSET S /\ Good(T \ {x})
      <4>1. T \ {x} \in SUBSET S /\ T \ {x} \subseteq T /\ T \ {x} # T
        BY <2>3
      <4>2. T \ {x} \notin B
        <5> HIDE DEF B
        <5> QED BY <4>1, <2>2
      <4> HIDE DEF Good
      <4> QED BY <4>1, <4>2
    <3> HIDE DEF Good
    <3> QED BY <3>1
  <2>5. CASE T = {}
    <3>1. g[T] = 0
      BY <2>3, <2>5, <1>2
    <3> QED BY <3>1, <2>3, <2>5
  <2>6. CASE T # {}
    <3> DEFINE c == Picked(T)
    <3>1. c \in T /\ c \in S
      BY <2>3, <2>6 DEF Picked
    <3>2. g[T] = f[c] + g[T \ {c}]
      BY <2>3, <2>6, <1>2
    <3> HIDE DEF c
    <3>3. g[T] \in Int
      BY <2>4, <3>1, <3>2
    <3>4. ASSUME NEW x \in T PROVE g[T] = f[x] + g[T \ {x}]
      <4>1. CASE x = c
        BY <4>1, <3>2
      <4>2. CASE x # c
        <5> DEFINE R == (T \ {c}) \ {x}
        <5>1. x \in T \ {c} /\ c \in T \ {x} /\ R = (T \ {x}) \ {c} /\ x \in S
          BY <4>2, <3>1, <2>3
        <5>2. g[T \ {c}] = f[x] + g[R]
          BY <5>1, <3>1, <2>4
        <5>3. g[T \ {x}] = f[c] + g[R]
          BY <5>1, <2>4
        <5>4. g[R] \in Int
          <6>1. R \in SUBSET T /\ R # T /\ R \in SUBSET S
            BY <5>1, <2>3
          <6>2. R \notin B
            <7> HIDE DEF B, R
            <7> QED BY <6>1, <2>2
          <6> QED BY <6>1, <6>2
        <5>5. f[x] \in Int /\ f[c] \in Int
          BY <5>1, <3>1
        <5> HIDE DEF R
        <5> QED BY <5>2, <5>3, <5>4, <5>5, <3>2
      <4> QED BY <4>1, <4>2
    <3> QED BY <3>3, <3>4, <2>3
  <2> QED BY <2>5, <2>6
<1>4. Good(S)
  <2> HIDE DEF Good
  <2> QED BY <1>3
<1>5. \A x \in S : S \ {x} \in SUBSET S
  OBVIOUS
<1> QED BY <1>1, <1>4, <1>5

\* A set with one element more.
LEMMA SumInsert ==
    ASSUME NEW S, IsFiniteSet(S), NEW f, \A x \in S : f[x] \in Int,
           NEW T \in SUBSET S, NEW x \in S \ T
    PROVE  /\ SumFunctionOnSet(f, T) \in Int
           /\ SumFunctionOnSet(f, T \cup {x}) = f[x] + SumFunctionOnSet(f, T)
<1>1. IsFiniteSet(T) /\ IsFiniteSet(T \cup {x}) /\ T \cup {x} \in SUBSET S
  BY FS_Subset
<1>2. (T \cup {x}) \ {x} = T /\ x \in T \cup {x}
  OBVIOUS
<1> QED BY <1>1, <1>2, SumStep

\* Products distribute over sums.
LEMMA Distributes ==
    \A a, b, k \in Int : /\ k * (a + b) = k * a + k * b
                         /\ k * (a + 1) = k * a + k
OBVIOUS

\* The same of every set and every term it lacks.
LEMMA AllInserts ==
    ASSUME NEW S, IsFiniteSet(S)
    PROVE  \A f : (\A x \in S : f[x] \in Int) =>
             \A T \in SUBSET S : \A x \in S \ T :
               /\ SumFunctionOnSet(f, T) \in Int
               /\ SumFunctionOnSet(f, T \cup {x}) = f[x] + SumFunctionOnSet(f, T)
  BY SumInsert

\* A bound on the terms is a bound on the sum.
LEMMA SumBound ==
    ASSUME NEW S, IsFiniteSet(S), NEW f, NEW g,
           \A x \in S : f[x] \in Int /\ g[x] \in Int,
           NEW m \in Int, NEW k \in Int, NEW c \in Int,
           \A x \in S : m * f[x] <= k * g[x] + c
    PROVE  m * SumFunctionOnSet(f, S) <= k * SumFunctionOnSet(g, S) + c * Cardinality(S)
<1> DEFINE F(T) == SumFunctionOnSet(f, T)
           G(T) == SumFunctionOnSet(g, T)
           P == {T \in SUBSET S : m * F(T) <= k * G(T) + c * Cardinality(T)}
<1>0. \A T \in SUBSET S : \A x \in S \ T :
        /\ F(T) \in Int /\ G(T) \in Int
        /\ F(T \cup {x}) = f[x] + F(T) /\ G(T \cup {x}) = g[x] + G(T)
  <2>1. (\A y \in S : f[y] \in Int) /\ (\A y \in S : g[y] \in Int)
    OBVIOUS
  <2>2. \A T \in SUBSET S : \A x \in S \ T :
          /\ SumFunctionOnSet(f, T) \in Int
          /\ SumFunctionOnSet(f, T \cup {x}) = f[x] + SumFunctionOnSet(f, T)
    BY <2>1, AllInserts, Zenon
  <2>3. \A T \in SUBSET S : \A x \in S \ T :
          /\ SumFunctionOnSet(g, T) \in Int
          /\ SumFunctionOnSet(g, T \cup {x}) = g[x] + SumFunctionOnSet(g, T)
    BY <2>1, AllInserts, Zenon
  <2> QED BY <2>2, <2>3
<1>1. {} \in P
  <2>1. F({}) = 0 /\ G({}) = 0 /\ Cardinality({}) = 0
    BY SumOfNone, FS_EmptySet
  <2> QED BY <2>1
<1>2. ASSUME NEW T \in SUBSET S, NEW x \in S \ T, T \in P
      PROVE  T \cup {x} \in P
  <2>1. /\ F(T) \in Int /\ G(T) \in Int
        /\ F(T \cup {x}) = f[x] + F(T) /\ G(T \cup {x}) = g[x] + G(T)
    BY <1>0
  <2>2. Cardinality(T \cup {x}) = Cardinality(T) + 1 /\ Cardinality(T) \in Int
    BY FS_Subset, FS_AddElement, FS_CardinalityType
  <2>3. m * F(T) <= k * G(T) + c * Cardinality(T) /\ m * f[x] <= k * g[x] + c
    BY <1>2
  <2>4. f[x] \in Int /\ g[x] \in Int
    OBVIOUS
  <2> HIDE DEF F, G
  <2>5. m * (f[x] + F(T)) <= k * (g[x] + G(T)) + c * (Cardinality(T) + 1)
    <3>1. /\ m * (f[x] + F(T)) = m * f[x] + m * F(T)
          /\ k * (g[x] + G(T)) = k * g[x] + k * G(T)
          /\ c * (Cardinality(T) + 1) = c * Cardinality(T) + c
      BY <2>1, <2>2, <2>4, Distributes
    <3>2. /\ m * f[x] \in Int /\ m * F(T) \in Int /\ k * g[x] \in Int
          /\ k * G(T) \in Int /\ c * Cardinality(T) \in Int
      BY <2>1, <2>2, <2>4
    <3> QED BY <2>3, <3>1, <3>2
  <2> QED BY <2>1, <2>2, <2>5
<1>3. S \in P
  <2> HIDE DEF P
  <2> QED BY <1>1, <1>2, SetInduction
<1> QED BY <1>3

\* Terms that are nil may be left out.
LEMMA SumOfSome ==
    ASSUME NEW S, IsFiniteSet(S), NEW f, \A x \in S : f[x] \in Int,
           NEW R \in SUBSET S, \A x \in S \ R : f[x] = 0
    PROVE  SumFunctionOnSet(f, S) = SumFunctionOnSet(f, R)
<1> DEFINE F(T) == SumFunctionOnSet(f, T)
           P == {T \in SUBSET S : F(T) = F(T \cap R)}
<1>1. {} \in P
  <2>1. {} \cap R = {}
    OBVIOUS
  <2> QED BY <2>1
<1>2. ASSUME NEW T \in SUBSET S, NEW x \in S \ T, T \in P
      PROVE  T \cup {x} \in P
  <2>1. F(T) \in Int /\ F(T \cup {x}) = f[x] + F(T)
    BY SumInsert
  <2>2. CASE x \in R
    <3>1. (T \cup {x}) \cap R = (T \cap R) \cup {x} /\ x \in S \ (T \cap R)
          /\ T \cap R \in SUBSET S
      BY <2>2
    <3>2. F((T \cap R) \cup {x}) = f[x] + F(T \cap R)
      BY <3>1, SumInsert
    <3> HIDE DEF F
    <3> QED BY <3>1, <3>2, <2>1, <1>2
  <2>3. CASE x \notin R
    <3>1. (T \cup {x}) \cap R = T \cap R
      BY <2>3
    <3>2. F(T \cup {x}) = F(T)
      <4> HIDE DEF F
      <4> QED BY <2>1, <2>3
    <3> HIDE DEF F
    <3> QED BY <3>1, <3>2, <1>2
  <2> QED BY <2>2, <2>3
<1>3. S \in P
  <2> HIDE DEF P
  <2> QED BY <1>1, <1>2, SetInduction
<1>4. S \cap R = R
  OBVIOUS
<1> QED BY <1>3, <1>4

\* Equal terms, equal sums.
LEMMA SumSame ==
    ASSUME NEW S, IsFiniteSet(S), NEW f, NEW g, \A x \in S : f[x] = g[x]
    PROVE  SumFunctionOnSet(f, S) = SumFunctionOnSet(g, S)
<1> DEFINE B == {T \in SUBSET S : SumFunctionOnSet(f, T) # SumFunctionOnSet(g, T)}
<1>1. SUFFICES ASSUME B # {} PROVE FALSE
  OBVIOUS
<1>2. PICK T \in B : \A U \in B : U \subseteq T => U = T
  <2>1. B \in SUBSET (SUBSET S)
    OBVIOUS
  <2> HIDE DEF B
  <2> QED BY <1>1, <2>1, SmallestSet
<1>3. T \in SUBSET S /\ IsFiniteSet(T)
  BY <1>2, FS_Subset
<1>4. T # {}
  BY <1>2, SumOfNone
<1> DEFINE x == Picked(T)
<1>5. x \in T /\ T \ {x} \in SUBSET S /\ T \ {x} \subseteq T /\ T \ {x} # T
  BY <1>3, <1>4 DEF Picked
<1>6. SumFunctionOnSet(f, T \ {x}) = SumFunctionOnSet(g, T \ {x})
  BY <1>2, <1>5
<1>7. /\ SumFunctionOnSet(f, T) = f[x] + SumFunctionOnSet(f, T \ {x})
      /\ SumFunctionOnSet(g, T) = g[x] + SumFunctionOnSet(g, T \ {x})
  BY <1>3, <1>4, SumEquation
<1>8. f[x] = g[x]
  BY <1>3, <1>5
<1> QED BY <1>2, <1>6, <1>7, <1>8

\* Naturals add up to a natural, no less than any of them.
LEMMA SumOfNaturals ==
    ASSUME NEW S, IsFiniteSet(S), NEW f, \A x \in S : f[x] \in Nat
    PROVE  /\ SumFunctionOnSet(f, S) \in Nat
           /\ \A x \in S : f[x] <= SumFunctionOnSet(f, S)
<1>1. ASSUME NEW T \in SUBSET S PROVE SumFunctionOnSet(f, T) \in Nat
  <2>1. IsFiniteSet(T)
    BY FS_Subset
  <2>2. SumFunctionOnSet(f, T) \in Int
    BY <2>1, SumStep
  <2>3. \A m, k, c \in Int : (\A x \in T : m * f[x] <= k * f[x] + c) =>
          m * SumFunctionOnSet(f, T) <= k * SumFunctionOnSet(f, T) + c * Cardinality(T)
    <3>1. \A x \in T : f[x] \in Int /\ f[x] \in Int
      OBVIOUS
    <3> QED BY <2>1, <3>1, SumBound
  <2>4. Cardinality(T) \in Nat
    BY <2>1, FS_CardinalityType
  <2>5. 0 * SumFunctionOnSet(f, T) <= 1 * SumFunctionOnSet(f, T) + 0 * Cardinality(T)
    <3>1. \A x \in T : 0 * f[x] <= 1 * f[x] + 0
      OBVIOUS
    <3> QED BY <2>3, <3>1
  <2> QED BY <2>2, <2>4, <2>5
<1>2. ASSUME NEW x \in S PROVE f[x] <= SumFunctionOnSet(f, S)
  <2>1. SumFunctionOnSet(f, S) = f[x] + SumFunctionOnSet(f, S \ {x})
    BY SumStep
  <2>2. SumFunctionOnSet(f, S \ {x}) \in Nat /\ f[x] \in Nat
    BY <1>1
  <2> QED BY <2>1, <2>2
<1> QED BY <1>1, <1>2

\* A common positive factor may be dropped.
LEMMA Cancel ==
    ASSUME NEW a \in Int, NEW b \in Int, NEW z \in Nat \ {0}, z * a <= z * b
    PROVE  a <= b
<1>1. SUFFICES ASSUME b + 1 <= a PROVE FALSE
  OBVIOUS
<1>2. PICK k \in Nat : a = b + 1 + k
  <2>1. a - b - 1 \in Nat /\ a = b + 1 + (a - b - 1)
    BY <1>1
  <2> QED BY <2>1
<1>3. z * a = z * b + z + z * k
  BY <1>2
<1>4. z * k \in Nat /\ z * b \in Int /\ z > 0
  BY <1>2
<1> QED BY <1>3, <1>4

------------------------------------------------------------------------------
(* Pairs, counted row by row.                                              *)

\* Sets without a common element.
LEMMA ApartAddUp ==
    ASSUME NEW S, IsFiniteSet(S), NEW T, IsFiniteSet(T), S \cap T = {}
    PROVE  /\ Cardinality(S) \in Nat /\ Cardinality(T) \in Nat
           /\ Cardinality(S \cup T) = Cardinality(S) + Cardinality(T)
<1>1. Cardinality(S) \in Nat /\ Cardinality(T) \in Nat /\ Cardinality({}) = 0
  BY FS_CardinalityType, FS_EmptySet
<1>2. Cardinality(S \cup T)
        = Cardinality(S) + Cardinality(T) - Cardinality(S \cap T)
  BY FS_Union
<1>3. Cardinality(S \cap T) = 0
  BY <1>1
<1> QED BY <1>1, <1>2, <1>3

\* The pairs of some first elements, and what one of them is paired with.
PairsFrom(R, T) == {q \in R : q[1] \in T}
PairedWith(R, B, x) == {y \in B : <<x, y>> \in R}

\* With the row of x the pairs are as many more as x is paired with.
RowAdds(R, B, T, x) ==
    /\ Cardinality(PairsFrom(R, T)) \in Nat
    /\ Cardinality(PairedWith(R, B, x)) \in Nat
    /\ Cardinality(PairsFrom(R, T \cup {x}))
         = Cardinality(PairsFrom(R, T)) + Cardinality(PairedWith(R, B, x))

\* A row more, and its pairs more.
LEMMA RowStep ==
    ASSUME NEW A, IsFiniteSet(A), NEW B, IsFiniteSet(B), NEW R \in SUBSET (A \X B),
           NEW T \in SUBSET A, NEW x \in A \ T
    PROVE  RowAdds(R, B, T, x)
<1> DEFINE old == PairsFrom(R, T)
           row == PairedWith(R, B, x)
           new == {x} \X row
<1>1. IsFiniteSet(R)
  BY FS_Product, FS_Subset
<1>2. IsFiniteSet(old) /\ Cardinality(old) \in Nat
  BY <1>1, FS_Subset, FS_CardinalityType DEF PairsFrom
<1>3. IsFiniteSet(row) /\ Cardinality(row) \in Nat
  BY FS_Subset, FS_CardinalityType DEF PairedWith
<1>4. IsFiniteSet(new) /\ Cardinality(new) = Cardinality(row)
  <2>1. IsFiniteSet({x}) /\ Cardinality({x}) = 1
    BY FS_Singleton
  <2>2. IsFiniteSet(new) /\ Cardinality(new) = Cardinality({x}) * Cardinality(row)
    <3> HIDE DEF row
    <3> QED BY <2>1, <1>3, FS_Product
  <2> QED BY <2>1, <2>2, <1>3
<1>5. PairsFrom(R, T \cup {x}) = old \cup new /\ old \cap new = {}
  <2>1. \A q \in R : q = <<q[1], q[2]>> /\ q[1] \in A /\ q[2] \in B
    OBVIOUS
  <2>2. \A q \in new : q \in R /\ q[1] = x
    BY DEF PairedWith
  <2>3. \A q \in R : q[1] = x => q \in new
    BY <2>1 DEF PairedWith
  <2> HIDE DEF new
  <2> QED BY <2>1, <2>2, <2>3 DEF PairsFrom
<1>6. Cardinality(old \cup new) = Cardinality(old) + Cardinality(new)
  <2> HIDE DEF old, new
  <2> QED BY <1>2, <1>4, <1>5, ApartAddUp
<1> QED BY <1>2, <1>3, <1>4, <1>5, <1>6 DEF RowAdds

\* What a row adds to the count of two relations, the first one twice, and of rows.
IsRowCount(f, A, B, R, Q) ==
    \A x \in A : f[x] = 2 * Cardinality(PairedWith(R, B, x))
                         + Cardinality(PairedWith(Q, B, x)) + 1

\* Row by row the pairs are counted.
LEMMA CountedByRow ==
    ASSUME NEW A, IsFiniteSet(A), NEW B, IsFiniteSet(B),
           NEW R \in SUBSET (A \X B), NEW Q \in SUBSET (A \X B), NEW f,
           IsRowCount(f, A, B, R, Q)
    PROVE  SumFunctionOnSet(f, A) = 2 * Cardinality(R) + Cardinality(Q) + Cardinality(A)
<1> DEFINE P == {T \in SUBSET A : SumFunctionOnSet(f, T)
                   = 2 * Cardinality(PairsFrom(R, T)) + Cardinality(PairsFrom(Q, T))
                       + Cardinality(T)}
<1>1. \A x \in A : f[x] \in Int
  <2>1. ASSUME NEW x \in A PROVE f[x] \in Int
    <3>1. PairedWith(R, B, x) \in SUBSET B /\ PairedWith(Q, B, x) \in SUBSET B
      BY DEF PairedWith
    <3>2. /\ Cardinality(PairedWith(R, B, x)) \in Nat
          /\ Cardinality(PairedWith(Q, B, x)) \in Nat
      BY <3>1, FS_Subset, FS_CardinalityType
    <3> QED BY <3>2 DEF IsRowCount
  <2> QED BY <2>1
<1>2. {} \in P
  <2>1. PairsFrom(R, {}) = {} /\ PairsFrom(Q, {}) = {}
    BY DEF PairsFrom
  <2>2. SumFunctionOnSet(f, {}) = 0 /\ Cardinality({}) = 0
    BY SumOfNone, FS_EmptySet
  <2>3. SumFunctionOnSet(f, {})
          = 2 * Cardinality(PairsFrom(R, {})) + Cardinality(PairsFrom(Q, {}))
              + Cardinality({})
    <3>1. Cardinality(PairsFrom(R, {})) = 0 /\ Cardinality(PairsFrom(Q, {})) = 0
      BY <2>1, <2>2
    <3> QED BY <2>2, <3>1
  <2> QED BY <2>3
<1>3. ASSUME NEW T \in SUBSET A, NEW x \in A \ T, T \in P PROVE T \cup {x} \in P
  <2> HIDE DEF P
  <2>1. /\ SumFunctionOnSet(f, T) \in Int
        /\ SumFunctionOnSet(f, T \cup {x}) = f[x] + SumFunctionOnSet(f, T)
    BY <1>1, SumInsert
  <2>2. Cardinality(T \cup {x}) = Cardinality(T) + 1 /\ Cardinality(T) \in Nat
    BY FS_Subset, FS_AddElement, FS_CardinalityType
  <2>3. RowAdds(R, B, T, x) /\ RowAdds(Q, B, T, x)
    BY RowStep
  <2>5. f[x] = 2 * Cardinality(PairedWith(R, B, x)) + Cardinality(PairedWith(Q, B, x)) + 1
    BY DEF IsRowCount
  <2>6. SumFunctionOnSet(f, T) = 2 * Cardinality(PairsFrom(R, T))
                                   + Cardinality(PairsFrom(Q, T)) + Cardinality(T)
    BY <1>3 DEF P
  <2>7. SumFunctionOnSet(f, T \cup {x})
          = 2 * Cardinality(PairsFrom(R, T \cup {x})) + Cardinality(PairsFrom(Q, T \cup {x}))
              + Cardinality(T \cup {x})
    BY <2>1, <2>2, <2>3, <2>5, <2>6 DEF RowAdds
  <2> QED BY <2>7 DEF P
<1>4. A \in P
  <2> HIDE DEF P
  <2> QED BY <1>2, <1>3, SetInduction
<1>5. PairsFrom(R, A) = R /\ PairsFrom(Q, A) = Q
  BY DEF PairsFrom
<1> QED BY <1>4, <1>5

\* Of two elements the one is above the other, or below, or as high.
LEMMA OrderedPairs ==
    ASSUME NEW A, IsFiniteSet(A), NEW s, \A x \in A : s[x] \in Int
    PROVE  2 * Cardinality({q \in A \X A : s[q[2]] < s[q[1]]})
             + Cardinality({q \in A \X A : s[q[2]] = s[q[1]]})
           = Cardinality(A) * Cardinality(A)
<1> DEFINE all == A \X A
           down == {q \in all : s[q[2]] < s[q[1]]}
           up   == {q \in all : s[q[1]] < s[q[2]]}
           even == {q \in all : s[q[2]] = s[q[1]]}
<1>1. IsFiniteSet(all) /\ Cardinality(all) = Cardinality(A) * Cardinality(A)
  BY FS_Product
<1>2. /\ down \in SUBSET all /\ up \in SUBSET all /\ even \in SUBSET all
      /\ (down \cup up) \cup even = all
      /\ down \cap up = {} /\ (down \cup up) \cap even = {}
  <2>1. \A q \in all : s[q[1]] \in Int /\ s[q[2]] \in Int
    OBVIOUS
  <2> HIDE DEF all
  <2> QED BY <2>1
<1>3. Cardinality(up) = Cardinality(down)
  <2> DEFINE swap == [q \in down |-> <<q[2], q[1]>>]
  <2>1. \A q \in down : q = <<q[1], q[2]>> /\ <<q[2], q[1]>> \in up
    OBVIOUS
  <2>2. \A q \in up : q = <<q[1], q[2]>> /\ <<q[2], q[1]>> \in down
    OBVIOUS
  <2> HIDE DEF down, up
  <2>3. swap \in Bijection(down, up)
    <3>1. swap \in [down -> up]
      BY <2>1
    <3>2. ASSUME NEW p \in down, NEW q \in down, swap[p] = swap[q] PROVE p = q
      <4>1. <<p[2], p[1]>> = <<q[2], q[1]>>
        BY <3>2
      <4>2. p[1] = q[1] /\ p[2] = q[2]
        BY <4>1
      <4> QED BY <4>2, <2>1
    <3>3. ASSUME NEW q \in up PROVE \E p \in down : swap[p] = q
      <4>1. swap[<<q[2], q[1]>>] = q
        BY <2>2
      <4> QED BY <4>1, <2>2
    <3> QED BY <3>1, <3>2, <3>3 DEF Bijection, Injection, IsInjective, Surjection
  <2>4. IsFiniteSet(down)
    BY <1>1, <1>2, FS_Subset
  <2> QED BY <2>3, <2>4, FS_Bijection DEF ExistsBijection
<1> HIDE DEF all, down, up, even
<1>4. /\ IsFiniteSet(down) /\ IsFiniteSet(up) /\ IsFiniteSet(even)
      /\ IsFiniteSet(down \cup up)
  BY <1>1, <1>2, FS_Subset, FS_Union
<1>5. /\ Cardinality(down) \in Nat /\ Cardinality(up) \in Nat /\ Cardinality(even) \in Nat
      /\ Cardinality({}) = 0
  BY <1>4, FS_CardinalityType, FS_EmptySet
<1>6. Cardinality(down \cup up) = Cardinality(down) + Cardinality(up)
  BY <1>2, <1>4, ApartAddUp
<1>7. Cardinality(all) = Cardinality(down \cup up) + Cardinality(even)
  <2> DEFINE both == down \cup up
  <2>1. IsFiniteSet(both) /\ both \cap even = {} /\ both \cup even = all
    BY <1>2, <1>4
  <2> HIDE DEF both
  <2>2. Cardinality(both \cup even) = Cardinality(both) + Cardinality(even)
    BY <1>4, <2>1, ApartAddUp
  <2> QED BY <2>1, <2>2 DEF both
<1>8. 2 * Cardinality(down) + Cardinality(even) = Cardinality(A) * Cardinality(A)
  BY <1>1, <1>3, <1>5, <1>6, <1>7
<1> QED BY <1>8 DEF down, even, all
===============================================================================
