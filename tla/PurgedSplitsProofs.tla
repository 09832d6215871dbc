-------------------------- MODULE PurgedSplitsProofs --------------------------
(***************************************************************************)
(* The purge never leaks and drops nothing it need not, for every          *)
(* timeline, grouping, choice of test groups and embargo.  The argument is *)
(* about one test position j: it lies in a maximal run (RunAround), and a  *)
(* training position cleared that run on one side or the other.  The paths *)
(* partition the out-of-sample results: the splits that test a group are   *)
(* as many as the paths, and the order of the splits deals them out.       *)
(*                                                                         *)
(* What is built on the splits: a study makes them as the scheme does, and *)
(* what it says of a test row depends on nothing the purge cleared, and    *)
(* what it logs is what it tried and how well that ranked the rows; the    *)
(* rotation, whose labels end at an estimated day, still learns from no    *)
(* session that meets the one it scores.  The books of the rotation need   *)
(* sums: each leg loses less than a unit where a quotient is rounded, so   *)
(* all of them lose at most a unit a leg (BooksAddUp).                     *)
(***************************************************************************)
EXTENDS TrainingFolds, EtfRotation, FiniteOrder

\* Positions are the integers from 0 to NumObs - 1.
LEMMA PosFacts == /\ Pos \subseteq Int /\ Pos \subseteq Nat
                  /\ \A i \in Pos : 0 <= i /\ i <= NumObs - 1
                  /\ NumObs \in Nat /\ Embargo \in Nat
BY SplitAssumption DEF Pos

\* Event times are compared as integers.
LEMMA TimesAreIntegers == Times \subseteq Int
BY SplitAssumption DEF Times

\* Every test position lies in a maximal run of test positions.
LEMMA RunAround ==
    ASSUME NEW test \in SUBSET Pos, NEW j \in test
    PROVE  \E a, b \in Pos : IsRun(test, a, b) /\ a <= j /\ j <= b
<1>1. j \in Pos /\ j \in Int
  BY PosFacts
<1> DEFINE L == {x \in Pos : x <= j /\ x .. j \subseteq test}
           R == {x \in Pos : j <= x /\ j .. x \subseteq test}
<1>2. \A S \in SUBSET Pos : IsFiniteSet(S) /\ S \in SUBSET Int
  <2>1. IsFiniteSet(Pos)
    BY FS_Interval, SplitAssumption DEF Pos
  <2> QED BY <2>1, FS_Subset, PosFacts
<1>3. j .. j = {j}
  BY <1>1
<1>4. j \in L /\ j \in R
  BY <1>1, <1>3
<1>5. PICK a \in L : \A x \in L : a <= x
  <2>1. L \in SUBSET Pos /\ L # {}
    BY <1>4
  <2> HIDE DEF L
  <2> QED BY <2>1, <1>2, LeastElement
<1>6. PICK b \in R : \A x \in R : x <= b
  <2>1. R \in SUBSET Pos /\ R # {}
    BY <1>4
  <2> HIDE DEF R
  <2> QED BY <2>1, <1>2, GreatestElement
<1>7. a \in Int /\ b \in Int /\ a \in Pos /\ b \in Pos /\ a <= j /\ j <= b
  BY PosFacts
<1>8. a .. b \subseteq test
  <2>1. ASSUME NEW x \in a .. b PROVE x \in a .. j \/ x \in j .. b
    BY <1>1, <1>7
  <2> QED BY <2>1, <1>5, <1>6
<1>9. a - 1 \notin test
  <2>1. SUFFICES ASSUME a - 1 \in test PROVE FALSE
    OBVIOUS
  <2>2. a - 1 \in Pos /\ a - 1 <= j
    BY <2>1, <1>1, <1>7
  <2>3. ASSUME NEW x \in (a - 1) .. j PROVE x = a - 1 \/ x \in a .. j
    BY <1>1, <1>7
  <2>4. (a - 1) .. j \subseteq test
    BY <2>1, <2>3, <1>5
  <2>5. a - 1 \in L
    BY <2>2, <2>4
  <2>6. a <= a - 1
    BY <2>5, <1>5
  <2> QED BY <2>6, <1>7
<1>10. b + 1 \notin test
  <2>1. SUFFICES ASSUME b + 1 \in test PROVE FALSE
    OBVIOUS
  <2>2. b + 1 \in Pos /\ j <= b + 1
    BY <2>1, <1>1, <1>7
  <2>3. ASSUME NEW x \in j .. (b + 1) PROVE x = b + 1 \/ x \in j .. b
    BY <1>1, <1>7
  <2>4. j .. (b + 1) \subseteq test
    BY <2>1, <2>3, <1>6
  <2>5. b + 1 \in R
    BY <2>2, <2>4
  <2>6. b + 1 <= b
    BY <2>5, <1>6
  <2> QED BY <2>6, <1>7
<1>11. a <= b
  BY <1>1, <1>7
<1>12. IsRun(test, a, b)
  BY <1>7, <1>8, <1>9, <1>10, <1>11 DEF IsRun
<1> QED BY <1>12, <1>7

\* What validated labels give at a position.
LEMMA LabelFacts ==
    ASSUME ValidLabels
    PROVE  \A i \in Pos : /\ starts[i] \in Int /\ ends[i] \in Int
                          /\ starts[i] \in Times /\ ends[i] \in Times
                          /\ starts[i] <= ends[i]
                          /\ \A k \in Pos : i <= k => starts[i] <= starts[k]
<1>1. \A i \in Pos : /\ starts[i] \in Times /\ ends[i] \in Times
                     /\ starts[i] <= ends[i]
  BY DEF ValidLabels
<1>2. \A i \in Pos : starts[i] \in Int /\ ends[i] \in Int
  BY <1>1, TimesAreIntegers
<1>3. ASSUME NEW i \in Pos, NEW k \in Pos, i <= k
      PROVE  starts[i] <= starts[k]
  <2>1. CASE i = k
    BY <2>1, <1>2
  <2>2. CASE i < k
    <3>1. starts[i] < starts[k]
      BY <2>2 DEF ValidLabels
    <3> QED BY <3>1, <1>2
  <2> QED BY <2>1, <2>2, <1>3, PosFacts
<1> QED BY <1>1, <1>2, <1>3

\* A training position cleared the run around any test position.
LEMMA Cleared ==
    ASSUME ValidLabels,
           NEW test \in SUBSET Pos, NEW i \in PurgedTrain(test), NEW j \in test
    PROVE  /\ i \in Pos /\ i \notin test
           /\ \/ ends[i] < starts[j]
              \/ /\ i - Embargo \in Pos
                 /\ starts[i - Embargo] > ends[j]
<1>1. i \in Pos /\ i \notin test
  BY DEF PurgedTrain
<1>2. PICK a, b \in Pos : IsRun(test, a, b) /\ a <= j /\ j <= b
  BY RunAround
<1>3. Before(i, a) \/ After(i, a, b)
  BY <1>1, <1>2 DEF PurgedTrain
<1>4. j \in Pos
  OBVIOUS
<1>5. CASE Before(i, a)
  <2>1. ends[i] < starts[a] /\ starts[a] <= starts[j]
    BY <1>5, <1>2, <1>4, LabelFacts DEF Before
  <2>2. ends[i] \in Int /\ starts[a] \in Int /\ starts[j] \in Int
    BY <1>1, <1>2, <1>4, LabelFacts
  <2> QED BY <2>1, <2>2, <1>1
<1>6. CASE After(i, a, b)
  <2>1. PICK t \in Times, p \in 0 .. NumObs :
           IsLastEnd(t, a, b) /\ IsResume(p, t) /\ i >= p + Embargo
    BY <1>6 DEF After
  <2>2. j \in a .. b
    BY <1>2, <1>4, PosFacts
  <2>3. ends[j] <= t
    BY <2>1, <2>2 DEF IsLastEnd
  <2>4. i \in Int /\ p \in Int /\ 0 <= p /\ i <= NumObs - 1
    BY <1>1, PosFacts, SplitAssumption
  <2>5. i - Embargo \in p .. NumObs - 1
    BY <2>1, <2>4, PosFacts
  <2>6. i - Embargo \in Pos
    BY <2>5, <2>4, PosFacts DEF Pos
  <2>7. starts[i - Embargo] > t
    BY <2>1, <2>5 DEF IsResume
  <2>8. starts[i - Embargo] \in Int /\ ends[j] \in Int /\ t \in Int
    BY <2>6, <1>4, LabelFacts, TimesAreIntegers
  <2>9. starts[i - Embargo] > ends[j]
    BY <2>3, <2>7, <2>8
  <2> QED BY <2>6, <2>9, <1>1
<1> QED BY <1>3, <1>5, <1>6

\* What every finished split satisfies.
Purged == \A c \in done : train[c] = PurgedTrain(TestOf(c))

\* The part of the type invariant the proof needs, and the purge.
IInv == /\ ValidLabels
        /\ done \subseteq Combos
        /\ train \in [Combos -> SUBSET Pos]
        /\ Purged

\* The invariant holds of every behaviour: a split is purged when it is made and
\* neither its labels nor its training set change afterwards.
THEOREM Invariance == Spec => []IInv
<1>1. Init => IInv
  <2> SUFFICES ASSUME Init PROVE IInv
    OBVIOUS
  <2>1. ValidLabels
    <3>1. \A i \in Pos : starts[i] <= ends[i]
      <4> SUFFICES ASSUME NEW i \in Pos PROVE starts[i] <= ends[i]
        OBVIOUS
      <4>1. starts[i] \in Times
        BY DEF Init
      <4>2. starts[i] \in Int /\ MaxHorizon \in Int
        <5>1. MaxHorizon \in Int
          BY SplitAssumption
        <5> QED BY <4>1, <5>1, TimesAreIntegers
      <4>3. ends[i] \in starts[i] .. starts[i] + MaxHorizon
        BY DEF Init
      <4> QED BY <4>2, <4>3
    <3> QED BY <3>1 DEF Init, ValidLabels
  <2> QED BY <2>1 DEF Init, IInv, Purged
<1>2. IInv /\ [Next]_vars => IInv'
  <2> SUFFICES ASSUME IInv, [Next]_vars PROVE IInv'
    OBVIOUS
  <2> USE DEF IInv
  <2>1. ASSUME NEW c \in Combos, Split(c) PROVE IInv'
    <3>1. starts' = starts /\ ends' = ends
      BY <2>1 DEF Split, input
    <3>2. ValidLabels' /\ PurgedTrain(TestOf(c)) \in SUBSET Pos
      BY <3>1 DEF ValidLabels, PurgedTrain
    <3>3. done' \subseteq Combos /\ train' \in [Combos -> SUBSET Pos]
      BY <2>1, <3>2 DEF Split
    <3>4. \A d \in Combos : PurgedTrain(TestOf(d))' = PurgedTrain(TestOf(d))
      BY <3>1 DEF PurgedTrain, TestOf, IsRun, Before, After, IsLastEnd, IsResume
    <3>5. Purged'
      <4> SUFFICES ASSUME NEW d \in done'
                   PROVE  train'[d] = PurgedTrain(TestOf(d))'
        BY DEF Purged
      <4>1. d \in Combos /\ (d = c \/ d \in done)
        BY <2>1, <3>3 DEF Split
      <4>2. CASE d = c
        BY <4>2, <2>1, <3>4 DEF Split
      <4>3. CASE d # c
        BY <4>1, <4>3, <2>1, <3>4 DEF Split, Purged
      <4> QED BY <4>2, <4>3
    <3> QED BY <3>2, <3>3, <3>5
  <2>2. ASSUME UNCHANGED <<starts, ends, done, train>> PROVE IInv'
    BY <2>2 DEF ValidLabels, Purged, PurgedTrain, TestOf, IsRun, Before, After,
                IsLastEnd, IsResume
  <2>3. CASE \E p \in Paths : Stitch(p)
    BY <2>2, <2>3 DEF Stitch, input
  <2>4. CASE UNCHANGED vars
    BY <2>2, <2>4 DEF vars
  <2> QED BY <2>1, <2>3, <2>4 DEF Next
<1> QED BY <1>1, <1>2, PTL DEF Spec

\* The test positions of a combination are positions.
LEMMA TestOfType == \A c : TestOf(c) \in SUBSET Pos
BY DEF TestOf

\* So no training label shares an instant with a test label.
LEMMA NothingOverlaps ==
    ASSUME ValidLabels,
           NEW test \in SUBSET Pos, NEW i \in PurgedTrain(test), NEW j \in test
    PROVE  i # j /\ ~ Overlap(i, j) /\ ~ Overlap(j, i)
<1>1. /\ i \in Pos /\ i \notin test /\ j \in Pos
      /\ ends[i] < starts[j]
           \/ (i - Embargo \in Pos /\ starts[i - Embargo] > ends[j])
  BY Cleared
<1>2. CASE ends[i] < starts[j]
  <2>1. ends[i] \in Int /\ starts[j] \in Int
    BY <1>1, LabelFacts
  <2> QED BY <2>1, <1>1, <1>2 DEF Overlap
<1>3. CASE i - Embargo \in Pos /\ starts[i - Embargo] > ends[j]
  <2>1. i \in Int /\ i - Embargo <= i
    BY <1>1, PosFacts
  <2>2. starts[i - Embargo] <= starts[i]
    BY <2>1, <1>1, <1>3, LabelFacts
  <2>3. starts[i] \in Int /\ starts[i - Embargo] \in Int /\ ends[j] \in Int
    BY <1>1, <1>3, LabelFacts
  <2> QED BY <2>2, <2>3, <1>1, <1>3 DEF Overlap
<1> QED BY <1>1, <1>2, <1>3

\* No training label of any split overlaps a test label of it, and no test
\* observation is trained on: purged_train_mask, for every number of
\* observations, groups and test groups.
THEOREM NoLeakage == Spec => []NoLeak
<1>1. IInv => NoLeak
  <2> SUFFICES ASSUME IInv, NEW c \in done,
                      NEW i \in train[c], NEW j \in TestOf(c)
               PROVE  i # j /\ ~ Overlap(i, j)
    BY DEF NoLeak
  <2>1. i \in PurgedTrain(TestOf(c)) /\ TestOf(c) \in SUBSET Pos /\ ValidLabels
    BY TestOfType DEF IInv, Purged
  <2> QED BY <2>1, NothingOverlaps
<1> QED BY <1>1, Invariance, PTL

\* Training resumes Embargo observations after the first one clear of the test
\* labels: the embargo of purged_train_mask, for every embargo length.
THEOREM EmbargoRespected == Spec => []Embargoed
<1>1. IInv => Embargoed
  <2> SUFFICES ASSUME IInv, NEW c \in done,
                      NEW i \in train[c], NEW j \in TestOf(c),
                      starts[i] > ends[j]
               PROVE  i - Embargo \in Pos /\ starts[i - Embargo] > ends[j]
    BY DEF Embargoed
  <2>1. i \in PurgedTrain(TestOf(c)) /\ TestOf(c) \in SUBSET Pos /\ ValidLabels
    BY TestOfType DEF IInv, Purged
  <2>2. /\ i \in Pos
        /\ ends[i] < starts[j]
             \/ (i - Embargo \in Pos /\ starts[i - Embargo] > ends[j])
    BY <2>1, Cleared
  <2>3. /\ starts[i] \in Int /\ ends[i] \in Int /\ starts[i] <= ends[i]
        /\ starts[j] \in Int /\ ends[j] \in Int /\ starts[j] <= ends[j]
    BY <2>1, <2>2, LabelFacts
  <2>4. ~ (ends[i] < starts[j])
    BY <2>3
  <2> QED BY <2>2, <2>4
<1> QED BY <1>1, Invariance, PTL

\* A run of test positions has a latest label end.
LEMMA LastEndExists ==
    ASSUME ValidLabels, NEW a \in Pos, NEW b \in Pos, a <= b, a .. b \subseteq Pos
    PROVE  \E k \in a .. b : IsLastEnd(ends[k], a, b)
<1> DEFINE E == {ends[k] : k \in a .. b}
<1>1. a \in Int /\ b \in Int /\ a \in a .. b
  BY PosFacts
<1>2. E \in SUBSET Int /\ E # {}
  BY <1>1, LabelFacts
<1>3. IsFiniteSet(E)
  <2> DEFINE f == [k \in a .. b |-> ends[k]]
  <2>1. f \in Surjection(a .. b, E)
    BY DEF Surjection
  <2>2. IsFiniteSet(a .. b)
    BY <1>1, FS_Interval
  <2> HIDE DEF E, f
  <2> QED BY <2>1, <2>2, FS_Surjection
<1>4. PICK t \in E : \A u \in E : u <= t
  <2> HIDE DEF E
  <2> QED BY <1>2, <1>3, GreatestElement
<1>5. PICK k \in a .. b : t = ends[k]
  BY <1>4
<1>6. \A m \in a .. b : ends[m] <= t
  BY <1>4
<1> QED BY <1>5, <1>6 DEF IsLastEnd

\* searchsorted always finds a place.
LEMMA ResumeExists ==
    ASSUME ValidLabels, NEW t \in Times
    PROVE  \E p \in 0 .. NumObs : IsResume(p, t)
<1> DEFINE L == {j \in Pos : starts[j] > t}
<1>1. t \in Int /\ NumObs \in Nat
  BY TimesAreIntegers, SplitAssumption
<1>2. CASE L = {}
  <2>1. \A j \in Pos : starts[j] <= t
    BY <1>1, <1>2, LabelFacts
  <2>2. IsResume(NumObs, t)
    BY <2>1, <1>1 DEF IsResume, Pos
  <2> QED BY <2>2, <1>1
<1>3. CASE L # {}
  <2>1. L \in SUBSET Int /\ IsFiniteSet(L)
    <3>1. IsFiniteSet(Pos)
      BY FS_Interval, SplitAssumption DEF Pos
    <3> QED BY <3>1, FS_Subset, PosFacts
  <2>2. PICK p \in L : \A j \in L : p <= j
    <3> HIDE DEF L
    <3> QED BY <1>3, <2>1, LeastElement
  <2>3. p \in Pos /\ p \in Int /\ 0 <= p /\ p <= NumObs - 1 /\ starts[p] > t
    BY <2>2, PosFacts
  <2>4. ASSUME NEW j \in 0 .. p - 1 PROVE starts[j] <= t
    <3>1. j \in Pos /\ j \notin L
      BY <2>2, <2>3, <1>1 DEF Pos
    <3> QED BY <3>1, <1>1, LabelFacts
  <2>5. ASSUME NEW j \in p .. NumObs - 1 PROVE starts[j] > t
    <3>1. j \in Pos /\ p <= j
      BY <2>3, <1>1 DEF Pos
    <3>2. starts[p] <= starts[j] /\ starts[p] \in Int /\ starts[j] \in Int
      BY <3>1, <2>3, LabelFacts
    <3> QED BY <3>2, <2>3, <1>1
  <2> QED BY <2>3, <2>4, <2>5, <1>1 DEF IsResume
<1> QED BY <1>2, <1>3

\* What is neither tested nor trained on reaches into the span of a test run, or
\* is within the embargo of it: purged_train_mask drops nothing else.
THEOREM PurgeDropsNothingElse == Spec => []PurgeIsExact
<1>1. IInv => PurgeIsExact
  <2> SUFFICES ASSUME IInv, NEW c \in done, NEW i \in (Pos \ TestOf(c)) \ train[c]
               PROVE  \E a, b \in TestOf(c) :
                         /\ a <= b /\ a .. b \subseteq TestOf(c)
                         /\ \/ starts[a] <= ends[i] /\ \E k \in a .. b : starts[i] <= ends[k]
                            \/ \E k \in a .. b :
                                 i > k /\ (i < Embargo \/ starts[i - Embargo] <= ends[k])
    BY DEF PurgeIsExact
  <2> DEFINE test == TestOf(c)
  <2>1. test \in SUBSET Pos /\ ValidLabels /\ i \in Pos /\ i \notin PurgedTrain(test)
    BY TestOfType DEF IInv, Purged
  <2> HIDE DEF test
  <2>2. PICK a, b \in Pos : IsRun(test, a, b) /\ ~ Before(i, a) /\ ~ After(i, a, b)
    <3>1. i \notin test
      BY DEF test
    <3> QED BY <3>1, <2>1 DEF PurgedTrain
  <2>3. /\ a <= b /\ a .. b \subseteq test /\ a \in Int /\ b \in Int /\ i \in Int
        /\ a \in test /\ b \in test
    <3>1. a \in Int /\ b \in Int /\ i \in Int
      BY <2>1, PosFacts
    <3>2. a <= b /\ a .. b \subseteq test
      BY <2>2 DEF IsRun
    <3> QED BY <3>1, <3>2
  <2>4. starts[a] <= ends[i]
    BY <2>1, <2>2, LabelFacts DEF Before
  <2>5. PICK k \in a .. b : IsLastEnd(ends[k], a, b)
    BY <2>1, <2>2, <2>3, LastEndExists
  <2>6. k \in Pos /\ k \in Int /\ ends[k] \in Times /\ ends[k] \in Int
    BY <2>1, <2>3, <2>5, PosFacts, LabelFacts
  <2>7. PICK p \in 0 .. NumObs : IsResume(p, ends[k])
    BY <2>1, <2>6, ResumeExists
  <2>8. ~ (i >= p + Embargo)
    BY <2>2, <2>5, <2>6, <2>7 DEF After
  <2>9. CASE starts[i] <= ends[k]
    BY <2>9, <2>3, <2>4, <2>5 DEF test
  <2>10. CASE ~ (starts[i] <= ends[k])
    <3>1. i > k
      <4>1. CASE i <= k
        <5>1. starts[i] <= starts[k] /\ starts[k] <= ends[k] /\ starts[k] \in Int
              /\ starts[i] \in Int
          BY <4>1, <2>1, <2>6, LabelFacts
        <5> QED BY <5>1, <2>10, <2>6
      <4> QED BY <4>1, <2>3, <2>6
    <3>2. i >= Embargo => starts[i - Embargo] <= ends[k]
      <4>1. SUFFICES ASSUME i >= Embargo PROVE starts[i - Embargo] <= ends[k]
        OBVIOUS
      <4>2. i - Embargo \in 0 .. p - 1
        BY <4>1, <2>3, <2>8, PosFacts
      <4> QED BY <4>2, <2>7 DEF IsResume
    <3>3. i < Embargo \/ starts[i - Embargo] <= ends[k]
      BY <3>2, <2>3, PosFacts
    <3> QED BY <3>1, <3>3, <2>3, <2>5 DEF test
  <2> QED BY <2>9, <2>10
<1> QED BY <1>1, Invariance, PTL

------------------------------------------------------------------------------
(* The paths.  Combinations are ordered, as many of them test each group   *)
(* as there are paths, so a group's test results are dealt to the paths    *)
(* one each (Dealt); and each observation is in exactly one group.         *)

\* Combinations are finitely many finite sets of groups.
LEMMA CombosFinite == /\ IsFiniteSet(Groups) /\ IsFiniteSet(Combos)
                      /\ Groups \in SUBSET Int /\ TestGroups \in Nat /\ 0 \in Groups
                      /\ \A c \in Combos : c \in SUBSET Groups /\ IsFiniteSet(c)
                                           /\ Cardinality(c) = TestGroups
<1>1. IsFiniteSet(Groups) /\ Groups \in SUBSET Int /\ TestGroups \in Nat /\ 0 \in Groups
  BY FS_Interval, SplitAssumption DEF Groups
<1>2. IsFiniteSet(SUBSET Groups)
  BY <1>1, FS_SUBSET
<1>3. Combos \in SUBSET (SUBSET Groups)
  BY DEF Combos
<1>4. IsFiniteSet(Combos)
  BY <1>2, <1>3, FS_Subset
<1>5. \A c \in Combos : IsFiniteSet(c)
  BY <1>1, <1>3, FS_Subset
<1> QED BY <1>1, <1>3, <1>4, <1>5 DEF Combos

\* No combination comes before itself.
LEMMA OrderIsStrict == \A c \in Combos : ~ Precedes(c, c)
BY DEF Precedes

\* Of two combinations one comes first: the one that has the least group in
\* which they differ.
LEMMA OrderIsTotal ==
    ASSUME NEW c \in Combos, NEW d \in Combos, c # d
    PROVE  Precedes(c, d) \/ Precedes(d, c)
<1> DEFINE Diff == (c \ d) \cup (d \ c)
<1>1. Diff \in SUBSET Groups /\ Diff # {}
  BY CombosFinite
<1>2. PICK g \in Diff : \A h \in Diff : g <= h
  <2> HIDE DEF Diff
  <2>1. Diff \in SUBSET Int /\ IsFiniteSet(Diff)
    BY <1>1, CombosFinite, FS_Subset
  <2> QED BY <2>1, <1>1, LeastElement
<1>3. \A h \in Groups : h < g => (h \in c <=> h \in d)
  <2> SUFFICES ASSUME NEW h \in Groups, h < g, h \in Diff PROVE FALSE
    OBVIOUS
  <2>1. h \in Int /\ g \in Int /\ g <= h
    BY <1>1, <1>2, CombosFinite
  <2> QED BY <2>1
<1> QED BY <1>2, <1>3 DEF Precedes

\* The order is transitive.
LEMMA OrderIsTransitive ==
    ASSUME NEW c \in Combos, NEW d \in Combos, NEW e \in Combos,
           Precedes(c, d), Precedes(d, e)
    PROVE  Precedes(c, e)
<1>1. PICK g \in c \ d : \A k \in Groups : k < g => (k \in c <=> k \in d)
  BY DEF Precedes
<1>2. PICK h \in d \ e : \A k \in Groups : k < h => (k \in d <=> k \in e)
  BY DEF Precedes
<1>3. g \in Groups /\ h \in Groups /\ g \in Int /\ h \in Int /\ g # h
      /\ \A k \in Groups : k \in Int
  BY <1>1, <1>2, CombosFinite
<1>4. CASE g < h
  <2>1. g \in c \ e
    BY <1>1, <1>2, <1>3, <1>4
  <2>2. \A k \in Groups : k < g => (k \in c <=> k \in e)
    BY <1>1, <1>2, <1>3, <1>4
  <2> QED BY <2>1, <2>2 DEF Precedes
<1>5. CASE h < g
  <2>1. h \in c \ e
    BY <1>1, <1>2, <1>3, <1>5
  <2>2. \A k \in Groups : k < h => (k \in c <=> k \in e)
    BY <1>1, <1>2, <1>3, <1>5
  <2> QED BY <2>1, <2>2 DEF Precedes
<1> QED BY <1>3, <1>4, <1>5

\* The splits that test a group.
With(g) == {c \in Combos : g \in c}

\* Every group is tested by as many splits as there are paths: leave out group 0
\* of a split that has it, the group itself of one that has not, and every choice
\* of the other test groups is met once.
LEMMA TestedOncePerPath ==
    ASSUME NEW g \in Groups
    PROVE  IsFiniteSet(With(g)) /\ Cardinality(With(g)) = NumPaths /\ NumPaths \in Nat
<1> DEFINE Rest == {d \in SUBSET (Groups \ {0}) : Cardinality(d) = TestGroups - 1}
           Left(c) == IF 0 \in c THEN c \ {0} ELSE c \ {g}
           f == [c \in With(g) |-> Left(c)]
<1>1. IsFiniteSet(With(g))
  <2>1. With(g) \in SUBSET Combos
    BY DEF With
  <2> QED BY <2>1, CombosFinite, FS_Subset
<1>2. \A c \in With(g) : g \in c /\ c \in Combos
  BY DEF With
<1>3. ASSUME NEW c \in With(g) PROVE Left(c) \in Rest
  <2>1. CASE 0 \in c
    <3>1. Cardinality(c \ {0}) = TestGroups - 1
      <4>1. IsFiniteSet(c) /\ Cardinality(c) = TestGroups
        BY <1>2, CombosFinite
      <4> QED BY <4>1, <2>1, FS_RemoveElement
    <3>2. c \ {0} \in SUBSET (Groups \ {0})
      BY <1>2, CombosFinite
    <3> QED BY <3>1, <3>2, <2>1
  <2>2. CASE 0 \notin c
    <3>1. Cardinality(c \ {g}) = TestGroups - 1
      <4>1. IsFiniteSet(c) /\ Cardinality(c) = TestGroups /\ g \in c
        BY <1>2, CombosFinite
      <4> QED BY <4>1, FS_RemoveElement
    <3>2. c \ {g} \in SUBSET (Groups \ {0})
      BY <2>2, <1>2, CombosFinite
    <3> QED BY <3>1, <3>2, <2>2
  <2> QED BY <2>1, <2>2
<1>4. ASSUME NEW c \in With(g), NEW d \in With(g), Left(c) = Left(d) PROVE c = d
  <2>1. g \in c /\ g \in d
    BY <1>2
  <2>2. CASE 0 \in c /\ 0 \in d
    <3>1. c \ {0} = d \ {0}
      BY <1>4, <2>2
    <3> QED BY <3>1, <2>2
  <2>3. CASE 0 \in c /\ 0 \notin d
    <3>1. c \ {0} = d \ {g} /\ g # 0
      BY <1>4, <2>1, <2>3
    <3> QED BY <3>1, <2>1
  <2>4. CASE 0 \notin c /\ 0 \in d
    <3>1. c \ {g} = d \ {0} /\ g # 0
      BY <1>4, <2>1, <2>4
    <3> QED BY <3>1, <2>1
  <2>5. CASE 0 \notin c /\ 0 \notin d
    <3>1. c \ {g} = d \ {g}
      BY <1>4, <2>5
    <3> QED BY <3>1, <2>1
  <2> QED BY <2>2, <2>3, <2>4, <2>5
<1>5. ASSUME NEW r \in Rest PROVE \E c \in With(g) : Left(c) = r
  <2>1. /\ r \in SUBSET (Groups \ {0}) /\ r \in SUBSET Groups /\ IsFiniteSet(r)
        /\ Cardinality(r) = TestGroups - 1
    <3>1. r \in SUBSET Groups
      OBVIOUS
    <3> QED BY <3>1, CombosFinite, FS_Subset
  <2>2. ASSUME NEW x \in Groups, x \notin r PROVE r \cup {x} \in Combos
    <3>1. Cardinality(r \cup {x}) = Cardinality(r) + 1
      BY <2>1, <2>2, FS_AddElement
    <3>2. Cardinality(r \cup {x}) = TestGroups
      BY <3>1, <2>1, CombosFinite
    <3> QED BY <3>2, <2>1, <2>2 DEF Combos
  <2>3. CASE g \in r
    <3>1. r \cup {0} \in With(g)
      BY <2>1, <2>2, <2>3, CombosFinite DEF With
    <3>2. Left(r \cup {0}) = r
      BY <2>1
    <3> QED BY <3>1, <3>2
  <2>4. CASE g \notin r
    <3>1. r \cup {g} \in With(g)
      BY <2>1, <2>2, <2>4 DEF With
    <3>2. Left(r \cup {g}) = r
      BY <2>1, <2>4
    <3> QED BY <3>1, <3>2
  <2> QED BY <2>3, <2>4
<1> HIDE DEF Left
<1>6. f \in Bijection(With(g), Rest)
  <2> HIDE DEF Rest
  <2>1. f \in [With(g) -> Rest] /\ \A c \in With(g) : f[c] = Left(c)
    BY <1>3
  <2> HIDE DEF f
  <2>2. f \in Injection(With(g), Rest)
    BY <2>1, <1>4 DEF Injection, IsInjective
  <2>3. f \in Surjection(With(g), Rest)
    BY <2>1, <1>5 DEF Surjection
  <2> QED BY <2>2, <2>3 DEF Bijection
<1>7. Rest = {d \in SUBSET (Groups \ {0}) : Cardinality(d) = TestGroups - 1}
  OBVIOUS
<1> HIDE DEF Rest, f
<1>8. IsFiniteSet(Rest) /\ Cardinality(Rest) = Cardinality(With(g))
  BY <1>1, <1>6, FS_Bijection DEF ExistsBijection
<1>9. Cardinality(With(g)) \in Nat
  BY <1>1, FS_CardinalityType
<1> QED BY <1>1, <1>7, <1>8, <1>9 DEF NumPaths

\* The splits that test a group and come before c.
Earlier(g, c) == {d \in Combos : g \in d /\ Precedes(d, c)}

\* _path_assignment gives each path one split that tests the group, and each such
\* split to one path.
LEMMA Dealt ==
    ASSUME NEW g \in Groups
    PROVE  /\ \A p \in Paths : Assigned(g, p) \in Combos /\ g \in Assigned(g, p)
           /\ \A c \in With(g) : \E p \in Paths :
                 \A q \in Paths : Assigned(g, q) = c <=> q = p
<1> DEFINE R == {e \in With(g) \X With(g) : Precedes(e[1], e[2])}
           W == With(g)
<1>1. IsFiniteSet(W) /\ Cardinality(W) = NumPaths /\ NumPaths \in Nat
      /\ \A c \in W : c \in Combos /\ g \in c
  BY TestedOncePerPath DEF With
<1>2. \A c, d \in W : <<c, d>> \in R <=> Precedes(c, d)
  OBVIOUS
<1>3. /\ \A c \in W : <<c, c>> \notin R
      /\ \A c, d \in W : c # d => <<c, d>> \in R \/ <<d, c>> \in R
      /\ \A c, d, e \in W : <<c, d>> \in R /\ <<d, e>> \in R => <<c, e>> \in R
  <2> HIDE DEF R, W
  <2> QED BY <1>1, <1>2, OrderIsStrict, OrderIsTotal, OrderIsTransitive
<1>4. \A c \in W : Earlier(g, c) = {d \in W : <<d, c>> \in R}
  BY DEF Earlier, With
<1>5. \A c \in W : Rank(W, R, c) = Cardinality(Earlier(g, c))
  BY <1>4 DEF Rank
<1>6. /\ \A c \in W : Rank(W, R, c) \in 0 .. NumPaths - 1
      /\ \A c, d \in W : Rank(W, R, c) = Rank(W, R, d) => c = d
      /\ \A p \in 0 .. NumPaths - 1 : \E c \in W : Rank(W, R, c) = p
  <2> HIDE DEF R, W
  <2> QED BY <1>1, <1>3, Ranks
<1>7. \A c \in Combos : c \in W <=> g \in c
  BY DEF With
<1> HIDE DEF R, W
<1>8. ASSUME NEW p \in Paths
      PROVE  Assigned(g, p) \in W /\ Cardinality(Earlier(g, Assigned(g, p))) = p
  <2>1. \E c \in Combos : g \in c /\ Cardinality(Earlier(g, c)) = p
    BY <1>1, <1>5, <1>6 DEF Paths
  <2>2. Assigned(g, p) = CHOOSE c \in Combos : g \in c /\ Cardinality(Earlier(g, c)) = p
    BY DEF Assigned, Earlier
  <2> QED BY <2>1, <2>2, <1>7
<1>9. ASSUME NEW c \in With(g)
      PROVE  \E p \in Paths : \A q \in Paths : Assigned(g, q) = c <=> q = p
  <2>1. c \in W
    BY DEF W
  <2>2. Rank(W, R, c) \in Paths
    BY <2>1, <1>6 DEF Paths
  <2>3. \A q \in Paths : Assigned(g, q) = c <=> q = Rank(W, R, c)
    BY <2>1, <1>5, <1>6, <1>8
  <2> QED BY <2>2, <2>3
<1> QED BY <1>1, <1>8, <1>9
\* np.array_split cuts the positions into neighbouring groups, from the first
\* position to the last.
LEMMA Cuts ==
    /\ FirstOf(0) = 0 /\ FirstOf(NumGroups) = NumObs
    /\ \A g \in 0 .. NumGroups : FirstOf(g) \in Nat
    /\ \A g, h \in 0 .. NumGroups : g <= h => FirstOf(g) <= FirstOf(h)
<1>1. NumObs \in Nat /\ NumGroups \in Nat \ {0}
  BY SplitAssumption
<1>2. \A g : FirstOf(g) = CutAt(NumObs, NumGroups, g)
  BY DEF FirstOf, CutAt
<1> QED BY <1>1, <1>2, EvenCuts

\* The group of a position, as reconstruct_paths looks it up.
GroupOf(i) == CHOOSE h \in Groups : i \in Group(h)

\* Every position is in one group, and in no other.
LEMMA GroupsTile ==
    ASSUME NEW i \in Pos
    PROVE  /\ GroupOf(i) \in Groups
           /\ \A g \in Groups : i \in Group(g) <=> g = GroupOf(i)
<1> DEFINE H == {h \in 0 .. NumGroups : FirstOf(h) <= i}
<1>1. /\ NumGroups \in Nat /\ NumGroups >= 2 /\ i \in Int /\ 0 <= i /\ i < NumObs
      /\ NumObs \in Int
  BY SplitAssumption, PosFacts
<1>2. PICK h \in H : \A k \in H : k <= h
  <2>1. H \in SUBSET Int /\ 0 \in H
    BY <1>1, Cuts
  <2>2. IsFiniteSet(H)
    <3>1. IsFiniteSet(0 .. NumGroups) /\ H \in SUBSET (0 .. NumGroups)
      BY <1>1, FS_Interval
    <3> HIDE DEF H
    <3> QED BY <3>1, FS_Subset
  <2> HIDE DEF H
  <2> QED BY <2>1, <2>2, GreatestElement
<1>3. h \in Groups /\ h \in Int /\ h + 1 \in 0 .. NumGroups
  <2>1. h # NumGroups
    BY <1>1, <1>2, Cuts
  <2> QED BY <2>1, <1>1, <1>2 DEF Groups
<1>4. FirstOf(h) <= i /\ i < FirstOf(h + 1) /\ FirstOf(h) \in Int /\ FirstOf(h + 1) \in Int
  <2>1. FirstOf(h + 1) \in Int /\ FirstOf(h) \in Int
    BY <1>2, <1>3, Cuts
  <2>2. ~ (FirstOf(h + 1) <= i)
    BY <1>2, <1>3
  <2> QED BY <2>1, <2>2, <1>1, <1>2
<1>5. i \in Group(h)
  BY <1>1, <1>4 DEF Group
<1>6. ASSUME NEW g \in Groups, NEW k \in Groups, i \in Group(g), i \in Group(k)
      PROVE  g = k
  <2>1. \A x \in Groups : x \in Int /\ x \in 0 .. NumGroups /\ x + 1 \in 0 .. NumGroups
    BY <1>1 DEF Groups
  <2>2. ASSUME NEW x \in Groups, NEW y \in Groups, i \in Group(x), i \in Group(y), x < y
        PROVE  FALSE
    <3>1. x + 1 <= y
      BY <2>1, <2>2
    <3>2. FirstOf(x + 1) <= FirstOf(y) /\ FirstOf(x + 1) \in Int /\ FirstOf(y) \in Int
      BY <3>1, <2>1, Cuts
    <3>3. i < FirstOf(x + 1) /\ FirstOf(y) <= i
      <4>1. i <= FirstOf(x + 1) - 1 /\ FirstOf(y) <= i
        BY <2>2 DEF Group
      <4> QED BY <4>1, <3>2, <1>1
    <3> QED BY <3>2, <3>3, <1>1
  <2>3. ~ (g < k) /\ ~ (k < g) /\ g \in Int /\ k \in Int
    BY <2>1, <2>2, <1>6
  <2> QED BY <2>3
<1>7. GroupOf(i) \in Groups /\ i \in Group(GroupOf(i))
  BY <1>3, <1>5 DEF GroupOf
<1> QED BY <1>6, <1>7

\* A combination tests the positions of its groups.
LEMMA TestedByGroup ==
    ASSUME NEW c \in Combos, NEW i \in Pos
    PROVE  i \in TestOf(c) <=> GroupOf(i) \in c
<1>1. c \in SUBSET Groups
  BY CombosFinite
<1> QED BY <1>1, GroupsTile DEF TestOf

\* What path p has at i: the split that _path_assignment gave it.
LEMMA StitchedFrom ==
    ASSUME NEW p \in Paths, NEW i \in Pos
    PROVE  LET g == CHOOSE h \in Groups : i \in Group(h)
               c == Assigned(g, p)
           IN  /\ (IF i \in TestOf(c) THEN c ELSE NaN) = Assigned(GroupOf(i), p)
               /\ Assigned(GroupOf(i), p) \in Combos
               /\ i \in TestOf(Assigned(GroupOf(i), p))
<1> DEFINE c == Assigned(GroupOf(i), p)
<1>1. c \in Combos /\ GroupOf(i) \in c
  BY GroupsTile, Dealt
<1>2. i \in TestOf(c)
  BY <1>1, TestedByGroup
<1> QED BY <1>1, <1>2 DEF GroupOf

\* Splits are made one by one; paths are stitched only once all of them are.
PathInv == /\ done \subseteq Combos
           /\ train \in [Combos -> SUBSET Pos]
           /\ path \in [Paths -> [Pos -> Combos \cup {NaN}]]
           /\ \A p \in Paths : Stitched(p) =>
                 /\ done = Combos
                 /\ \A i \in Pos : path[p][i] = Assigned(GroupOf(i), p)

\* The paths follow the assignment, whichever splits are made and stitched.
THEOREM PathsFollow == Spec => []PathInv
<1>1. Init => PathInv
  BY DEF Init, PathInv, Stitched, Unstitched
<1>2. PathInv /\ [Next]_vars => PathInv'
  <2> SUFFICES ASSUME PathInv, [Next]_vars PROVE PathInv'
    OBVIOUS
  <2>1. ASSUME NEW c \in Combos, Split(c) PROVE PathInv'
    <3>1. done # Combos /\ path' = path /\ (done')  \subseteq Combos
      BY <2>1 DEF Split, PathInv
    <3>2. train' \in [Combos -> SUBSET Pos]
      <4>1. PurgedTrain(TestOf(c)) \in SUBSET Pos
        BY DEF PurgedTrain
      <4> QED BY <4>1, <2>1 DEF Split, PathInv
    <3>3. \A p \in Paths : ~ Stitched(p)'
      BY <3>1 DEF PathInv, Stitched, Unstitched
    <3> QED BY <3>1, <3>2, <3>3 DEF PathInv
  <2>2. ASSUME NEW p \in Paths, Stitch(p) PROVE PathInv'
    <3> DEFINE new == [i \in Pos |->
                         LET g == CHOOSE h \in Groups : i \in Group(h)
                             c == Assigned(g, p)
                         IN  IF i \in TestOf(c) THEN c ELSE NaN]
    <3>1. new \in [Pos -> Combos \cup {NaN}]
          /\ \A i \in Pos : new[i] = Assigned(GroupOf(i), p)
      BY StitchedFrom
    <3>2. path' = [path EXCEPT ![p] = new] /\ done = Combos
          /\ UNCHANGED <<done, train>>
      BY <2>2 DEF Stitch
    <3> HIDE DEF new
    <3>3. path' \in [Paths -> [Pos -> Combos \cup {NaN}]]
      BY <3>1, <3>2 DEF PathInv
    <3>4. ASSUME NEW q \in Paths, Stitched(q)', NEW i \in Pos
          PROVE  path'[q][i] = Assigned(GroupOf(i), q)
      <4>1. CASE q = p
        BY <4>1, <3>1, <3>2 DEF PathInv
      <4>2. CASE q # p
        BY <4>2, <3>2, <3>4 DEF PathInv, Stitched, Unstitched
      <4> QED BY <4>1, <4>2
    <3> QED BY <3>2, <3>3, <3>4 DEF PathInv, GroupOf, Assigned, Group, FirstOf, Precedes
  <2>3. CASE UNCHANGED vars
    BY <2>3 DEF vars, PathInv, Stitched, Unstitched, GroupOf, Assigned
  <2> QED BY <2>1, <2>2, <2>3 DEF Next
<1> QED BY <1>1, <1>2, PTL DEF Spec

\* The state of the splitter keeps its type.
THEOREM TypeCorrect == Spec => []TypeOK
<1>1. IInv /\ PathInv => TypeOK
  BY DEF IInv, PathInv, TypeOK
<1> QED BY <1>1, Invariance, PathsFollow, PTL

\* Every path is out of sample wherever one looks, and the finished paths share
\* out the test results of all the splits, each to one path: reconstruct_paths
\* and _path_assignment, for every number of groups and test groups.
THEOREM PathsAreAPartition == Spec => []PathsPartition
<1>1. IInv /\ PathInv /\ NoLeak => PathsOutOfSample
  <2> SUFFICES ASSUME IInv, PathInv, NoLeak, NEW p \in Paths, Stitched(p), NEW i \in Pos
               PROVE  /\ path[p][i] \in done
                      /\ i \in TestOf(path[p][i])
                      /\ \A j \in train[path[p][i]] : ~ Overlap(i, j)
    BY DEF PathsOutOfSample
  <2>1. path[p][i] \in done /\ i \in TestOf(path[p][i])
    BY StitchedFrom DEF PathInv
  <2>2. \A j \in train[path[p][i]] : ~ Overlap(i, j)
    BY <2>1 DEF NoLeak, Overlap
  <2> QED BY <2>1, <2>2
<1>2. PathInv => ResultsUsedOnce
  <2> SUFFICES ASSUME PathInv, Finished, NEW c \in Combos, NEW i \in TestOf(c)
               PROVE  \E p \in Paths : \A q \in Paths : path[q][i] = c <=> q = p
    BY DEF ResultsUsedOnce
  <2>1. i \in Pos /\ GroupOf(i) \in Groups /\ c \in With(GroupOf(i))
    <3>1. i \in Pos
      BY DEF TestOf
    <3> QED BY <3>1, GroupsTile, TestedByGroup DEF With
  <2>2. \A q \in Paths : path[q][i] = Assigned(GroupOf(i), q)
    BY <2>1 DEF PathInv, Finished
  <2> QED BY <2>1, <2>2, Dealt
<1>3. IInv /\ PathInv /\ NoLeak => PathsPartition
  BY <1>1, <1>2 DEF PathsPartition
<1> QED BY <1>3, Invariance, PathsFollow, NoLeakage, PTL

------------------------------------------------------------------------------
(* The studies over the folds: what a fit says depends on nothing but the  *)
(* rows it was given, so it is enough that those rows overlap none that    *)
(* are judged.                                                             *)

\* Two tables that are the same but for the labels and returns of other rows.
Agree(t, u, rows) ==
    /\ u.weight = t.weight /\ u.look = t.look /\ u.regime = t.regime
    /\ \A j \in rows : u.label[j] = t.label[j] /\ u.ret[j] = t.ret[j]

\* A member's score depends on the rows it was fitted to.
LEMMA SamePrediction ==
    ASSUME NEW t, NEW u, NEW rows, Agree(t, u, rows), NEW m, NEW smoothing, NEW i
    PROVE  Predict(u, m, smoothing, rows, i) = Predict(t, m, smoothing, rows, i)
<1> DEFINE alike == {j \in rows : t.look[m][j] = t.look[m][i]}
           basis == IF alike = {} THEN rows ELSE alike
<1>1. basis \subseteq rows
  OBVIOUS
<1>2. [j \in basis |-> u.weight[j] * u.label[j]] = [j \in basis |-> t.weight[j] * t.label[j]]
  <2>1. \A j \in basis : u.weight[j] * u.label[j] = t.weight[j] * t.label[j]
    BY <1>1 DEF Agree
  <2> HIDE DEF basis
  <2> QED BY <2>1
<1>3. u.weight = t.weight /\ u.look = t.look
  BY DEF Agree
<1> QED BY <1>2, <1>3 DEF Predict, SumOver

\* So do the knots of a calibrator.
LEMMA SameKnots ==
    ASSUME NEW t, NEW u, NEW rows, Agree(t, u, rows), NEW score
    PROVE  FitIsotonic(score, u.label, u.weight, rows)
             = FitIsotonic(score, t.label, t.weight, rows)
<1> DEFINE At(x) == {i \in rows : score[i] = x}
           Sum(v, x) == SumFunction([i \in At(x) |-> v.weight[i] * v.label[i]])
           Mass(v, x) == SumFunction([i \in At(x) |-> v.weight[i]])
<1>1. ASSUME NEW x PROVE Sum(u, x) = Sum(t, x) /\ Mass(u, x) = Mass(t, x)
  <2>1. u.weight = t.weight
    BY DEF Agree
  <2>2. [i \in At(x) |-> u.weight[i] * u.label[i]] = [i \in At(x) |-> t.weight[i] * t.label[i]]
    <3>1. \A i \in At(x) : u.weight[i] * u.label[i] = t.weight[i] * t.label[i]
      BY DEF Agree
    <3> HIDE DEF At
    <3> QED BY <3>1
  <2> QED BY <2>1, <2>2
<1>2. Points(score, u.label, u.weight, rows) = Points(score, t.label, t.weight, rows)
  <2>1. \A v : Points(score, v.label, v.weight, rows) =
                  {[scores |-> {x}, sum |-> Sum(v, x), weight |-> Mass(v, x)]
                     : x \in {score[i] : i \in rows}}
    BY DEF Points, SumOver
  <2> HIDE DEF Sum, Mass
  <2> QED BY <1>1, <2>1
<1> QED BY <1>2 DEF FitIsotonic

\* And whether a regime paid.
LEMMA SameMultiplier ==
    ASSUME NEW t, NEW u, NEW rows, Agree(t, u, rows), NEW n, NEW o,
           \A j \in rows : o[j] = n[j], NEW r
    PROVE  Multiplier(u, rows, o, r) = Multiplier(t, rows, n, r)
<1> DEFINE mask == {j \in rows : t.regime[j] = r}
<1>1. [j \in mask |-> o[j]] = [j \in mask |-> n[j]]
  <2>1. \A j \in mask : o[j] = n[j]
    OBVIOUS
  <2> HIDE DEF mask
  <2> QED BY <2>1
<1>2. u.regime = t.regime
  BY DEF Agree
<1> QED BY <1>1, <1>2 DEF Multiplier, SumOver

\* The position the whole stack takes, at any row, depends on the rows it was
\* built from: members, combiner, calibrator and gate.
LEMMA SamePosition ==
    ASSUME NEW t, NEW u, NEW rows \in SUBSET Pos, Agree(t, u, rows)
    PROVE  GatedPosition(u, rows) = GatedPosition(t, rows)
<1> DEFINE scored == MemberScores(t, rows)
           combined == Combined(scored, rows, scored)
           knots == FitIsotonic(combined, t.label, t.weight, rows)
           position == [i \in Pos |-> Position(Calibrate(knots, combined[i]))]
           net(v) == [i \in Pos |-> Net(v, position[i], i)]
           gate(v) == [r \in {t.regime[i] : i \in Pos} |->
                          Multiplier(v, GateRows(rows), net(v), r)]
<1>1. MemberScores(u, rows) = scored
  BY SamePrediction DEF MemberScores
<1>2. FitIsotonic(combined, u.label, u.weight, rows) = knots
  <2> HIDE DEF combined
  <2> QED BY SameKnots
<1>3. u.regime = t.regime
  BY DEF Agree
<1>4. gate(u) = gate(t)
  <2>1. \A j \in rows : net(u)[j] = net(t)[j]
    <3> HIDE DEF position
    <3> QED BY DEF Agree, Net
  <2>2. \A r : Multiplier(u, rows, net(u), r) = Multiplier(t, rows, net(t), r)
    <3> HIDE DEF net
    <3> QED BY <2>1, SameMultiplier
  <2> HIDE DEF net
  <2> QED BY <2>2 DEF GateRows
<1>5. GatedPosition(t, rows) = [i \in Pos |-> position[i] * gate(t)[t.regime[i]]]
  BY DEF GatedPosition
<1>6. GatedPosition(u, rows) = [i \in Pos |-> position[i] * gate(u)[t.regime[i]]]
  BY <1>1, <1>2, <1>3 DEF GatedPosition
<1> HIDE DEF gate, position
<1> QED BY <1>4, <1>5, <1>6

\* A study makes and stitches splits as the scheme does, or leaves them alone.
THEOREM StudiesFollowTheScheme == StudySpec => Spec
<1>1. StudyInit => Init
  BY DEF StudyInit
<1>2. [StudyNext]_<<vars, study>> => [Next]_vars
  <2> SUFFICES ASSUME [StudyNext]_<<vars, study>> PROVE [Next]_vars
    OBVIOUS
  <2>1. ASSUME NEW c \in Combos, Evaluate(c) PROVE Next
    BY <2>1 DEF Evaluate, Next
  <2>2. ASSUME NEW p \in Paths, StitchPath(p) PROVE Next
    BY <2>2 DEF StitchPath, Next
  <2>3. ASSUME NEW c \in Combos, EvaluateRaises(c) PROVE UNCHANGED vars
    BY <2>3 DEF EvaluateRaises, Raise
  <2>4. ASSUME NEW g \in Groups, EnsembleFold(g) \/ BaselineFold(g)
                                   \/ FoldRaises(g) \/ ScoreFold(g)
        PROVE  UNCHANGED vars
    BY <2>4 DEF EnsembleFold, BaselineFold, FoldRaises, ScoreFold, Raise
  <2>5. ASSUME Finish \/ FinishRaises \/ OverrideRaises \/ LogTrial
                 \/ LogTrialRaises \/ Choose \/ NothingScored
        PROVE  UNCHANGED vars
    BY <2>5 DEF Finish, FinishRaises, OverrideRaises, LogTrial, LogTrialRaises,
                Choose, NothingScored, Raise
  <2>6. ASSUME UNCHANGED <<vars, study>> PROVE UNCHANGED vars
    BY <2>6
  <2> QED BY <2>1, <2>2, <2>3, <2>4, <2>5, <2>6 DEF StudyNext
<1> QED BY <1>1, <1>2, PTL DEF StudySpec, Spec

\* A score is what the members say from the block's training rows, a return what
\* the stack earns when it is built from its split's training rows.
HonestInv ==
    /\ oof = [m \in Members |-> [i \in Pos |-> oof[m][i]]]
    /\ \A m \in Members, i \in Pos : oof[m][i] # NaN =>
          oof[m][i] = Predict(table, m, 0, FoldTrain(GroupOf(i)), i)
    /\ DOMAIN returns = Combos
    /\ done \subseteq Combos
    /\ job = "cpcv" => \A c \in done : \A i \in TestOf(c) :
          returns[c][i] = Net(table, GatedPosition(table, train[c])[i], i)

\* Rows trained on overlap none that are judged, so the table may say what it
\* likes of those.
LEMMA ClearRowsAgree ==
    ASSUME NEW i \in Pos, NEW rows \in SUBSET Pos, \A j \in rows : ~ Overlap(i, j)
    PROVE  Agree(Otherwise(i), table, rows)
BY DEF Agree, Otherwise

\* A block holds positions.
LEMMA BlockInPos ==
    ASSUME NEW g \in Groups
    PROVE  Group(g) \in SUBSET Pos
<1>1. /\ NumGroups \in Nat /\ NumObs \in Nat /\ g \in 0 .. NumGroups
      /\ g + 1 \in 0 .. NumGroups /\ NumGroups \in 0 .. NumGroups /\ g + 1 <= NumGroups
  BY SplitAssumption DEF Groups
<1>2. FirstOf(g) \in Nat /\ FirstOf(g + 1) \in Nat /\ FirstOf(g + 1) <= NumObs
  BY <1>1, Cuts
<1> QED BY <1>1, <1>2 DEF Group, Pos

\* A row that is trained on overlaps no row of the block.
LEMMA BlockCleared ==
    ASSUME ValidLabels, NEW i \in Pos
    PROVE  /\ FoldTrain(GroupOf(i)) \in SUBSET Pos
           /\ \A j \in FoldTrain(GroupOf(i)) : ~ Overlap(i, j)
<1>1. GroupOf(i) \in Groups /\ i \in Group(GroupOf(i))
  BY GroupsTile
<1>2. Group(GroupOf(i)) \in SUBSET Pos
  BY <1>1, BlockInPos
<1>3. FoldTrain(GroupOf(i)) = PurgedTrain(Group(GroupOf(i)))
  BY DEF FoldTrain
<1>4. PurgedTrain(Group(GroupOf(i))) \in SUBSET Pos
  BY DEF PurgedTrain
<1> QED BY <1>1, <1>2, <1>3, <1>4, NothingOverlaps

\* A step that leaves the labels alone leaves the purge alone.
LEMMA SamePurge ==
    ASSUME starts' = starts, ends' = ends
    PROVE  /\ \A test : PurgedTrain(test)' = PurgedTrain(test)
           /\ \A g : FoldTrain(g)' = FoldTrain(g)
BY DEF FoldTrain, PurgedTrain, IsRun, Before, After, IsLastEnd, IsResume

\* Every step keeps the scores and the returns out of sample.
LEMMA HonestStep ==
    ASSUME HonestInv, IInv, [StudyNext]_<<vars, study>>
    PROVE  HonestInv'
<1> USE DEF HonestInv
<1>1. ASSUME UNCHANGED <<starts, ends, oof, returns, done, train, table, job>>
      PROVE  HonestInv'
  BY <1>1, SamePurge
<1>2. ASSUME NEW g \in Groups, EnsembleFold(g) PROVE HonestInv'
  <2>1. UNCHANGED <<starts, ends, returns, done, train, table, job>>
    BY <1>2 DEF EnsembleFold, vars
  <2>2. oof' = [m \in Members |-> [i \in Pos |->
                   IF i \in Group(g) THEN Predict(table, m, 0, FoldTrain(g), i)
                   ELSE oof[m][i]]]
    BY <1>2 DEF EnsembleFold
  <2>3. ASSUME NEW m \in Members, NEW i \in Pos, oof'[m][i] # NaN
        PROVE  oof'[m][i] = Predict(table, m, 0, FoldTrain(GroupOf(i)), i)
    <3>1. i \in Group(g) <=> g = GroupOf(i)
      BY GroupsTile
    <3> QED BY <2>2, <2>3, <3>1
  <2>4. oof' = [m \in Members |-> [i \in Pos |-> oof'[m][i]]]
    BY <2>2
  <2> QED BY <2>1, <2>3, <2>4, SamePurge
<1>3. ASSUME NEW g \in Groups, BaselineFold(g) PROVE HonestInv'
  <2>1. UNCHANGED <<starts, ends, returns, done, train, table, job>>
    BY <1>3 DEF BaselineFold, vars
  <2>2. oof' = [oof EXCEPT ![1] = [i \in Pos |->
                   IF i \in Group(g) THEN Predict(table, 1, 0, FoldTrain(g), i)
                   ELSE oof[1][i]]]
    BY <1>3 DEF BaselineFold
  <2>3. ASSUME NEW m \in Members, NEW i \in Pos, oof'[m][i] # NaN
        PROVE  oof'[m][i] = Predict(table, m, 0, FoldTrain(GroupOf(i)), i)
    <3>1. i \in Group(g) <=> g = GroupOf(i)
      BY GroupsTile
    <3>2. CASE m = 1
      BY <2>2, <2>3, <3>1, <3>2
    <3>3. CASE m # 1
      BY <2>2, <2>3, <3>3
    <3> QED BY <3>2, <3>3
  <2>4. oof' = [m \in Members |-> [i \in Pos |-> oof'[m][i]]]
    BY <2>2
  <2> QED BY <2>1, <2>3, <2>4, SamePurge
<1>4. ASSUME NEW c \in Combos, Evaluate(c) PROVE HonestInv'
  <2>1. /\ UNCHANGED <<starts, ends, oof, table, job>>
        /\ c \notin done /\ done' = done \cup {c}
        /\ train' = [train EXCEPT ![c] = PurgedTrain(TestOf(c))]
    BY <1>4 DEF Evaluate, Split, input
  <2>2. returns' = [returns EXCEPT ![c] = [i \in Pos |->
                       IF i \in TestOf(c)
                         THEN Net(table, GatedPosition(table, train'[c])[i], i)
                         ELSE NaN]]
    BY <1>4 DEF Evaluate
  <2>3. ASSUME NEW d \in done', NEW i \in TestOf(d), job = "cpcv"
        PROVE  returns'[d][i] = Net(table, GatedPosition(table, train'[d])[i], i)
    <3>1. d \in Combos /\ i \in Pos
      BY <2>1, TestOfType
    <3>2. CASE d = c
      BY <3>1, <3>2, <2>2, <2>3
    <3>3. CASE d # c
      BY <3>1, <3>3, <2>1, <2>2, <2>3 DEF IInv
    <3> QED BY <3>2, <3>3
  <2>4. \A e : TestOf(e)' = TestOf(e)
    BY DEF TestOf
  <2> QED BY <2>1, <2>2, <2>3, <2>4, SamePurge
<1>5. ASSUME NEW p \in Paths, StitchPath(p) PROVE HonestInv'
  BY <1>5, <1>1 DEF StitchPath, Stitch, input
<1>6. ASSUME NEW c \in Combos, EvaluateRaises(c) PROVE HonestInv'
  BY <1>6, <1>1 DEF EvaluateRaises, Raise, vars
<1>7. ASSUME NEW g \in Groups, FoldRaises(g) \/ ScoreFold(g) PROVE HonestInv'
  BY <1>7, <1>1 DEF FoldRaises, ScoreFold, Raise, vars
<1>8. ASSUME Finish \/ FinishRaises \/ OverrideRaises \/ LogTrial
               \/ LogTrialRaises \/ Choose \/ NothingScored
      PROVE  HonestInv'
  BY <1>8, <1>1 DEF Finish, FinishRaises, OverrideRaises, LogTrial,
                    LogTrialRaises, Choose, NothingScored, Raise, vars
<1>9. ASSUME UNCHANGED <<vars, study>> PROVE HonestInv'
  BY <1>9, <1>1 DEF vars, study
<1> QED BY <1>2, <1>3, <1>4, <1>5, <1>6, <1>7, <1>8, <1>9 DEF StudyNext

\* What a trainer's members say of a row, and the position the stack takes on a
\* test row, would be the same had the labels and returns of the row, and of all
\* that overlap it, come out differently: PurgedKFold's out-of-fold predictions
\* and the CPCV backtest, for every table, timeline and number of groups.
THEOREM OutOfSampleHolds == StudySpec => []OutOfSampleIsHonest
<1>1. StudyInit => HonestInv
  BY DEF StudyInit, Init, HonestInv, Unscored
<1>2. HonestInv /\ IInv => OutOfSampleIsHonest
  <2> SUFFICES ASSUME HonestInv, IInv PROVE OutOfSampleIsHonest
    OBVIOUS
  <2>1. ASSUME NEW m \in Members, NEW i \in Pos, oof[m][i] # NaN
        PROVE  oof[m][i] = Predict(Otherwise(i), m, 0, FoldTrain(BlockOf(i)), i)
    <3>1. BlockOf(i) = GroupOf(i)
      BY DEF BlockOf, GroupOf
    <3>2. Agree(Otherwise(i), table, FoldTrain(GroupOf(i)))
      BY BlockCleared, ClearRowsAgree DEF IInv
    <3> QED BY <3>1, <3>2, <2>1, SamePrediction DEF HonestInv
  <2>2. ASSUME job = "cpcv", NEW c \in done, NEW i \in TestOf(c)
        PROVE  returns[c][i] = Net(table, GatedPosition(Otherwise(i), train[c])[i], i)
    <3>1. c \in Combos /\ i \in Pos /\ TestOf(c) \in SUBSET Pos
      BY TestOfType DEF IInv
    <3>2. train[c] \in SUBSET Pos /\ train[c] = PurgedTrain(TestOf(c)) /\ ValidLabels
      BY <3>1 DEF IInv, Purged
    <3>3. \A j \in train[c] : ~ Overlap(i, j)
      BY <3>1, <3>2, NothingOverlaps
    <3>4. Agree(Otherwise(i), table, train[c])
      BY <3>1, <3>2, <3>3, ClearRowsAgree
    <3>5. GatedPosition(table, train[c]) = GatedPosition(Otherwise(i), train[c])
      BY <3>2, <3>4, SamePosition
    <3> QED BY <3>5, <2>2 DEF HonestInv
  <2> QED BY <2>1, <2>2 DEF OutOfSampleIsHonest
<1>3. HonestInv /\ IInv /\ [StudyNext]_<<vars, study>> => HonestInv'
  BY HonestStep
<1>4. StudySpec => []IInv
  BY StudiesFollowTheScheme, Invariance, PTL
<1> QED BY <1>1, <1>2, <1>3, <1>4, PTL DEF StudySpec

------------------------------------------------------------------------------
(* The ledger.  Summing the ranks of the positive rows counts, for each,   *)
(* the rows below it twice and those as high once; the positive rows among *)
(* them are a square whatever the scores (OrderedPairs), the negative ones *)
(* are the pairs of the concordance.                                       *)

\* What the pairs of two sets of rows come to: the rows above, and the ties.
Above(score, A, B) == {q \in A \X B : score[q[2]] < score[q[1]]}
Tied(score, A, B) == {q \in A \X B : score[q[2]] = score[q[1]]}

\* The pairs with either part of a set.
LEMMA PairsSplit ==
    ASSUME NEW A, IsFiniteSet(A), NEW B, IsFiniteSet(B), NEW C, IsFiniteSet(C),
           B \cap C = {}, NEW score
    PROVE  /\ Cardinality(Above(score, A, B \cup C))
                = Cardinality(Above(score, A, B)) + Cardinality(Above(score, A, C))
           /\ Cardinality(Tied(score, A, B \cup C))
                = Cardinality(Tied(score, A, B)) + Cardinality(Tied(score, A, C))
           /\ Cardinality(Above(score, A, B)) \in Nat
           /\ Cardinality(Above(score, A, C)) \in Nat
           /\ Cardinality(Tied(score, A, B)) \in Nat
           /\ Cardinality(Tied(score, A, C)) \in Nat
<1>1. IsFiniteSet(A \X B) /\ IsFiniteSet(A \X C)
  BY FS_Product
<1>2. /\ IsFiniteSet(Above(score, A, B)) /\ IsFiniteSet(Above(score, A, C))
      /\ IsFiniteSet(Tied(score, A, B)) /\ IsFiniteSet(Tied(score, A, C))
  BY <1>1, FS_Subset DEF Above, Tied
<1>3. /\ Above(score, A, B \cup C) = Above(score, A, B) \cup Above(score, A, C)
      /\ Above(score, A, B) \cap Above(score, A, C) = {}
  BY DEF Above
<1>4. /\ Tied(score, A, B \cup C) = Tied(score, A, B) \cup Tied(score, A, C)
      /\ Tied(score, A, B) \cap Tied(score, A, C) = {}
  BY DEF Tied
<1>5. /\ Cardinality(Above(score, A, B \cup C))
           = Cardinality(Above(score, A, B)) + Cardinality(Above(score, A, C))
      /\ Cardinality(Above(score, A, B)) \in Nat
      /\ Cardinality(Above(score, A, C)) \in Nat
  BY <1>2, <1>3, ApartAddUp
<1>6. /\ Cardinality(Tied(score, A, B \cup C))
           = Cardinality(Tied(score, A, B)) + Cardinality(Tied(score, A, C))
      /\ Cardinality(Tied(score, A, B)) \in Nat
      /\ Cardinality(Tied(score, A, C)) \in Nat
  BY <1>2, <1>4, ApartAddUp
<1> QED BY <1>5, <1>6

\* The sum of the ranks of A among the rows.
LEMMA RankSum ==
    ASSUME NEW A, IsFiniteSet(A), NEW B, IsFiniteSet(B), NEW score
    PROVE  SumFunction([i \in A |-> AverageRank(score, B, i)])
             = 2 * Cardinality(Above(score, A, B)) + Cardinality(Tied(score, A, B))
                 + Cardinality(A)
<1> DEFINE f == [i \in A |-> AverageRank(score, B, i)]
<1>1. SumFunction(f) = SumFunctionOnSet(f, A)
  BY DEF SumFunction
<1>2. IsRowCount(f, A, B, Above(score, A, B), Tied(score, A, B))
  <2>1. ASSUME NEW x \in A
        PROVE  /\ PairedWith(Above(score, A, B), B, x) = {j \in B : score[j] < score[x]}
               /\ PairedWith(Tied(score, A, B), B, x) = {j \in B : score[j] = score[x]}
    BY DEF PairedWith, Above, Tied
  <2>2. \A x \in A : f[x] = AverageRank(score, B, x)
    OBVIOUS
  <2>3. ASSUME NEW x \in A
        PROVE  f[x] = 2 * Cardinality(PairedWith(Above(score, A, B), B, x))
                       + Cardinality(PairedWith(Tied(score, A, B), B, x)) + 1
    <3> HIDE DEF f
    <3> QED BY <2>1, <2>2 DEF AverageRank
  <2> HIDE DEF f
  <2> QED BY <2>3 DEF IsRowCount
<1>3. Above(score, A, B) \in SUBSET (A \X B) /\ Tied(score, A, B) \in SUBSET (A \X B)
  BY DEF Above, Tied
<1>4. SumFunctionOnSet(f, A) = 2 * Cardinality(Above(score, A, B))
                                + Cardinality(Tied(score, A, B)) + Cardinality(A)
  <2> HIDE DEF f
  <2> QED BY <1>2, <1>3, CountedByRow
<1> QED BY <1>1, <1>4

\* roc_auc is the concordance of its scores.
LEMMA RankStatistic ==
    ASSUME NEW score, NEW rows, IsFiniteSet(rows), \A i \in rows : score[i] \in Int,
           HasBothClasses(table.label, rows)
    PROVE  /\ RocAuc(table.label, score, rows) = Concordance(score, rows)
           /\ Concordance(score, rows) \in Int
<1> DEFINE P == {i \in rows : table.label[i] = 1}
           N == {i \in rows : table.label[i] = 0}
           p == Cardinality(P)
           n == Cardinality(N)
           above == Cardinality(Above(score, P, N))
           tied == Cardinality(Tied(score, P, N))
<1>1. IsFiniteSet(P) /\ IsFiniteSet(N) /\ P \cap N = {} /\ P \cup N = rows
      /\ P # {} /\ N # {}
  <2>1. \A i \in rows : table.label[i] \in {0, 1}
    BY DEF HasBothClasses
  <2>2. (\E i \in rows : table.label[i] = 1) /\ (\E i \in rows : table.label[i] = 0)
    BY DEF HasBothClasses
  <2> QED BY <2>1, <2>2, FS_Subset
<1>2. \A i \in P : score[i] \in Int
  OBVIOUS
<1>3. Concordance(score, rows) = (One * (2 * above + tied)) \div (2 * Cardinality(P \X N))
  <2>1. {q \in rows \X rows : table.label[q[1]] = 1 /\ table.label[q[2]] = 0} = P \X N
    OBVIOUS
  <2>2. {q \in P \X N : score[q[1]] > score[q[2]]} = Above(score, P, N)
    BY DEF Above
  <2>3. {q \in P \X N : score[q[1]] = score[q[2]]} = Tied(score, P, N)
    BY DEF Tied
  <2> HIDE DEF P, N
  <2> QED BY <2>1, <2>2, <2>3 DEF Concordance
<1> DEFINE ranks == SumFunction([i \in P |-> AverageRank(score, rows, i)])
           gap == ranks - p * (p + 1)
           size == 2 * p * (Cardinality(rows) - p)
<1>4. RocAuc(table.label, score, rows) = (One * gap) \div size
  BY DEF RocAuc, SumOver
<1> HIDE DEF P, N
<1>5. ranks = 2 * Cardinality(Above(score, P, rows)) + Cardinality(Tied(score, P, rows)) + p
  BY <1>1, RankSum
<1>6. /\ Cardinality(Above(score, P, rows)) = Cardinality(Above(score, P, P)) + above
      /\ Cardinality(Tied(score, P, rows)) = Cardinality(Tied(score, P, P)) + tied
      /\ Cardinality(Above(score, P, P)) \in Nat /\ above \in Nat
      /\ Cardinality(Tied(score, P, P)) \in Nat /\ tied \in Nat
  <2>1. /\ Cardinality(Above(score, P, P \cup N)) = Cardinality(Above(score, P, P)) + above
        /\ Cardinality(Tied(score, P, P \cup N)) = Cardinality(Tied(score, P, P)) + tied
        /\ Cardinality(Above(score, P, P)) \in Nat /\ above \in Nat
        /\ Cardinality(Tied(score, P, P)) \in Nat /\ tied \in Nat
    BY <1>1, PairsSplit
  <2>2. P \cup N = rows
    BY <1>1
  <2> HIDE DEF above, tied
  <2> QED BY <2>1, <2>2
<1>7. 2 * Cardinality(Above(score, P, P)) + Cardinality(Tied(score, P, P)) = p * p
  BY <1>1, <1>2, OrderedPairs DEF Above, Tied
<1>8. p \in Nat \ {0} /\ n \in Nat \ {0} /\ Cardinality(rows) = p + n
      /\ Cardinality(P \X N) = p * n
  BY <1>1, ApartAddUp, FS_Product, FS_EmptySet, FS_CardinalityType
<1> HIDE DEF p, n, above, tied, ranks
<1>9. gap = 2 * above + tied
  <2>1. p * (p + 1) = p * p + p /\ p * p \in Int
    BY <1>8
  <2> QED BY <2>1, <1>5, <1>6, <1>7, <1>8
<1>10. size = 2 * Cardinality(P \X N) /\ Cardinality(P \X N) \in Nat \ {0}
  <2>1. Cardinality(rows) - p = n
    BY <1>8
  <2>2. 2 * p * n = 2 * (p * n) /\ p * n \in Nat \ {0}
    BY <1>8
  <2> QED BY <2>1, <2>2, <1>8
<1> HIDE DEF gap, size
<1>11. RocAuc(table.label, score, rows) = Concordance(score, rows)
  BY <1>3, <1>4, <1>9, <1>10
<1>12. (One * (2 * above + tied)) \div (2 * Cardinality(P \X N)) \in Int
  BY <1>6, <1>10 DEF One
<1> QED BY <1>3, <1>11, <1>12
\* What a member learns from some rows is a number.
LEMMA PredictionIsInteger ==
    ASSUME table \in Tables, NEW rows \in SUBSET Pos, rows # {}, NEW m,
           NEW smoothing \in Nat, NEW i
    PROVE  Predict(table, m, smoothing, rows, i) \in Int
<1> DEFINE alike == {j \in rows : table.look[m][j] = table.look[m][i]}
           basis == IF alike = {} THEN rows ELSE alike
           hits == [j \in basis |-> table.weight[j] * table.label[j]]
           mass == [j \in basis |-> table.weight[j]]
<1>1. \A j \in Pos : table.weight[j] \in Nat \ {0} /\ table.label[j] \in {0, 1}
  BY FoldsAssumption
<1>2. IsFiniteSet(basis) /\ basis # {} /\ basis \subseteq Pos
  <2>1. IsFiniteSet(Pos)
    BY SplitAssumption, FS_Interval DEF Pos
  <2> QED BY <2>1, FS_Subset
<1>3. \A j \in basis : hits[j] \in Int /\ mass[j] \in Nat \ {0}
  BY <1>1, <1>2
<1>4. SumFunction(hits) = SumFunctionOnSet(hits, basis)
      /\ SumFunction(mass) = SumFunctionOnSet(mass, basis)
  BY DEF SumFunction
<1>5. Predict(table, m, smoothing, rows, i)
        = (One * (SumFunction(hits) + smoothing)) \div (SumFunction(mass) + 2 * smoothing)
  BY DEF Predict, SumOver
<1> HIDE DEF hits, mass, basis
<1>6. SumFunctionOnSet(hits, basis) \in Int
  BY <1>2, <1>3, SumStep
<1>7. SumFunctionOnSet(mass, basis) \in Nat \ {0}
  <2>1. /\ SumFunctionOnSet(mass, basis) \in Nat
        /\ \A j \in basis : mass[j] <= SumFunctionOnSet(mass, basis)
    BY <1>2, <1>3, SumOfNaturals
  <2> QED BY <2>1, <1>2, <1>3
<1>8. (One * (SumFunction(hits) + smoothing)) \in Int
      /\ SumFunction(mass) + 2 * smoothing \in Nat \ {0}
  BY <1>4, <1>6, <1>7 DEF One
<1> QED BY <1>5, <1>8

\* How high a block scores a smoothing, and the blocks that can be scored.
Scorable == {g \in Groups : CanTrain(FoldTrain(g)) /\ HasBothClasses(table.label, Group(g))}
FoldScore(smoothing, g) ==
    Concordance([i \in Pos |-> Predict(table, 1, smoothing, FoldTrain(g), i)], Group(g))
FoldScores(smoothing) == [g \in Groups |-> FoldScore(smoothing, g)]
ScoredBefore(k) == {g \in Scorable : g < k}

\* The score of a fold is that of its block.
LEMMA FoldScored ==
    ASSUME table \in Tables, NEW g \in Groups, CanTrain(FoldTrain(g)), NEW smoothing \in Nat
    PROVE  /\ \A i \in Pos : Predict(table, 1, smoothing, FoldTrain(g), i) \in Int
           /\ HasBothClasses(table.label, Group(g)) =>
                /\ RocAuc(table.label,
                          [i \in Pos |-> Predict(table, 1, smoothing, FoldTrain(g), i)],
                          Group(g)) = FoldScore(smoothing, g)
                /\ FoldScore(smoothing, g) \in Int
<1>1. FoldTrain(g) \in SUBSET Pos /\ FoldTrain(g) # {}
  BY DEF FoldTrain, PurgedTrain, CanTrain, HasBothClasses
<1>2. \A i \in Pos : Predict(table, 1, smoothing, FoldTrain(g), i) \in Int
  BY <1>1, PredictionIsInteger
<1>3. Group(g) \in SUBSET Pos /\ IsFiniteSet(Group(g))
  <2>1. IsFiniteSet(Pos)
    BY SplitAssumption, FS_Interval DEF Pos
  <2> QED BY <2>1, BlockInPos, FS_Subset
<1> DEFINE score == [i \in Pos |-> Predict(table, 1, smoothing, FoldTrain(g), i)]
<1>4. \A i \in Group(g) : score[i] \in Int
  BY <1>2, <1>3
<1>5. HasBothClasses(table.label, Group(g)) =>
         /\ RocAuc(table.label, score, Group(g)) = Concordance(score, Group(g))
         /\ Concordance(score, Group(g)) \in Int
  <2> HIDE DEF score
  <2> QED BY <1>3, <1>4, RankStatistic
<1> QED BY <1>2, <1>5 DEF FoldScore

\* The mean of the blocks that were scored, all of them tried.
LEMMA TrialIsMean ==
    ASSUME NEW smoothing, NEW s \in Seq(Int),
           Len(s) = Cardinality(ScoredBefore(NumGroups)),
           SumFunctionOnSet(s, DOMAIN s)
             = SumFunctionOnSet(FoldScores(smoothing), ScoredBefore(NumGroups))
    PROVE  Mean(s) = TrialScore(smoothing)
<1>1. ScoredBefore(NumGroups) = Scorable
  BY SplitAssumption DEF ScoredBefore, Scorable, Groups
<1>2. Scorable \in SUBSET Groups /\ IsFiniteSet(Scorable)
  BY CombosFinite, FS_Subset DEF Scorable
<1>3. Mean(s) = IF s = << >> THEN NaN ELSE SumFunctionOnSet(s, DOMAIN s) \div Len(s)
  <2>1. [k \in DOMAIN s |-> s[k]] = s
    OBVIOUS
  <2>2. SumFunction(s) = SumFunctionOnSet(s, DOMAIN s)
    BY DEF SumFunction
  <2> QED BY <2>1, <2>2 DEF Mean, SumOver
<1> DEFINE score == [g \in Scorable |-> FoldScore(smoothing, g)]
<1>4. TrialScore(smoothing) = IF Scorable = {} THEN NaN
                              ELSE SumFunctionOnSet(score, Scorable) \div Cardinality(Scorable)
  <2>1. SumFunction(score) = SumFunctionOnSet(score, Scorable)
    BY DEF SumFunction
  <2> QED BY <2>1 DEF TrialScore, SumOver, Scorable, FoldScore
<1>5. SumFunctionOnSet(score, Scorable) = SumFunctionOnSet(FoldScores(smoothing), Scorable)
  <2>1. \A g \in Scorable : score[g] = FoldScores(smoothing)[g]
    BY <1>2 DEF FoldScores
  <2> HIDE DEF score
  <2> QED BY <2>1, <1>2, SumSame
<1>6. s = << >> <=> Scorable = {}
  <2>1. Cardinality(Scorable) = 0 <=> Scorable = {}
    BY <1>2, FS_EmptySet
  <2>2. s = << >> <=> Len(s) = 0
    OBVIOUS
  <2> QED BY <2>1, <2>2, <1>1
<1> HIDE DEF score
<1> QED BY <1>1, <1>3, <1>4, <1>5, <1>6
\* A block more: it adds its score, if it can be scored.
LEMMA OneMoreFold ==
    ASSUME table \in Tables, NEW g \in Groups, NEW smoothing \in Nat
    PROVE  /\ g \in Scorable =>
                /\ Cardinality(ScoredBefore(g + 1)) = Cardinality(ScoredBefore(g)) + 1
                /\ SumFunctionOnSet(FoldScores(smoothing), ScoredBefore(g + 1))
                     = FoldScore(smoothing, g)
                         + SumFunctionOnSet(FoldScores(smoothing), ScoredBefore(g))
           /\ g \notin Scorable => ScoredBefore(g + 1) = ScoredBefore(g)
<1>1. Groups \subseteq Int
  BY SplitAssumption DEF Groups
<1>2. Scorable \in SUBSET Groups /\ IsFiniteSet(Scorable)
  BY CombosFinite, FS_Subset DEF Scorable
<1>0. \A x \in Scorable : x < g + 1 <=> x < g \/ x = g
  <2>1. \A x \in Groups : x < g + 1 <=> x < g \/ x = g
    BY <1>1
  <2> QED BY <2>1, <1>2
<1>3. \A x \in Scorable : FoldScores(smoothing)[x] \in Int
  <2>1. \A x \in Scorable : FoldScore(smoothing, x) \in Int
    BY FoldScored DEF Scorable
  <2> QED BY <2>1, <1>2 DEF FoldScores
<1>4. ScoredBefore(g) \in SUBSET Scorable /\ g \notin ScoredBefore(g)
  BY <1>1 DEF ScoredBefore
<1>5. CASE g \in Scorable
  <2>1. ScoredBefore(g + 1) = ScoredBefore(g) \cup {g}
    BY <1>0, <1>5 DEF ScoredBefore
  <2>2. Cardinality(ScoredBefore(g) \cup {g}) = Cardinality(ScoredBefore(g)) + 1
    BY <1>2, <1>4, FS_Subset, FS_AddElement
  <2>3. SumFunctionOnSet(FoldScores(smoothing), ScoredBefore(g) \cup {g})
          = FoldScores(smoothing)[g]
              + SumFunctionOnSet(FoldScores(smoothing), ScoredBefore(g))
    BY <1>2, <1>3, <1>4, <1>5, SumInsert
  <2>4. FoldScores(smoothing)[g] = FoldScore(smoothing, g)
    BY DEF FoldScores
  <2> QED BY <2>1, <2>2, <2>3, <2>4, <1>5
<1>6. CASE g \notin Scorable
  BY <1>0, <1>6 DEF ScoredBefore
<1> QED BY <1>5, <1>6

\* A score more on the list.
LEMMA SumAppend ==
    ASSUME NEW s \in Seq(Int), NEW x \in Int
    PROVE  /\ Append(s, x) \in Seq(Int) /\ Len(Append(s, x)) = Len(s) + 1
           /\ SumFunctionOnSet(Append(s, x), DOMAIN Append(s, x))
                = x + SumFunctionOnSet(s, DOMAIN s)
<1> DEFINE a == Append(s, x)
           n == Len(s)
<1>1. /\ n \in Nat /\ a \in Seq(Int) /\ Len(a) = n + 1 /\ DOMAIN a = 1 .. n + 1
      /\ a[n + 1] = x /\ (\A k \in 1 .. n : a[k] = s[k]) /\ DOMAIN s = 1 .. n
      /\ \A k \in 1 .. n + 1 : a[k] \in Int
  OBVIOUS
<1> HIDE DEF a, n
<1>2. IsFiniteSet(1 .. n + 1) /\ IsFiniteSet(1 .. n)
  BY <1>1, FS_Interval
<1>3. 1 .. n + 1 = (1 .. n) \cup {n + 1} /\ n + 1 \notin 1 .. n
  BY <1>1
<1>4. SumFunctionOnSet(a, (1 .. n) \cup {n + 1}) = a[n + 1] + SumFunctionOnSet(a, 1 .. n)
  BY <1>1, <1>2, <1>3, SumInsert
<1>5. SumFunctionOnSet(a, 1 .. n) = SumFunctionOnSet(s, 1 .. n)
  BY <1>1, <1>2, SumSame
<1>6. SumFunctionOnSet(a, DOMAIN a) = x + SumFunctionOnSet(s, DOMAIN s)
  BY <1>1, <1>3, <1>4, <1>5
<1> QED BY <1>1, <1>6 DEF a, n

\* A training's scores of finished blocks are numbers, and it logs as it ends.
TrainingInv ==
    job \in {"baseline", "ensemble"} =>
        /\ outcome # "done" => tracker = << >>
        /\ outcome = "done" => /\ Len(tracker) = 1 /\ DOMAIN tracker = {1}
                               /\ tracker[1].auc = Concordance(RawScore, Pos)
        /\ job = "baseline" => \A i \in Pos : GroupOf(i) < fold => oof[1][i] \in Int

\* The blocks of the override under trial that were scored, and what they sum to.
FoldsInv ==
    /\ fold > 0 => Len(trials) < Len(grid) /\ Override >= 0
    /\ scores \in Seq(Int)
    /\ Len(scores) = Cardinality(ScoredBefore(fold))
    /\ SumFunctionOnSet(scores, DOMAIN scores)
         = SumFunctionOnSet(FoldScores(Override), ScoredBefore(fold))

Trial == [smoothing : Int, score : Int \cup {NaN}]
Logged == [stage : {"search"}, smoothing : Int, score : Int \cup {NaN}, folds : Nat, auc : {NaN}]

\* A search's finished trials are on the tracker, each with its override's score.
SearchInv ==
    job = "search" =>
        /\ grid \in Seq(Int) /\ trials \in Seq(Trial) /\ tracker \in Seq(Logged)
        /\ Len(tracker) = Len(trials) /\ Len(trials) <= Len(grid)
        /\ \A k \in 1 .. Len(trials) : /\ trials[k].score = TrialScore(grid[k])
                                       /\ tracker[k].smoothing = grid[k]
                                       /\ tracker[k].score = TrialScore(grid[k])
        /\ outcome = "running" => FoldsInv
        /\ outcome = "done" => /\ Len(trials) = Len(grid)
                               /\ \E k \in 1 .. Len(trials) : IsBest(k) /\ model = trials[k]

LedgerInv ==
    /\ table \in Tables /\ fold \in 0 .. NumGroups
    /\ outcome \in {"running", "done", "raised"}
    /\ TrainingInv /\ SearchInv

\* Whatever leaves labels and table alone leaves every judgement alone.
LEMMA JudgementKept ==
    ASSUME starts' = starts, ends' = ends, table' = table
    PROVE  /\ \A score, rows : Concordance(score, rows)' = Concordance(score, rows)
           /\ \A s : TrialScore(s)' = TrialScore(s)
           /\ \A s : FoldScores(s)' = FoldScores(s)
           /\ \A k : ScoredBefore(k)' = ScoredBefore(k)
<1>1. \A score, rows : Concordance(score, rows)' = Concordance(score, rows)
  BY DEF Concordance
<1>2. \A g : FoldTrain(g)' = FoldTrain(g)
  BY SamePurge
<1>3. \A rows : CanTrain(rows)' = CanTrain(rows)
  BY DEF CanTrain
<1>4. Scorable' = Scorable
  BY <1>2 DEF Scorable, CanTrain
<1>5. \A k : ScoredBefore(k)' = ScoredBefore(k)
  BY <1>4 DEF ScoredBefore
<1>6. \A s, g : FoldScore(s, g)' = FoldScore(s, g)
  BY <1>1, <1>2 DEF FoldScore
<1>7. \A s : FoldScores(s)' = FoldScores(s)
  BY <1>6 DEF FoldScores
<1> DEFINE Trials(s) == IF Scorable = {} THEN NaN
                         ELSE SumFunction([g \in Scorable |-> FoldScore(s, g)])
                                \div Cardinality(Scorable)
<1>8. \A s : TrialScore(s)' = TrialScore(s)
  <2>1. \A s : TrialScore(s) = Trials(s)
    BY DEF TrialScore, SumOver, Scorable, FoldScore
  <2>2. \A s : TrialScore(s)' = Trials(s)'
    BY DEF TrialScore, SumOver, Scorable, FoldScore
  <2>3. \A s : Trials(s)' = Trials(s)
    BY <1>4, <1>6
  <2> HIDE DEF Trials
  <2> QED BY <2>1, <2>2, <2>3
<1> QED BY <1>1, <1>5, <1>7, <1>8

\* A block more of the baseline.
LEMMA BaselineFoldLedger ==
    ASSUME LedgerInv, HonestInv, NEW g \in Groups, BaselineFold(g)
    PROVE  LedgerInv'
<1>1. /\ job = "baseline" /\ outcome = "running" /\ g = fold /\ CanTrain(FoldTrain(g))
      /\ fold' = fold + 1 /\ UNCHANGED <<table, job, outcome, tracker>>
      /\ oof' = [oof EXCEPT ![1] = [i \in Pos |->
                   IF i \in Group(g) THEN Predict(table, 1, 0, FoldTrain(g), i)
                   ELSE oof[1][i]]]
  BY DEF BaselineFold, Running
<1>2. fold' \in 0 .. NumGroups /\ g \in Int
  BY <1>1, SplitAssumption DEF Groups
<1>3. oof'[1] = [i \in Pos |-> IF i \in Group(g) THEN Predict(table, 1, 0, FoldTrain(g), i)
                               ELSE oof[1][i]]
  BY <1>1, FoldsAssumption DEF HonestInv
<1>4. ASSUME NEW i \in Pos, GroupOf(i) < fold' PROVE oof'[1][i] \in Int
  <2>1. i \in Group(g) <=> g = GroupOf(i)
    BY GroupsTile
  <2>2. GroupOf(i) \in Int
    BY GroupsTile, SplitAssumption DEF Groups
  <2>3. CASE i \in Group(g)
    <3>1. Predict(table, 1, 0, FoldTrain(g), i) \in Int
      BY <1>1, FoldScored DEF LedgerInv
    <3> QED BY <1>3, <2>3, <3>1
  <2>4. CASE i \notin Group(g)
    <3>1. GroupOf(i) < fold
      BY <2>1, <2>2, <2>4, <1>1, <1>2, <1>4
    <3> QED BY <3>1, <2>4, <1>1, <1>3 DEF LedgerInv, TrainingInv
  <2> QED BY <2>3, <2>4
<1>5. TrainingInv'
  BY <1>1, <1>4 DEF LedgerInv, TrainingInv
<1>6. SearchInv'
  BY <1>1 DEF SearchInv
<1> QED BY <1>1, <1>2, <1>5, <1>6 DEF LedgerInv

\* The end of a training.
LEMMA FinishLedger ==
    ASSUME LedgerInv, Finish
    PROVE  LedgerInv'
<1>1. /\ job \in {"baseline", "ensemble"} /\ outcome = "running" /\ fold = NumGroups
      /\ outcome' = "done"
      /\ UNCHANGED <<starts, ends, table, job, fold, oof>>
  BY DEF Finish, Running, vars
<1>2. tracker' = Append(tracker, [stage |-> job, smoothing |-> 0,
                                  score |-> Mean(scores), folds |-> Len(scores),
                                  auc |-> RocAuc(table.label, RawScore, Pos)])
  BY DEF Finish
<1>3. tracker = << >>
  BY <1>1 DEF LedgerInv, TrainingInv
<1>4. Len(tracker') = 1 /\ DOMAIN tracker' = {1}
      /\ tracker'[1].auc = RocAuc(table.label, RawScore, Pos)
  BY <1>2, <1>3
<1>5. IsFiniteSet(Pos) /\ HasBothClasses(table.label, Pos)
  <2>1. IsFiniteSet(Pos)
    BY SplitAssumption, FS_Interval DEF Pos
  <2>2. HasBothClasses(table.label, Pos)
    BY FoldsAssumption DEF LedgerInv
  <2> QED BY <2>1, <2>2
<1>6. \A i \in Pos : RawScore[i] \in Int
  <2>1. CASE job = "baseline"
    <3>1. \A i \in Pos : GroupOf(i) < NumGroups
      BY GroupsTile, SplitAssumption DEF Groups
    <3> QED BY <3>1, <2>1, <1>1 DEF RawScore, LedgerInv, TrainingInv
  <2>2. CASE job # "baseline"
    <3>1. ASSUME NEW i \in Pos PROVE RawScore[i] \in Int
      <4> DEFINE told == [m \in Members |-> oof[m][i]]
                 shares == [m \in Members |-> Cardinality({j \in Pos : oof[m][j] <= told[m]})]
      <4>1. RawScore[i] = SumFunctionOnSet(shares, Members)
        BY <2>2 DEF RawScore, Combined, Combine, SumOver, SumFunction
      <4>2. \A m \in Members : shares[m] \in Int
        BY <1>5, FS_Subset, FS_CardinalityType
      <4> HIDE DEF shares
      <4> QED BY <4>1, <4>2, FoldsAssumption, SumStep
    <3> QED BY <3>1
  <2> QED BY <2>1, <2>2
<1>7. RocAuc(table.label, RawScore, Pos) = Concordance(RawScore, Pos)
  BY <1>5, <1>6, RankStatistic
<1>8. Concordance(RawScore, Pos)' = Concordance(RawScore, Pos)
  BY <1>1 DEF Concordance, RawScore, Combined
<1>9. TrainingInv'
  <2>1. job' = "baseline" => \A i \in Pos : GroupOf(i) < fold' => oof'[1][i] \in Int
    BY <1>1 DEF LedgerInv, TrainingInv
  <2> QED BY <2>1, <1>1, <1>4, <1>7, <1>8 DEF TrainingInv
<1>10. SearchInv'
  BY <1>1 DEF SearchInv
<1> QED BY <1>1, <1>9, <1>10 DEF LedgerInv
\* A block more of the override under trial.
LEMMA ScoreFoldLedger ==
    ASSUME LedgerInv, NEW g \in Groups, ScoreFold(g)
    PROVE  LedgerInv'
<1> DEFINE score == [i \in Pos |-> Predict(table, 1, Override, FoldTrain(g), i)]
<1>1. /\ job = "search" /\ outcome = "running" /\ g = fold
      /\ Len(trials) < Len(grid) /\ Override >= 0 /\ fold' = fold + 1
      /\ UNCHANGED <<starts, ends, table, job, grid, trials, model, tracker, outcome>>
  BY DEF ScoreFold, Running, vars
<1>2. scores' = IF g \in Scorable THEN Append(scores, RocAuc(table.label, score, Group(g)))
                ELSE scores
  BY DEF ScoreFold, Scorable
<1>3. fold' \in 0 .. NumGroups /\ fold' > 0 /\ g \in Int
  BY <1>1, SplitAssumption DEF Groups
<1>4. SearchInv /\ FoldsInv /\ table \in Tables
  BY <1>1 DEF LedgerInv, SearchInv
<1>5. Override \in Nat
  <2>1. grid \in Seq(Int) /\ Len(trials) \in Nat
    BY <1>1, <1>4 DEF SearchInv
  <2>2. grid[Len(trials) + 1] \in Int
    BY <2>1, <1>1
  <2> QED BY <2>2, <1>1 DEF Override
<1>6. Override' = Override
  BY <1>1 DEF Override
<1>7. g \in Scorable => /\ RocAuc(table.label, score, Group(g)) = FoldScore(Override, g)
                        /\ FoldScore(Override, g) \in Int
  BY <1>4, <1>5, FoldScored DEF Scorable
<1> HIDE DEF score
<1> DEFINE total(k) == SumFunctionOnSet(FoldScores(Override), ScoredBefore(k))
<1>8. /\ scores' \in Seq(Int)
      /\ Len(scores') = Cardinality(ScoredBefore(fold'))
      /\ SumFunctionOnSet(scores', DOMAIN scores') = total(fold')
  <2>1. /\ scores \in Seq(Int) /\ Len(scores) = Cardinality(ScoredBefore(g))
        /\ SumFunctionOnSet(scores, DOMAIN scores) = total(g)
    BY <1>1, <1>4 DEF FoldsInv
  <2>2. fold' = g + 1
    BY <1>1
  <2>3. CASE g \in Scorable
    <3>1. scores' = Append(scores, FoldScore(Override, g)) /\ FoldScore(Override, g) \in Int
      BY <1>2, <1>7, <2>3
    <3>2. /\ scores' \in Seq(Int) /\ Len(scores') = Len(scores) + 1
          /\ SumFunctionOnSet(scores', DOMAIN scores')
               = FoldScore(Override, g) + SumFunctionOnSet(scores, DOMAIN scores)
      BY <2>1, <3>1, SumAppend
    <3>3. /\ Cardinality(ScoredBefore(g + 1)) = Cardinality(ScoredBefore(g)) + 1
          /\ total(g + 1) = FoldScore(Override, g) + total(g)
      BY <1>4, <1>5, <2>3, OneMoreFold
    <3> HIDE DEF total
    <3> QED BY <2>1, <2>2, <3>2, <3>3
  <2>4. CASE g \notin Scorable
    <3>1. ScoredBefore(g + 1) = ScoredBefore(g) /\ scores' = scores
      BY <1>2, <1>4, <1>5, <2>4, OneMoreFold
    <3> QED BY <2>1, <2>2, <3>1
  <2> QED BY <2>3, <2>4
<1>9. FoldsInv'
  <2>1. /\ FoldScores(Override)' = FoldScores(Override)
        /\ ScoredBefore(fold)' = ScoredBefore(fold')
    <3>1. /\ \A s : FoldScores(s)' = FoldScores(s)
          /\ \A k : ScoredBefore(k)' = ScoredBefore(k)
      BY <1>1, JudgementKept
    <3> QED BY <3>1, <1>1, <1>6 DEF FoldScores, ScoredBefore
  <2> QED BY <2>1, <1>1, <1>6, <1>8 DEF FoldsInv
<1>10. SearchInv'
  <2>1. \A s : TrialScore(s)' = TrialScore(s)
    BY <1>1, JudgementKept
  <2> QED BY <2>1, <1>1, <1>4, <1>9 DEF SearchInv
<1>11. TrainingInv'
  BY <1>1 DEF TrainingInv
<1> QED BY <1>1, <1>3, <1>10, <1>11 DEF LedgerInv

\* A trial is finished.
LEMMA LogTrialLedger ==
    ASSUME LedgerInv, LogTrial
    PROVE  LedgerInv'
<1> DEFINE n == Len(trials)
           mean == Mean(scores)
<1>1. /\ job = "search" /\ outcome = "running" /\ fold = NumGroups /\ fold' = 0
      /\ scores' = << >>
      /\ trials' = Append(trials, [smoothing |-> Override, score |-> mean])
      /\ tracker' = Append(tracker, [stage |-> "search", smoothing |-> Override,
                                     score |-> mean, folds |-> Len(scores), auc |-> NaN])
      /\ UNCHANGED <<starts, ends, table, job, grid, model, outcome>>
  BY DEF LogTrial, Running, vars
<1>2. SearchInv /\ FoldsInv
  BY <1>1 DEF LedgerInv, SearchInv
<1>3. n < Len(grid) /\ Override = grid[n + 1]
  <2>1. fold > 0
    BY <1>1, SplitAssumption
  <2>2. Len(trials) < Len(grid)
    BY <2>1, <1>2 DEF FoldsInv
  <2>3. Override = grid[Len(trials) + 1]
    BY DEF Override
  <2> QED BY <2>2, <2>3
<1>4. /\ grid \in Seq(Int) /\ trials \in Seq(Trial) /\ tracker \in Seq(Logged)
      /\ Len(tracker) = n /\ n \in Nat /\ Len(grid) \in Nat
  <2>1. grid \in Seq(Int) /\ trials \in Seq(Trial) /\ tracker \in Seq(Logged)
        /\ Len(tracker) = n
    BY <1>1, <1>2 DEF SearchInv
  <2> QED BY <2>1
<1>5. Override \in Int
  BY <1>3, <1>4
<1>6. mean = TrialScore(Override)
  BY <1>1, <1>2, TrialIsMean DEF FoldsInv
<1>7. mean \in Int \cup {NaN} /\ Len(scores) \in Nat
  <2>1. scores \in Seq(Int) /\ DOMAIN scores = 1 .. Len(scores) /\ Len(scores) \in Nat
    BY <1>2 DEF FoldsInv
  <2>2. IsFiniteSet(1 .. Len(scores)) /\ \A k \in 1 .. Len(scores) : scores[k] \in Int
    BY <2>1, FS_Interval
  <2>3. SumFunctionOnSet(scores, 1 .. Len(scores)) \in Int
    BY <2>2, SumStep
  <2>4. mean = IF scores = << >> THEN NaN
               ELSE SumFunctionOnSet(scores, DOMAIN scores) \div Len(scores)
    <3>1. [k \in DOMAIN scores |-> scores[k]] = scores
      BY <2>1
    <3>2. SumFunction(scores) = SumFunctionOnSet(scores, DOMAIN scores)
      BY DEF SumFunction
    <3> QED BY <3>1, <3>2 DEF Mean, SumOver
  <2>5. scores # << >> => Len(scores) \in Nat \ {0}
    BY <2>1
  <2> HIDE DEF mean
  <2> QED BY <2>1, <2>3, <2>4, <2>5
<1> HIDE DEF mean, n
<1>8. /\ [smoothing |-> Override, score |-> mean] \in Trial
      /\ [stage |-> "search", smoothing |-> Override, score |-> mean,
          folds |-> Len(scores), auc |-> NaN] \in Logged
  BY <1>5, <1>7 DEF Trial, Logged
<1>9. /\ trials' \in Seq(Trial) /\ tracker' \in Seq(Logged)
      /\ Len(trials') = n + 1 /\ Len(tracker') = n + 1
      /\ trials'[n + 1].score = mean
      /\ tracker'[n + 1].score = mean /\ tracker'[n + 1].smoothing = Override
      /\ \A k \in 1 .. n : trials'[k] = trials[k] /\ tracker'[k] = tracker[k]
  <2> HIDE DEF Override
  <2>1. Len(trials) = n
    BY DEF n
  <2> QED BY <1>1, <1>4, <1>8, <2>1
<1>10. \A s : TrialScore(s)' = TrialScore(s)
  BY <1>1, JudgementKept
<1>11. ASSUME NEW k \in 1 .. n + 1
       PROVE  /\ trials'[k].score = TrialScore(grid[k])
              /\ tracker'[k].smoothing = grid[k]
              /\ tracker'[k].score = TrialScore(grid[k])
  <2>1. CASE k = n + 1
    BY <2>1, <1>3, <1>6, <1>9
  <2>2. CASE k \in 1 .. n
    <3>1. /\ trials[k].score = TrialScore(grid[k])
          /\ tracker[k].smoothing = grid[k]
          /\ tracker[k].score = TrialScore(grid[k])
      BY <2>2, <1>1, <1>2 DEF SearchInv, n
    <3>2. trials'[k] = trials[k] /\ tracker'[k] = tracker[k]
      BY <2>2, <1>9
    <3> QED BY <3>1, <3>2
  <2> QED BY <2>1, <2>2, <1>4
<1>12. FoldsInv'
  <2>1. ScoredBefore(0) = {}
    BY SplitAssumption DEF ScoredBefore, Scorable, Groups
  <2>2. ScoredBefore(fold)' = {}
    <3>1. ScoredBefore(0)' = {}
      BY SplitAssumption DEF ScoredBefore, Scorable, Groups
    <3> QED BY <3>1, <1>1 DEF ScoredBefore
  <2>3. /\ DOMAIN scores' = {} /\ Len(scores') = 0 /\ scores' \in Seq(Int)
        /\ Cardinality({}) = 0 /\ ~ (fold' > 0)
    BY <1>1, FS_EmptySet
  <2>4. \A f : SumFunctionOnSet(f, {}) = 0
    BY SumOfNone
  <2> QED BY <2>2, <2>3, <2>4 DEF FoldsInv
<1>13. SearchInv'
  BY <1>1, <1>3, <1>4, <1>9, <1>10, <1>11, <1>12 DEF SearchInv
<1>14. TrainingInv'
  BY <1>1 DEF TrainingInv
<1>15. fold' \in 0 .. NumGroups
  BY <1>1, SplitAssumption
<1> QED BY <1>1, <1>13, <1>14, <1>15 DEF LedgerInv

\* The ledger of every step.
LEMMA LedgerStep ==
    ASSUME LedgerInv, HonestInv, [StudyNext]_<<vars, study>>
    PROVE  LedgerInv'
<1>1. ASSUME UNCHANGED <<starts, ends, table, job, grid, fold, oof, scores, trials, model,
                         tracker>>,
             \/ outcome' = outcome
             \/ outcome = "running" /\ outcome' = "raised"
             \/ job = "cpcv" /\ outcome' \in {"running", "done"}
      PROVE  LedgerInv'
  <2>1. /\ \A s : TrialScore(s)' = TrialScore(s)
        /\ \A s : FoldScores(s)' = FoldScores(s)
        /\ \A k : ScoredBefore(k)' = ScoredBefore(k)
    BY <1>1, JudgementKept
  <2>2. FoldsInv' = FoldsInv
    <3>1. Override' = Override
      BY <1>1 DEF Override
    <3>2. /\ FoldScores(Override)' = FoldScores(Override)
          /\ ScoredBefore(fold)' = ScoredBefore(fold)
      BY <2>1, <3>1, <1>1 DEF FoldScores, ScoredBefore
    <3> QED BY <3>1, <3>2, <1>1 DEF FoldsInv
  <2>3. Concordance(RawScore, Pos)' = Concordance(RawScore, Pos)
    BY <1>1 DEF Concordance, RawScore, Combined
  <2>4. \A k : IsBest(k)' = IsBest(k)
    BY <1>1 DEF IsBest
  <2>5. TrainingInv'
    BY <2>3, <1>1 DEF LedgerInv, TrainingInv
  <2>6. SearchInv'
    BY <2>1, <2>2, <2>4, <1>1 DEF LedgerInv, SearchInv
  <2> QED BY <2>5, <2>6, <1>1 DEF LedgerInv
<1>2. ASSUME NEW g \in Groups, EnsembleFold(g) PROVE LedgerInv'
  <2>1. /\ job = "ensemble" /\ outcome = "running" /\ g = fold /\ fold' = fold + 1
        /\ UNCHANGED <<table, job, tracker, outcome>>
    BY <1>2 DEF EnsembleFold, Running
  <2>2. fold' \in 0 .. NumGroups
    BY <2>1, SplitAssumption DEF Groups
  <2> QED BY <2>1, <2>2 DEF LedgerInv, TrainingInv, SearchInv
<1>3. ASSUME NEW g \in Groups, BaselineFold(g) PROVE LedgerInv'
  BY <1>3, BaselineFoldLedger
<1>4. ASSUME NEW g \in Groups, ScoreFold(g) PROVE LedgerInv'
  BY <1>4, ScoreFoldLedger
<1>5. ASSUME Choose PROVE LedgerInv'
  <2>1. /\ job = "search" /\ outcome = "running" /\ Len(trials) = Len(grid)
        /\ \E k \in DOMAIN trials : IsBest(k) /\ model' = trials[k]
        /\ outcome' = "done"
        /\ UNCHANGED <<starts, ends, table, job, grid, fold, oof, scores, trials, tracker>>
    BY <1>5 DEF Choose, Running, vars
  <2>2. \A k : IsBest(k)' = IsBest(k)
    BY <2>1 DEF IsBest
  <2>3. \A s : TrialScore(s)' = TrialScore(s)
    BY <2>1, JudgementKept
  <2>4. DOMAIN trials = 1 .. Len(trials)
    BY <2>1 DEF LedgerInv, SearchInv
  <2>5. SearchInv'
    BY <2>1, <2>2, <2>3, <2>4 DEF LedgerInv, SearchInv
  <2> QED BY <2>1, <2>5 DEF LedgerInv, TrainingInv
<1>6. ASSUME NEW c \in Combos, Evaluate(c) PROVE LedgerInv'
  BY <1>6, <1>1 DEF Evaluate, Split, input
<1>7. ASSUME NEW p \in Paths, StitchPath(p) PROVE LedgerInv'
  BY <1>7, <1>1 DEF StitchPath, Stitch, input, Running
<1>8. ASSUME NEW c \in Combos, EvaluateRaises(c) PROVE LedgerInv'
  BY <1>8, <1>1 DEF EvaluateRaises, Raise, vars, Running
<1>9. ASSUME NEW g \in Groups, FoldRaises(g) PROVE LedgerInv'
  BY <1>9, <1>1 DEF FoldRaises, Raise, vars, Running
<1>10. ASSUME FinishRaises \/ OverrideRaises \/ LogTrialRaises \/ NothingScored
       PROVE  LedgerInv'
  BY <1>10, <1>1 DEF FinishRaises, OverrideRaises, LogTrialRaises, NothingScored, Raise,
                     vars, Running
<1>11. ASSUME UNCHANGED <<vars, study>> PROVE LedgerInv'
  BY <1>11, <1>1 DEF vars, study
<1> QED BY <1>2, <1>3, <1>4, <1>5, <1>6, <1>7, <1>8, <1>9, <1>10, <1>11,
           FinishLedger, LogTrialLedger DEF StudyNext

\* The trial count is honest: a search logs every combination it finished under its
\* own override with the mean of the blocks that could be judged, and picks the best
\* of all of them; a training logs one run, whose rank statistic is the chance that a
\* positive row scores above a negative one.
THEOREM LedgersAreTrue == StudySpec => []LedgerIsTrue
<1>1. StudyInit => LedgerInv
  <2> SUFFICES ASSUME StudyInit PROVE LedgerInv
    OBVIOUS
  <2>1. /\ table \in Tables /\ job \in {"baseline", "ensemble", "search", "cpcv"}
        /\ grid \in IF job = "search" THEN Grids ELSE {<< >>}
        /\ fold = 0 /\ scores = << >> /\ trials = << >> /\ tracker = << >>
        /\ outcome = "running"
    BY DEF StudyInit
  <2>2. TrainingInv
    <3>1. \A i \in Pos : ~ (GroupOf(i) < 0)
      BY GroupsTile, SplitAssumption DEF Groups
    <3> QED BY <2>1, <3>1 DEF TrainingInv
  <2>3. FoldsInv
    <3>1. ScoredBefore(0) = {}
      BY SplitAssumption DEF ScoredBefore, Scorable, Groups
    <3>2. /\ DOMAIN scores = {} /\ Len(scores) = 0 /\ scores \in Seq(Int)
          /\ Cardinality({}) = 0 /\ ~ (fold > 0)
      BY <2>1, FS_EmptySet
    <3>3. \A f : SumFunctionOnSet(f, {}) = 0
      BY SumOfNone
    <3> QED BY <2>1, <3>1, <3>2, <3>3 DEF FoldsInv
  <2>4. SearchInv
    <3>1. job = "search" => grid \in Seq(Int)
      BY <2>1, FoldsAssumption
    <3>2. trials \in Seq(Trial) /\ tracker \in Seq(Logged) /\ Len(trials) = 0
          /\ Len(tracker) = 0
      BY <2>1
    <3> QED BY <2>1, <2>3, <3>1, <3>2 DEF SearchInv
  <2>5. 0 \in 0 .. NumGroups
    BY SplitAssumption
  <2> QED BY <2>1, <2>2, <2>4, <2>5 DEF LedgerInv
<1>2. LedgerInv => LedgerIsTrue
  <2> SUFFICES ASSUME LedgerInv, outcome # "running" PROVE LedgerIsTrue
    BY DEF LedgerIsTrue
  <2>1. ASSUME job = "search"
        PROVE  /\ \A k \in DOMAIN tracker : /\ tracker[k].smoothing = grid[k]
                                            /\ tracker[k].score = TrialScore(grid[k])
               /\ outcome = "done" =>
                    /\ Len(tracker) = Len(grid)
                    /\ \A k \in DOMAIN tracker : tracker[k].score # NaN =>
                          model.score >= tracker[k].score
    <3>1. /\ trials \in Seq(Trial) /\ tracker \in Seq(Logged) /\ Len(tracker) = Len(trials)
          /\ \A k \in 1 .. Len(trials) : /\ trials[k].score = TrialScore(grid[k])
                                         /\ tracker[k].smoothing = grid[k]
                                         /\ tracker[k].score = TrialScore(grid[k])
      BY <2>1 DEF LedgerInv, SearchInv
    <3>2. DOMAIN tracker = 1 .. Len(trials) /\ DOMAIN trials = 1 .. Len(trials)
      BY <3>1
    <3>3. ASSUME outcome = "done", NEW k \in DOMAIN tracker, tracker[k].score # NaN
          PROVE  model.score >= tracker[k].score
      <4>1. PICK b \in 1 .. Len(trials) : IsBest(b) /\ model = trials[b]
        BY <2>1, <3>3 DEF LedgerInv, SearchInv
      <4>2. k \in 1 .. Len(trials) /\ trials[k].score = tracker[k].score
        BY <3>1, <3>2, <3>3
      <4>3. /\ trials[b].score # NaN
            /\ \/ trials[k].score < trials[b].score
               \/ trials[k].score = trials[b].score
        BY <4>1, <4>2, <3>2, <3>3 DEF IsBest
      <4>4. trials[b].score \in Int /\ trials[k].score \in Int
        <5>1. trials[b] \in Trial /\ trials[k] \in Trial
          BY <3>1, <4>2
        <5> QED BY <5>1, <4>2, <4>3, <3>3 DEF Trial
      <4> QED BY <4>1, <4>2, <4>3, <4>4
    <3>4. outcome = "done" => Len(tracker) = Len(grid)
      BY <2>1, <3>1 DEF LedgerInv, SearchInv
    <3> QED BY <3>1, <3>2, <3>3, <3>4
  <2>2. ASSUME job \in {"baseline", "ensemble"}
        PROVE  /\ Len(tracker) = IF outcome = "done" THEN 1 ELSE 0
               /\ \A k \in DOMAIN tracker : tracker[k].auc = Concordance(RawScore, Pos)
    BY <2>2 DEF LedgerInv, TrainingInv
  <2> QED BY <2>1, <2>2 DEF LedgerIsTrue
<1>3. StudyInit => HonestInv
  BY DEF StudyInit, Init, HonestInv, Unscored
<1>4. HonestInv /\ IInv /\ [StudyNext]_<<vars, study>> => HonestInv'
  BY HonestStep
<1>5. LedgerInv /\ HonestInv /\ [StudyNext]_<<vars, study>> => LedgerInv'
  BY LedgerStep
<1>6. StudySpec => []IInv
  BY StudiesFollowTheScheme, Invariance, PTL
<1> QED BY <1>1, <1>2, <1>3, <1>4, <1>5, <1>6, PTL DEF StudySpec

------------------------------------------------------------------------------
(* The rotation purges in days what it trades in sessions.                 *)

\* The sessions of a run are sorted.
LEMMA CalendarFacts ==
    ASSUME calendar \in Calendars
    PROVE  /\ HoldSessions \in Nat /\ HoldSessions >= 1 /\ First \in Nat
           /\ Len(calendar) \in Nat /\ Sessions = 1 .. Len(calendar)
           /\ \A t \in Sessions : calendar[t] \in Int
           /\ \A t, u \in Sessions : t <= u => calendar[t] <= calendar[u]
           /\ \A t \in Observed : /\ t \in Sessions /\ t + HoldSessions \in Sessions
                                  /\ calendar[t + HoldSessions] <= LabelEnd(t)
                                  /\ LabelEnd(t) \in Int
<1>1. /\ HoldSessions \in Nat /\ HoldSessions >= 1 /\ First \in Nat
      /\ calendar \in Seq(Int)
      /\ \A t, u \in DOMAIN calendar : t < u => calendar[t] < calendar[u]
      /\ \A t \in 1 .. Len(calendar) - HoldSessions :
            calendar[t + HoldSessions] - calendar[t] <= 2 * HoldSessions
  BY RotationAssumption DEF First
<1>2. Len(calendar) \in Nat /\ Sessions = 1 .. Len(calendar)
  BY <1>1 DEF Sessions
<1>3. \A t \in Sessions : calendar[t] \in Int
  BY <1>1, <1>2
<1>4. ASSUME NEW t \in Sessions, NEW u \in Sessions, t <= u
      PROVE  calendar[t] <= calendar[u]
  <2>1. CASE t = u
    BY <2>1, <1>3
  <2>2. CASE t < u
    BY <2>2, <1>1, <1>3 DEF Sessions
  <2> QED BY <2>1, <2>2, <1>2, <1>4
<1>5. ASSUME NEW t \in Observed
      PROVE  /\ t \in Sessions /\ t + HoldSessions \in Sessions
             /\ calendar[t + HoldSessions] <= LabelEnd(t)
             /\ LabelEnd(t) \in Int
  <2>1. t \in Int /\ 1 <= t /\ t <= Len(calendar) - HoldSessions
    BY <1>1, <1>2 DEF Observed
  <2>2. t \in Sessions /\ t + HoldSessions \in Sessions
    BY <2>1, <1>1, <1>2
  <2>3. calendar[t + HoldSessions] - calendar[t] <= 2 * HoldSessions
    BY <2>1, <1>1, <1>2
  <2> QED BY <2>2, <2>3, <1>1, <1>3 DEF LabelEnd
<1> QED BY <1>1, <1>2, <1>3, <1>4, <1>5

\* A test block holds observations.
LEMMA BlockObserved ==
    ASSUME calendar \in Calendars, NEW b \in 0 .. Splits - 1
    PROVE  BlockSessions(b) \subseteq Observed /\ IsFiniteSet(BlockSessions(b))
<1> DEFINE n == Cardinality(Observed)
<1>1. /\ Splits \in Nat \ {0} /\ b \in 0 .. Splits /\ b + 1 \in 0 .. Splits
      /\ Splits \in 0 .. Splits /\ b + 1 <= Splits
  BY RotationAssumption
<1>2. /\ First \in Nat /\ Len(calendar) \in Nat /\ HoldSessions \in Nat
      /\ First + 1 \in Int /\ Len(calendar) - HoldSessions \in Int
  BY CalendarFacts
<1>3. n = IF First + 1 > Len(calendar) - HoldSessions THEN 0
          ELSE (Len(calendar) - HoldSessions) - (First + 1) + 1
  BY <1>2, FS_Interval DEF Observed
<1>4. n \in Nat
  BY <1>2, <1>3
<1>5. BlockSessions(b) = (First + 1 + CutAt(n, Splits, b)) .. (First + CutAt(n, Splits, b + 1))
  BY DEF BlockSessions, CutAt
<1> HIDE DEF n
<1>6. /\ CutAt(n, Splits, b) \in Nat /\ CutAt(n, Splits, b + 1) \in Nat
      /\ CutAt(n, Splits, b + 1) <= n
  BY <1>1, <1>4, EvenCuts
<1>7. IsFiniteSet(BlockSessions(b))
  BY <1>2, <1>5, <1>6, FS_Interval
<1>8. ASSUME NEW t \in BlockSessions(b) PROVE t \in Observed
  <2>1. t \in Int /\ First + 1 <= t /\ t <= First + n
    BY <1>2, <1>4, <1>5, <1>6
  <2> QED BY <2>1, <1>2, <1>3, <1>4 DEF Observed
<1> QED BY <1>7, <1>8

\* The days a label is given are enough for the sessions it takes: what is trained
\* on before a block has closed before it, and what is trained on after it opens
\* after the block's last label has closed.
LEMMA TrainedApart ==
    ASSUME calendar \in Calendars, embargo \in Nat, NEW b \in 0 .. Splits - 1,
           NEW t \in BlockSessions(b), NEW u \in TrainSessions(b)
    PROVE  u + HoldSessions < t \/ t + HoldSessions < u
<1> DEFINE test == BlockSessions(b)
           ends_ == {LabelEnd(v) : v \in test}
           lastEnd == Max(ends_)
           later == {v \in Observed : calendar[v] > lastEnd}
<1>1. /\ test \subseteq Observed /\ IsFiniteSet(test) /\ t \in test
      /\ t \in Observed /\ u \in Observed /\ u \notin test
  BY BlockObserved DEF TrainSessions
<1>2. Observed \subseteq Int /\ Observed \subseteq Sessions
  BY CalendarFacts DEF Observed
<1>3. /\ u \in Int /\ t \in Int /\ HoldSessions \in Nat
      /\ u + HoldSessions \in Sessions /\ t + HoldSessions \in Sessions
      /\ calendar[u + HoldSessions] <= LabelEnd(u)
      /\ calendar[t + HoldSessions] <= LabelEnd(t)
      /\ LabelEnd(u) \in Int /\ LabelEnd(t) \in Int
      /\ calendar[u] \in Int /\ calendar[t] \in Int
      /\ calendar[u + HoldSessions] \in Int /\ calendar[t + HoldSessions] \in Int
  BY <1>1, <1>2, CalendarFacts
<1>4. \/ LabelEnd(u) < calendar[Min(test)]
      \/ u \in later /\ u >= Min(later) + embargo
  BY DEF TrainSessions
<1>5. CASE LabelEnd(u) < calendar[Min(test)]
  <2>1. Min(test) \in test /\ Min(test) <= t
    <3>1. test \in SUBSET Int /\ test # {}
      BY <1>1, <1>2
    <3>2. \E x \in test : \A y \in test : x <= y
      <4> HIDE DEF test
      <4> QED BY <3>1, <1>1, LeastElement
    <3> HIDE DEF test
    <3> QED BY <3>2, <1>1 DEF Min
  <2>2. calendar[Min(test)] <= calendar[t] /\ calendar[Min(test)] \in Int
    BY <2>1, <1>1, <1>2, CalendarFacts
  <2>3. calendar[u + HoldSessions] < calendar[t]
    BY <2>2, <1>3, <1>5
  <2>4. ~ (t <= u + HoldSessions)
    <3>1. t \in Sessions
      BY <1>1, <1>2
    <3>2. t <= u + HoldSessions => calendar[t] <= calendar[u + HoldSessions]
      BY <3>1, <1>3, CalendarFacts
    <3> QED BY ONLY <3>2, <2>3, <1>3
  <2> QED BY <2>4, <1>3
<1>6. CASE u \in later /\ u >= Min(later) + embargo
  <2>1. lastEnd \in Int /\ LabelEnd(t) <= lastEnd
    <3>1. IsFiniteSet(ends_)
      <4> DEFINE f == [v \in test |-> LabelEnd(v)]
      <4>1. f \in Surjection(test, ends_)
        BY DEF Surjection
      <4> HIDE DEF test, ends_, f
      <4> QED BY <1>1, <4>1, FS_Surjection
    <3>2. ends_ \in SUBSET Int /\ ends_ # {} /\ LabelEnd(t) \in ends_
      BY <1>1, CalendarFacts
    <3> HIDE DEF ends_
    <3>3. \E x \in ends_ : \A y \in ends_ : y <= x
      BY <3>1, <3>2, GreatestElement
    <3>4. \E x \in ends_ : \A y \in ends_ : x >= y
      BY <3>2, <3>3
    <3>5. lastEnd \in ends_ /\ \A y \in ends_ : lastEnd >= y
      BY <3>4 DEF Max
    <3> QED BY <3>2, <3>5
  <2>2. Min(later) \in later /\ Min(later) \in Int
    <3>1. later \in SUBSET Int /\ later # {} /\ IsFiniteSet(later)
      <4>1. IsFiniteSet(Observed)
        BY CalendarFacts, FS_Interval DEF Observed
      <4>2. later \subseteq Observed
        OBVIOUS
      <4>3. IsFiniteSet(later)
        <5> HIDE DEF later
        <5> QED BY <4>1, <4>2, FS_Subset
      <4> QED BY <4>2, <4>3, <1>2, <1>6
    <3> HIDE DEF later
    <3>2. \E x \in later : \A y \in later : x <= y
      BY <3>1, LeastElement
    <3> QED BY <3>1, <3>2 DEF Min
  <2>3. Min(later) \in Sessions /\ calendar[Min(later)] > lastEnd
    BY <2>2, <1>2
  <2> HIDE DEF later, lastEnd
  <2>4. calendar[Min(later)] \in Int
    BY <2>3, CalendarFacts
  <2>7. calendar[Min(later)] > calendar[t + HoldSessions]
    <3>1. calendar[t + HoldSessions] \in Int /\ LabelEnd(t) \in Int
      BY <1>3
    <3>2. calendar[t + HoldSessions] <= LabelEnd(t)
      BY <1>3
    <3> QED BY ONLY <3>1, <3>2, <2>1, <2>3, <2>4
  <2>5. ~ (Min(later) <= t + HoldSessions)
    <3>1. Min(later) <= t + HoldSessions => calendar[Min(later)] <= calendar[t + HoldSessions]
      BY <2>3, <1>3, CalendarFacts
    <3>2. calendar[t + HoldSessions] \in Int
      BY <1>3
    <3> QED BY ONLY <3>1, <3>2, <2>4, <2>7
  <2>6. Min(later) <= u
    BY <2>2, <1>3, <1>6
  <2> QED BY <2>2, <2>5, <2>6, <1>3
<1> QED BY <1>4, <1>5, <1>6

\* No fold is scored out of turn, and what was learnt is honest.
RotationInv ==
    /\ calendar \in Calendars
    /\ embargo \in Nat /\ block \in Nat
    /\ stage = "fold" => block < Splits
    /\ RotationHonest

\* A configuration begins with the first fold and nothing learnt.
LEMMA BeginKeeps ==
    ASSUME RotationInv, Begin, calendar' = calendar
    PROVE  RotationInv'
<1> DEFINE n == Cardinality(Observed)
           whole == IF HoldSessions + 1 <= n \div 5 THEN HoldSessions + 1 ELSE n \div 5
<1>1. /\ HoldSessions \in Nat /\ First \in Nat /\ Len(calendar) \in Nat
      /\ Splits \in Nat /\ Splits > 0
  BY RotationAssumption, CalendarFacts DEF RotationInv
<1>2. n \in Nat
  <2>1. First + 1 \in Int /\ Len(calendar) - HoldSessions \in Int
    BY <1>1
  <2>2. n = IF First + 1 > Len(calendar) - HoldSessions THEN 0
            ELSE (Len(calendar) - HoldSessions) - (First + 1) + 1
    BY <2>1, FS_Interval DEF Observed
  <2> QED BY <2>1, <2>2, <1>1
<1>3. embargo' \in IF whole = HoldSessions + 1 THEN {whole, whole - 1} ELSE {whole}
  BY DEF Begin
<1> HIDE DEF n
<1>4. embargo' \in Nat
  BY <1>1, <1>2, <1>3
<1>5. RotationHonest'
  BY DEF Begin, RotationHonest, NoProbs
<1>6. block' = 0
  BY DEF Begin
<1> QED BY <1>1, <1>4, <1>5, <1>6 DEF RotationInv

\* No score was learnt from a session whose holding period meets that of the
\* session it scores: oos_probabilities, for every calendar, number of folds and
\* holding period, though it counts labels in days and the embargo in sessions.
THEOREM ScoresAreOutOfSample == RotationSpec => []RotationHonest
<1>1. RotationInit => RotationInv
  <2> SUFFICES ASSUME RotationInit PROVE RotationInv
    OBVIOUS
  <2>1. RotationHonest
    BY DEF RotationInit, RotationHonest, NoProbs
  <2> QED BY <2>1 DEF RotationInit, RotationInv
<1>2. RotationInv /\ [RotationNext]_rotationVars => RotationInv'
  <2> SUFFICES ASSUME RotationInv, [RotationNext]_rotationVars PROVE RotationInv'
    OBVIOUS
  <2>1. ASSUME UNCHANGED <<calendar, embargo, block, learnt>>, stage' # "fold" \/ stage' = stage
        PROVE  RotationInv'
    BY <2>1 DEF RotationInv, RotationHonest
  <2>2. CASE BenchmarkDay \/ FoldsRaise \/ MakeSchedule \/ TradeDay \/ JudgeGate
    BY <2>1, <2>2 DEF BenchmarkDay, FoldsRaise, MakeSchedule, TradeDay, JudgeGate,
                      data, forecast
  <2>3. CASE BenchmarkDone
    BY <2>3, BeginKeeps DEF BenchmarkDone, data
  <2>4. CASE NextConfig
    <3>1. calendar' = calendar
      BY <2>4 DEF NextConfig, data
    <3>2. CASE Begin
      BY <3>1, <3>2, BeginKeeps
    <3>3. CASE ~ Begin
      <4>1. stage' = "judge" /\ UNCHANGED forecast
        BY <2>4, <3>3 DEF NextConfig
      <4> QED BY <4>1, <3>1, <2>1 DEF forecast
    <3> QED BY <3>2, <3>3
  <2>5. CASE TrainFold
    <3>1. PICK score, rows : Say(score, rows) /\ rows \subseteq TrainSessions(block)
      <4> DEFINE trained == TrainSessions(block)
                 classes == {Outperforms(s, t) : s \in Range(Funds), t \in trained}
                 none == [s \in Range(Funds) |-> 0]
      <4>1. IF Cardinality(classes) < 2 THEN Say(none, {})
            ELSE \E score \in Scores : Say(score, trained)
        BY <2>5 DEF TrainFold
      <4> HIDE DEF classes, none, trained
      <4> QED BY <4>1 DEF trained
    <3>2. stage = "fold" /\ block \in 0 .. Splits - 1 /\ Splits \in Nat
      BY <2>5, RotationAssumption DEF TrainFold, RotationInv
    <3>3. /\ calendar' = calendar /\ embargo' = embargo /\ block' = block + 1
          /\ stage' = "fold" => block + 1 # Splits
          /\ learnt' = WithBlock(learnt, rows)
      BY <3>1 DEF Say, data
    <3>4. ASSUME NEW t \in DOMAIN learnt', NEW u \in learnt'[t]
          PROVE  u + HoldSessions < t \/ t + HoldSessions < u
      <4>1. CASE t \in DOMAIN learnt
        BY <4>1, <3>3, <3>4 DEF WithBlock, RotationInv, RotationHonest
      <4>2. CASE t \notin DOMAIN learnt
        <5>1. t \in BlockSessions(block) /\ u \in TrainSessions(block)
          BY <4>2, <3>1, <3>3, <3>4 DEF WithBlock
        <5> QED BY <5>1, <3>2, TrainedApart DEF RotationInv
      <4> QED BY <4>1, <4>2
    <3>5. RotationHonest'
      BY <3>4 DEF RotationHonest
    <3> QED BY <3>2, <3>3, <3>5 DEF RotationInv
  <2>6. CASE UNCHANGED rotationVars
    BY <2>1, <2>6 DEF rotationVars
  <2> QED BY <2>2, <2>3, <2>4, <2>5, <2>6 DEF RotationNext
<1>3. RotationInv => RotationHonest
  BY DEF RotationInv
<1> QED BY <1>1, <1>2, <1>3, PTL DEF RotationSpec

------------------------------------------------------------------------------
(* The rotation's books add up.                                            *)

\* Every fund has a positive price on every session.
Priced ==
    /\ calendar \in Calendars
    /\ \A s \in Range(Funds) : prices[s] \in Seq(Nat \ {0}) /\ Len(prices[s]) = Len(calendar)

\* There are finitely many legs.
LEMMA FewLegs == /\ IsFiniteSet(Range(Funds)) /\ IsFiniteSet(Legs)
                 /\ Range(Funds) \subseteq Legs /\ Cash \in Legs
<1>1. IsFiniteSet(Range(Funds))
  <2>1. IsFiniteSet(DOMAIN Funds)
    <3>1. Funds \in Seq(Range(Funds))
      BY RotationAssumption
    <3>2. DOMAIN Funds = 1 .. Len(Funds) /\ Len(Funds) \in Nat
      BY <3>1
    <3> QED BY <3>2, FS_Interval
  <2>2. Funds \in Surjection(DOMAIN Funds, Range(Funds))
    <3>1. Funds = [i \in DOMAIN Funds |-> Funds[i]]
      BY RotationAssumption
    <3> QED BY <3>1 DEF Surjection, Range
  <2> QED BY <2>1, <2>2, FS_Surjection
<1> QED BY <1>1, FS_AddElement DEF Legs

\* What a leg is worth on a session.
LEMMA PriceFacts ==
    ASSUME Priced
    PROVE  \A s \in Legs : \A t \in Sessions : Price(s, t) \in Nat \ {0}
<1> SUFFICES ASSUME NEW s \in Legs, NEW t \in Sessions PROVE Price(s, t) \in Nat \ {0}
  OBVIOUS
<1>1. CASE s = Cash
  BY <1>1 DEF Price
<1>2. CASE s # Cash
  <2>1. s \in Range(Funds)
    BY <1>2 DEF Legs
  <2>2. prices[s] \in Seq(Nat \ {0}) /\ t \in 1 .. Len(prices[s])
    BY <2>1, CalendarFacts DEF Priced
  <2> QED BY <2>2, <1>2 DEF Price
<1> QED BY <1>1, <1>2

\* Quotients by positive numbers.
LEMMA Quotients ==
    \A x \in Int : \A z \in Nat \ {0} :
        x \div z \in Int /\ z * (x \div z) <= x /\ x <= z * (x \div z) + z
OBVIOUS

\* The last returns of a leg, their spread, and what it is weighed by.
LEMMA ReturnFacts ==
    ASSUME Priced, NEW s \in Legs, NEW t \in Sessions, t > VolSessions
    PROVE  \A k \in 1 .. VolSessions : Return(s, t - VolSessions + k) \in Int
<1> SUFFICES ASSUME NEW k \in 1 .. VolSessions
             PROVE  Return(s, t - VolSessions + k) \in Int
  OBVIOUS
<1> DEFINE u == t - VolSessions + k
<1>1. VolSessions \in Nat /\ t \in Int
  BY RotationAssumption, CalendarFacts DEF Priced
<1>2. u \in Sessions /\ u - 1 \in Sessions
  BY <1>1, CalendarFacts DEF Priced
<1>3. Price(s, u) \in Nat \ {0} /\ Price(s, u - 1) \in Nat \ {0}
  BY <1>2, PriceFacts
<1> HIDE DEF u
<1>4. 2 * (Price(s, u) - Price(s, u - 1)) \in Int
  BY <1>3
<1> QED BY <1>3, <1>4, Quotients DEF Return, u

\* A sum of integers.
LEMMA SumOfIntegers ==
    ASSUME NEW S, IsFiniteSet(S), NEW f, DOMAIN f = S, \A x \in S : f[x] \in Int
    PROVE  SumOf(f) \in Int
BY SumStep DEF SumOf, SumFunction

LEMMA SpreadIsInteger ==
    ASSUME NEW ret, DOMAIN ret = 1 .. VolSessions, \A k \in 1 .. VolSessions : ret[k] \in Int
    PROVE  Spread(ret) \in Int
<1>1. VolSessions \in Nat /\ IsFiniteSet(1 .. VolSessions)
  BY RotationAssumption, FS_Interval
<1>2. SumOf(ret) \in Int
  BY <1>1, SumOfIntegers
<1> DEFINE squares == [k \in DOMAIN ret |-> ret[k] * ret[k]]
<1>3. SumOf(squares) \in Int
  <2>1. DOMAIN squares = 1 .. VolSessions /\ \A k \in 1 .. VolSessions : squares[k] \in Int
    OBVIOUS
  <2> HIDE DEF squares
  <2> QED BY <1>1, <2>1, SumOfIntegers
<1>4. Spread(ret) = VolSessions * SumOf(squares) - SumOf(ret) * SumOf(ret)
  BY DEF Spread
<1> HIDE DEF squares
<1> QED BY <1>1, <1>2, <1>3, <1>4

LEMMA InverseVolIsNatural ==
    ASSUME Priced, NEW s \in Legs, NEW t \in Sessions, t > VolSessions
    PROVE  InverseVol(s, t) \in Nat
<1> DEFINE ret == [k \in 1 .. VolSessions |-> Return(s, t - VolSessions + k)]
<1>1. DOMAIN ret = 1 .. VolSessions /\ \A k \in 1 .. VolSessions : ret[k] \in Int
  BY ReturnFacts
<1>2. Vol(s, t) = Spread(ret)
  BY DEF Vol
<1> HIDE DEF ret
<1>3. Vol(s, t) \in Int
  BY <1>1, <1>2, SpreadIsInteger
<1>4. \A v \in Int : v > 1 => Whole \div v \in Nat
  BY DEF Whole
<1>5. Whole \div 1 \in Nat
  BY DEF Whole
<1> QED BY <1>3, <1>4, <1>5 DEF InverseVol

\* Weights are numbers.
LEMMA WeightsAreIntegers ==
    ASSUME Priced, NEW chosen \in SUBSET Range(Funds), NEW budget \in Int, NEW t \in Sessions,
           chosen # {} => t > VolSessions
    PROVE  Weights(chosen, budget, t) \in [Legs -> Int]
<1> DEFINE inv == [s \in chosen |-> InverseVol(s, t)]
           sum == SumOf(inv)
           weight == [s \in chosen |-> IF sum = 0 THEN 0
                                       ELSE (budget * InverseVol(s, t)) \div sum]
<1>1. IsFiniteSet(chosen)
  BY FewLegs, FS_Subset
<1>2. \A s \in chosen : InverseVol(s, t) \in Nat
  BY FewLegs, InverseVolIsNatural
<1>3. sum \in Nat
  <2>1. DOMAIN inv = chosen /\ \A s \in chosen : inv[s] \in Nat
    BY <1>2
  <2> HIDE DEF inv
  <2> QED BY <1>1, <2>1, SumOfNaturals DEF SumOf, SumFunction
<1>4. \A s \in chosen : weight[s] \in Int
  <2> HIDE DEF sum
  <2>1. ASSUME NEW s \in chosen PROVE weight[s] \in Int
    <3>1. budget * InverseVol(s, t) \in Int
      BY <1>2
    <3>2. CASE sum = 0
      BY <3>2
    <3>3. CASE sum # 0
      <4>1. (budget * InverseVol(s, t)) \div sum \in Int
        BY <1>3, <3>1, <3>3, Quotients
      <4> QED BY <3>3, <4>1
    <3> QED BY <3>2, <3>3
  <2> QED BY <2>1
<1>5. SumOf(weight) \in Int
  <2>1. DOMAIN weight = chosen
    OBVIOUS
  <2> HIDE DEF weight, sum
  <2> QED BY <1>1, <1>4, <2>1, SumOfIntegers
<1>6. Weights(chosen, budget, t) =
        [s \in Legs |-> IF s = Cash THEN Whole - SumOf(weight)
                        ELSE IF s \in chosen THEN weight[s] ELSE 0]
  BY DEF Weights
<1> HIDE DEF weight
<1>7. Whole - SumOf(weight) \in Int
  BY <1>5 DEF Whole
<1> QED BY <1>4, <1>6, <1>7

\* The schedules of both scripts give numbers.
LEMMA RotationWeightsAreIntegers ==
    ASSUME Priced, NEW t \in Sessions, t \in DOMAIN probs => t > VolSessions
    PROVE  RotationWeights(t) \in [Legs -> Int]
<1> DEFINE chosen == IF t \in DOMAIN probs THEN TopFunds(probs[t], Config.topK) ELSE {}
           budget == Whole - IF Config.gate /\ IsRiskOff(t) THEN RiskOffCash ELSE 0
<1>1. chosen \in SUBSET Range(Funds)
  <2>1. \A score, k : TopFunds(score, k) \subseteq Range(Funds)
    BY DEF TopFunds, Range
  <2> QED BY <2>1
<1>2. budget \in Int
  BY RotationAssumption DEF Whole
<1>3. chosen # {} => t > VolSessions
  OBVIOUS
<1>4. RotationWeights(t) = Weights(chosen, budget, t)
  BY DEF RotationWeights
<1> HIDE DEF chosen, budget
<1> QED BY <1>1, <1>2, <1>3, <1>4, WeightsAreIntegers

LEMMA ParityWeightsAreIntegers ==
    ASSUME Priced, NEW t \in Sessions, t > VolSessions
    PROVE  ParityWeights(t) \in [Legs -> Int]
<1> DEFINE raw == Weights(Range(Funds), Whole, t)
           Earned(k) == [s \in Range(Funds) |-> raw[s] * Return(s, t - VolSessions + k)]
           ret == [k \in 1 .. VolSessions |-> SumOf(Earned(k))]
           vol == Spread(ret)
           gross == IF vol <= TargetVol THEN Whole ELSE (Whole * TargetVol) \div vol
<1>1. raw \in [Legs -> Int]
  BY WeightsAreIntegers DEF Whole
<1>2. ASSUME NEW k \in 1 .. VolSessions PROVE ret[k] \in Int
  <2>1. \A s \in Range(Funds) : Return(s, t - VolSessions + k) \in Int /\ raw[s] \in Int
    <3> HIDE DEF raw
    <3> QED BY <1>1, FewLegs, ReturnFacts
  <2> HIDE DEF raw
  <2>2. DOMAIN Earned(k) = Range(Funds) /\ \A s \in Range(Funds) : Earned(k)[s] \in Int
    BY <2>1
  <2>3. ret[k] = SumOf(Earned(k))
    OBVIOUS
  <2> HIDE DEF Earned, ret
  <2> QED BY <2>2, <2>3, FewLegs, SumOfIntegers
<1>3. vol \in Int
  <2>1. DOMAIN ret = 1 .. VolSessions
    OBVIOUS
  <2> HIDE DEF ret
  <2> QED BY <1>2, <2>1, SpreadIsInteger
<1>4. ParityWeights(t) = Weights(Range(Funds), gross, t)
  BY DEF ParityWeights
<1> HIDE DEF vol
<1>5. gross \in Int
  <2>1. TargetVol \in Nat /\ Whole \in Int
    BY RotationAssumption DEF Whole
  <2>2. CASE vol <= TargetVol
    BY <2>1, <2>2
  <2>3. CASE ~ (vol <= TargetVol)
    <3>1. vol \in Nat \ {0} /\ Whole * TargetVol \in Int
      BY <1>3, <2>1, <2>3
    <3>2. (Whole * TargetVol) \div vol \in Int
      BY <3>1, Quotients
    <3> QED BY <2>3, <3>2
  <2> QED BY <2>2, <2>3
<1> HIDE DEF gross
<1> QED BY <1>4, <1>5, WeightsAreIntegers

\* Legs drift by the ratio of two prices.
LEMMA DriftedAreIntegers ==
    ASSUME Priced, NEW held \in [Legs -> Int], NEW t \in Sessions
    PROVE  Drifted(held, t) \in [Legs -> Int]
<1> SUFFICES ASSUME NEW s \in Legs, t # 1
             PROVE  (held[s] * Price(s, t)) \div Price(s, t - 1) \in Int
  BY DEF Drifted
<1>1. t - 1 \in Sessions
  BY CalendarFacts DEF Priced
<1>2. Price(s, t) \in Nat \ {0} /\ Price(s, t - 1) \in Nat \ {0}
  BY <1>1, PriceFacts
<1>3. held[s] * Price(s, t) \in Int
  BY <1>2
<1> QED BY <1>2, <1>3, Quotients

\* What trades cost is a number.
LEMMA CostIsInteger ==
    ASSUME NEW held \in [Legs -> Int], NEW target \in [Legs -> Int], NEW traded \in SUBSET Legs
    PROVE  RebalanceCost(held, target, traded) \in Int
<1> DEFINE Fee(s) == IF target[s] > held[s] THEN TradeCost(target[s] - held[s], "buy")
                                             ELSE TradeCost(held[s] - target[s], "sell")
           costs == [s \in traded |-> Fee(s)]
<1>1. ASSUME NEW value \in Int, NEW side \in {"buy", "sell"}
      PROVE  TradeCost(value, side) \in Int
  <2>1. SideRate[side] \in Int /\ FlatSell \in Int
    BY RotationAssumption
  <2>2. value * SideRate[side] \in Int
    BY <2>1
  <2>3. (value * SideRate[side]) \div Million \in Int
    <3>1. Million \in Nat \ {0}
      BY DEF Million
    <3> QED BY <2>2, <3>1, Quotients
  <2> QED BY <2>1, <2>3 DEF TradeCost
<1>2. \A s \in traded : costs[s] \in Int
  <2>1. ASSUME NEW s \in traded PROVE Fee(s) \in Int
    <3>1. target[s] - held[s] \in Int /\ held[s] - target[s] \in Int
      OBVIOUS
    <3> QED BY <3>1, <1>1
  <2> QED BY <2>1
<1>3. IsFiniteSet(traded) /\ DOMAIN costs = traded
  BY FewLegs, FS_Subset
<1>4. RebalanceCost(held, target, traded) = SumOf(costs)
  BY DEF RebalanceCost
<1> HIDE DEF costs
<1> QED BY <1>2, <1>3, <1>4, SumOfIntegers

\* No legs are worth nothing.
LEMMA NothingHeld == SumOf(NoLegs) = 0
<1>1. /\ DOMAIN NoLegs = Legs /\ {} \in SUBSET Legs
      /\ \A s \in Legs : NoLegs[s] \in Int
      /\ \A s \in Legs \ {} : NoLegs[s] = 0
  BY DEF NoLegs
<1>2. SumFunctionOnSet(NoLegs, Legs) = SumFunctionOnSet(NoLegs, {})
  BY <1>1, FewLegs, SumOfSome
<1>3. SumFunctionOnSet(NoLegs, {}) = 0
  BY SumOfNone
<1> QED BY <1>1, <1>2, <1>3 DEF SumOf, SumFunction

\* What a rebalance makes of the legs is what the costs left, up to a unit a leg.
LEMMA RebalancedAddsUp ==
    ASSUME NEW target \in [Legs -> Int], NEW left \in Int
    PROVE  /\ Rebalanced(target, left) \in [Legs -> Int]
           /\ SumOf(Rebalanced(target, left)) # 0 =>
                SumOf(Rebalanced(target, left)) \in left - Cardinality(Legs) .. left
<1> DEFINE T == SumOf(target)
           legs_ == Rebalanced(target, left)
           X == SumOf(legs_)
           n == Cardinality(Legs)
           z == IF T > 0 THEN T ELSE - T
           l == IF T > 0 THEN left ELSE - left
<1>1. T \in Int /\ T = SumFunctionOnSet(target, Legs)
  BY FewLegs, SumOfIntegers DEF SumOf, SumFunction
<1>2. n \in Nat /\ IsFiniteSet(Legs)
  BY FewLegs, FS_CardinalityType
<1>3. CASE T = 0
  <2>1. legs_ = target
    BY <1>3 DEF Rebalanced
  <2> QED BY <2>1, <1>3
<1>4. CASE T # 0
  <2>1. z \in Nat \ {0} /\ l \in Int
    BY <1>1, <1>4
  <2>2. ASSUME NEW s \in Legs PROVE legs_[s] = (target[s] * l) \div z
    <3>1. legs_[s] = Quotient(target[s] * left, T)
      BY <1>4 DEF Rebalanced
    <3>2. target[s] \in Int
      OBVIOUS
    <3>3. - (target[s] * left) = target[s] * (- left)
      BY <3>2
    <3> HIDE DEF T, legs_
    <3> QED BY <3>1, <3>3 DEF Quotient
  <2>3. DOMAIN legs_ = Legs /\ legs_ = [s \in Legs |-> legs_[s]]
    BY DEF Rebalanced
  <2>4. l * T = z * left
    <3> HIDE DEF T
    <3>1. CASE T > 0
      BY <3>1, <1>1
    <3>2. CASE ~ (T > 0)
      <4>1. (- left) * T = (- T) * left
        BY <1>1
      <4> QED BY <3>2, <4>1
    <3> QED BY <3>1, <3>2
  <2> HIDE DEF T, legs_, z, l, n
  <2>5. ASSUME NEW s \in Legs
        PROVE  /\ legs_[s] \in Int /\ target[s] \in Int
               /\ z * legs_[s] <= l * target[s] + 0 /\ l * target[s] <= z * legs_[s] + z
    <3>1. target[s] \in Int /\ target[s] * l \in Int /\ target[s] * l = l * target[s]
      BY <2>1
    <3>2. /\ legs_[s] \in Int /\ z * legs_[s] <= target[s] * l
          /\ target[s] * l <= z * legs_[s] + z
      BY <2>1, <2>2, <3>1, Quotients
    <3> QED BY <3>1, <3>2
  <2>6. X \in Int /\ X = SumFunctionOnSet(legs_, Legs)
    BY <1>2, <2>3, <2>5, SumOfIntegers DEF SumOf, SumFunction
  <2> HIDE DEF X
  <2>7. z * X <= l * T + 0 * n
    <3>1. \A m, k, c \in Int : (\A s \in Legs : m * legs_[s] <= k * target[s] + c) =>
             m * SumFunctionOnSet(legs_, Legs)
               <= k * SumFunctionOnSet(target, Legs) + c * Cardinality(Legs)
      <4>1. \A s \in Legs : legs_[s] \in Int /\ target[s] \in Int
        BY <2>5
      <4> QED BY <1>2, <4>1, SumBound
    <3>2. z \in Int /\ 0 \in Int /\ \A s \in Legs : z * legs_[s] <= l * target[s] + 0
      BY <2>1, <2>5
    <3> QED BY <2>1, <3>1, <3>2, <1>1, <2>6 DEF n
  <2>8. l * T <= z * X + z * n
    <3>1. \A m, k, c \in Int : (\A s \in Legs : m * target[s] <= k * legs_[s] + c) =>
             m * SumFunctionOnSet(target, Legs)
               <= k * SumFunctionOnSet(legs_, Legs) + c * Cardinality(Legs)
      <4>1. \A s \in Legs : target[s] \in Int /\ legs_[s] \in Int
        BY <2>5
      <4> QED BY <1>2, <4>1, SumBound
    <3>2. z \in Int /\ \A s \in Legs : l * target[s] <= z * legs_[s] + z
      BY <2>1, <2>5
    <3> QED BY <2>1, <3>1, <3>2, <1>1, <2>6 DEF n
  <2>9. X <= left
    <3>1. z * X <= z * left
      BY <2>1, <2>4, <2>7, <1>2
    <3> QED BY <2>1, <2>6, <3>1, Cancel
  <2>10. left <= X + n
    <3>1. z * left <= z * (X + n)
      <4>1. z * (X + n) = z * X + z * n
        BY <2>1, <2>6, <1>2
      <4> QED BY <4>1, <2>4, <2>8
    <3>2. X + n \in Int
      BY <2>6, <1>2
    <3> QED BY <2>1, <3>1, <3>2, Cancel
  <2>11. legs_ \in [Legs -> Int]
    BY <2>3, <2>5
  <2>12. X \in left - n .. left
    BY <2>6, <2>9, <2>10, <1>2
  <2> QED BY <2>11, <2>12 DEF legs_, X, n
<1> QED BY <1>3, <1>4

\* Prices and schedules are in order, a score is of an observation, and the books
\* add up.
MoneyInv ==
    /\ Priced
    /\ block \in Nat /\ (stage = "fold" => block < Splits)
    /\ DOMAIN probs \subseteq Observed
    /\ \A t \in DOMAIN schedule : schedule[t] \in [Legs -> Int]
    /\ session \in Nat /\ legs \in [Legs -> Int] /\ portfolio \in Int
    /\ BooksBalance

\* Steps that trade nothing.
LEMMA MoneyLeftAlone ==
    ASSUME MoneyInv, UNCHANGED <<data, probs, schedule, account>>,
           block' \in Nat, stage' = "fold" => block' < Splits
    PROVE  MoneyInv'
<1>1. UNCHANGED <<calendar, prices, session, legs, portfolio>>
  BY DEF data, account
<1>2. Priced' /\ Observed' = Observed /\ BooksBalance'
  BY <1>1 DEF MoneyInv, Priced, Observed, BooksBalance, SumOf
<1> QED BY <1>1, <1>2 DEF MoneyInv

\* A configuration begins with the capital and no legs.
LEMMA MoneyAtFirst ==
    ASSUME Priced', block' = 0, probs' = NoProbs, schedule' = NoProbs, session' = 0,
           legs' = NoLegs, portfolio' = Capital
    PROVE  MoneyInv'
<1>1. NoLegs \in [Legs -> Int] /\ SumOf(NoLegs) = 0
  BY NothingHeld DEF NoLegs
<1>2. BooksBalance'
  BY <1>1 DEF BooksBalance, SumOf
<1>3. Capital \in Int /\ 0 < Splits
  BY RotationAssumption
<1> QED BY <1>1, <1>2, <1>3 DEF MoneyInv, NoProbs

\* A session is accounted for.
LEMMA MoneyTraded ==
    ASSUME MoneyInv, UNCHANGED <<data, probs, schedule, block, stage>>,
           NEW t \in Nat, NEW held, NEW money, Account(t, held, money),
           held \in [Legs -> Int], money \in Int,
           SumOf(held) # 0 => SumOf(held) \in money - Cardinality(Legs) .. money
    PROVE  MoneyInv'
<1>1. UNCHANGED <<calendar, prices>> /\ session' = t /\ legs' = held /\ portfolio' = money
  BY DEF data, Account
<1>2. Priced' /\ Observed' = Observed
  BY <1>1 DEF MoneyInv, Priced, Observed
<1>3. BooksBalance'
  BY <1>1 DEF BooksBalance, SumOf
<1> QED BY <1>1, <1>2, <1>3 DEF MoneyInv

\* A sum is no more than a unit a leg away from itself.
LEMMA AddsUp ==
    ASSUME NEW held \in [Legs -> Int]
    PROVE  /\ SumOf(held) \in Int /\ Cardinality(Legs) \in Nat \ {0}
           /\ SumOf(held) \in SumOf(held) - Cardinality(Legs) .. SumOf(held)
<1>1. SumOf(held) \in Int
  BY FewLegs, SumOfIntegers
<1>2. Cardinality(Legs) \in Nat \ {0}
  BY FewLegs, FS_CardinalityType, FS_EmptySet
<1> QED BY <1>1, <1>2

\* A day of the benchmark.
LEMMA BenchmarkBalances ==
    ASSUME MoneyInv, BenchmarkDay
    PROVE  MoneyInv'
<1> DEFINE t == session + 1
           held == Drifted(legs, t)
           money == IF t = 1 THEN Capital ELSE SumOf(held)
           target == [s \in Legs |-> money \div Cardinality(Legs)]
           left == money - RebalanceCost(held, target, Legs)
<1>1. /\ t \in Sessions /\ UNCHANGED <<data, probs, schedule, block, stage>>
      /\ IF t = 1 \/ IsMonthEnd(t) THEN Account(t, Rebalanced(target, left), left)
                                   ELSE Account(t, held, money)
  BY DEF BenchmarkDay, forecast
<1>2. t \in Nat
  BY DEF MoneyInv
<1>3. held \in [Legs -> Int]
  BY <1>1, DriftedAreIntegers DEF MoneyInv
<1> HIDE DEF t, held
<1>4. money \in Int
  BY <1>3, AddsUp, RotationAssumption
<1>5. target \in [Legs -> Int]
  <2>1. money \div Cardinality(Legs) \in Int
    BY <1>3, <1>4, AddsUp, Quotients
  <2> QED BY <2>1
<1>6. left \in Int
  <2> HIDE DEF target, money
  <2>1. RebalanceCost(held, target, Legs) \in Int
    BY <1>3, <1>5, CostIsInteger
  <2> QED BY <2>1, <1>4
<1>7. CASE t = 1 \/ IsMonthEnd(t)
  <2> HIDE DEF target, left
  <2>1. Account(t, Rebalanced(target, left), left)
    BY <1>1, <1>7
  <2>2. /\ Rebalanced(target, left) \in [Legs -> Int]
        /\ SumOf(Rebalanced(target, left)) # 0 =>
             SumOf(Rebalanced(target, left)) \in left - Cardinality(Legs) .. left
    BY <1>5, <1>6, RebalancedAddsUp
  <2> QED BY <1>1, <1>2, <1>6, <2>1, <2>2, MoneyTraded
<1>8. CASE ~ (t = 1 \/ IsMonthEnd(t))
  <2>1. Account(t, held, money) /\ money = SumOf(held)
    BY <1>1, <1>8
  <2>2. SumOf(held) \in money - Cardinality(Legs) .. money
    BY <1>3, <2>1, AddsUp
  <2> HIDE DEF money
  <2> QED BY <1>1, <1>2, <1>3, <1>4, <2>1, <2>2, MoneyTraded
<1> QED BY <1>7, <1>8

\* A day of a configuration.
LEMMA TradeBalances ==
    ASSUME MoneyInv, TradeDay
    PROVE  MoneyInv'
<1> DEFINE t == session + 1
           held == Drifted(legs, t)
           sum == SumOf(held)
           money == IF sum = 0 THEN portfolio ELSE sum
           target == [s \in Legs |-> (schedule[t][s] * money) \div Whole]
           traded == {s \in Legs : target[s] # held[s]}
           left == money - RebalanceCost(held, target, traded)
<1>1. /\ t \in Sessions /\ UNCHANGED <<data, probs, schedule, block, stage>>
      /\ IF t \in DOMAIN schedule THEN Account(t, Rebalanced(target, left), left)
                                  ELSE Account(t, held, money)
  BY DEF TradeDay, forecast
<1>2. t \in Nat
  BY DEF MoneyInv
<1>3. held \in [Legs -> Int]
  BY <1>1, DriftedAreIntegers DEF MoneyInv
<1> HIDE DEF t, held
<1>4. money \in Int
  BY <1>3, AddsUp DEF MoneyInv
<1>5. CASE t \in DOMAIN schedule
  <2> HIDE DEF money
  <2>1. target \in [Legs -> Int]
    <3>1. ASSUME NEW s \in Legs PROVE (schedule[t][s] * money) \div Whole \in Int
      <4>1. schedule[t][s] \in Int
        BY <1>5 DEF MoneyInv
      <4>2. schedule[t][s] * money \in Int /\ Whole \in Nat \ {0}
        BY <4>1, <1>4 DEF Whole
      <4> QED BY <4>2, Quotients
    <3> QED BY <3>1
  <2> HIDE DEF target
  <2>2. left \in Int
    <3>1. traded \in SUBSET Legs
      OBVIOUS
    <3> HIDE DEF traded
    <3>2. RebalanceCost(held, target, traded) \in Int
      BY <1>3, <2>1, <3>1, CostIsInteger
    <3> QED BY <3>2, <1>4
  <2> HIDE DEF left
  <2>3. Account(t, Rebalanced(target, left), left)
    BY <1>1, <1>5
  <2>4. /\ Rebalanced(target, left) \in [Legs -> Int]
        /\ SumOf(Rebalanced(target, left)) # 0 =>
             SumOf(Rebalanced(target, left)) \in left - Cardinality(Legs) .. left
    BY <2>1, <2>2, RebalancedAddsUp
  <2> QED BY <1>1, <1>2, <2>2, <2>3, <2>4, MoneyTraded
<1>6. CASE t \notin DOMAIN schedule
  <2>1. Account(t, held, money)
    BY <1>1, <1>6
  <2>2. SumOf(held) # 0 => SumOf(held) \in money - Cardinality(Legs) .. money
    BY <1>3, AddsUp
  <2> HIDE DEF money
  <2> QED BY <1>1, <1>2, <1>3, <1>4, <2>1, <2>2, MoneyTraded
<1> QED BY <1>5, <1>6

\* The weights of a schedule are numbers.
LEMMA ScheduleBalances ==
    ASSUME MoneyInv, MakeSchedule
    PROVE  MoneyInv'
<1>1. /\ UNCHANGED <<data, block, probs, account>> /\ stage' = "trade"
      /\ schedule' = IF Config.kind = "rotation"
                       THEN [t \in MonthEndSessions |-> RotationWeights(t)]
                       ELSE [t \in {t \in MonthEndSessions : t > VolSessions} |-> ParityWeights(t)]
  BY DEF MakeSchedule
<1>2. Priced /\ calendar \in Calendars /\ MonthEndSessions \subseteq Sessions
  BY DEF MoneyInv, Priced, MonthEndSessions
<1>3. \A t \in DOMAIN probs : t > VolSessions
  <2>1. DOMAIN probs \subseteq Observed
    BY DEF MoneyInv
  <2>2. VolSessions \in Nat /\ MomentumSpan \in Nat
    BY RotationAssumption
  <2>3. Len(calendar) \in Int /\ HoldSessions \in Int
    BY <1>2, CalendarFacts
  <2> QED BY <2>1, <2>2, <2>3 DEF Observed, First
<1>4. ASSUME NEW t \in DOMAIN schedule' PROVE schedule'[t] \in [Legs -> Int]
  <2>1. CASE Config.kind = "rotation"
    <3>1. t \in Sessions /\ schedule'[t] = RotationWeights(t)
      BY <1>1, <1>2, <1>4, <2>1
    <3> QED BY <3>1, <1>2, <1>3, RotationWeightsAreIntegers
  <2>2. CASE Config.kind # "rotation"
    <3>1. t \in Sessions /\ t > VolSessions /\ schedule'[t] = ParityWeights(t)
      BY <1>1, <1>2, <1>4, <2>2
    <3> QED BY <3>1, <1>2, ParityWeightsAreIntegers
  <2> QED BY <2>1, <2>2
<1>5. UNCHANGED <<calendar, prices, session, legs, portfolio>>
  BY <1>1 DEF data, account
<1>6. Priced' /\ Observed' = Observed /\ BooksBalance'
  BY <1>5 DEF MoneyInv, Priced, Observed, BooksBalance, SumOf
<1> QED BY <1>1, <1>4, <1>5, <1>6 DEF MoneyInv

\* The legs are worth what the portfolio says, up to a unit a leg, after every
\* drift, charge and rebalance: backtest_weights and equal_weight_rebalanced, for
\* every panel of prices, schedule and rate, and for books in debt too.
THEOREM BooksAddUp == RotationSpec => []BooksBalance
<1>1. RotationInit => MoneyInv
  <2> SUFFICES ASSUME RotationInit PROVE MoneyInv
    OBVIOUS
  <2>1. Priced
    BY RotationAssumption DEF RotationInit, Priced
  <2>2. NoLegs \in [Legs -> Int] /\ SumOf(NoLegs) = 0
    BY NothingHeld DEF NoLegs
  <2>3. BooksBalance
    BY <2>2 DEF RotationInit, BooksBalance
  <2>4. Capital \in Int
    BY RotationAssumption
  <2> QED BY <2>1, <2>2, <2>3, <2>4 DEF RotationInit, MoneyInv, NoProbs
<1>2. MoneyInv /\ [RotationNext]_rotationVars => MoneyInv'
  <2> SUFFICES ASSUME MoneyInv, [RotationNext]_rotationVars PROVE MoneyInv'
    OBVIOUS
  <2>1. CASE BenchmarkDay
    BY <2>1, BenchmarkBalances
  <2>2. ASSUME Begin, UNCHANGED data PROVE MoneyInv'
    <3>1. Priced'
      BY <2>2 DEF MoneyInv, Priced, data
    <3> QED BY <2>2, <3>1, MoneyAtFirst DEF Begin
  <2>3. CASE BenchmarkDone
    BY <2>2, <2>3 DEF BenchmarkDone
  <2>4. CASE TrainFold
    <3>1. PICK score, rows : Say(score, rows)
      <4> DEFINE trained == TrainSessions(block)
                 classes == {Outperforms(s, t) : s \in Range(Funds), t \in trained}
                 none == [s \in Range(Funds) |-> 0]
      <4>1. IF Cardinality(classes) < 2 THEN Say(none, {})
            ELSE \E score \in Scores : Say(score, trained)
        BY <2>4 DEF TrainFold
      <4> HIDE DEF classes, none, trained
      <4> QED BY <4>1
    <3>2. stage = "fold" /\ block \in 0 .. Splits - 1 /\ Splits \in Nat
      BY <2>4, RotationAssumption DEF TrainFold, MoneyInv
    <3>3. /\ UNCHANGED <<data, schedule, account>> /\ block' = block + 1
          /\ stage' = "fold" => block + 1 # Splits
          /\ probs' = WithBlock(probs, score)
      BY <3>1 DEF Say
    <3>4. UNCHANGED <<calendar, prices, session, legs, portfolio>>
      BY <3>3 DEF data, account
    <3>5. Priced' /\ Observed' = Observed /\ BooksBalance'
      BY <3>4 DEF MoneyInv, Priced, Observed, BooksBalance, SumOf
    <3>6. DOMAIN probs' \subseteq Observed
      <4>1. BlockSessions(block) \subseteq Observed
        BY <3>2, BlockObserved DEF MoneyInv, Priced
      <4> QED BY <4>1, <3>3 DEF WithBlock, MoneyInv
    <3> QED BY <3>2, <3>3, <3>4, <3>5, <3>6 DEF MoneyInv
  <2>5. CASE MakeSchedule
    BY <2>5, ScheduleBalances
  <2>6. CASE TradeDay
    BY <2>6, TradeBalances
  <2>7. CASE NextConfig
    <3>1. UNCHANGED data
      BY <2>7 DEF NextConfig
    <3>2. CASE Begin
      BY <3>1, <3>2, <2>2
    <3>3. CASE ~ Begin
      <4>1. stage' = "judge" /\ UNCHANGED <<forecast, account>>
        BY <2>7, <3>3 DEF NextConfig
      <4>2. block' = block /\ UNCHANGED <<probs, schedule>> /\ block \in Nat
        BY <4>1 DEF forecast, MoneyInv
      <4> QED BY <3>1, <4>1, <4>2, MoneyLeftAlone
    <3> QED BY <3>2, <3>3
  <2>8. CASE FoldsRaise \/ JudgeGate
    <3>1. stage' # "fold" /\ UNCHANGED <<data, forecast, account>>
      BY <2>8 DEF FoldsRaise, JudgeGate
    <3>2. block' = block /\ UNCHANGED <<probs, schedule>> /\ block \in Nat
      BY <3>1 DEF forecast, MoneyInv
    <3> QED BY <3>1, <3>2, MoneyLeftAlone
  <2>9. CASE UNCHANGED rotationVars
    <3>1. UNCHANGED <<data, probs, schedule, account, block, stage>>
      BY <2>9 DEF rotationVars, data, account
    <3>2. block \in Nat /\ (stage = "fold" => block < Splits)
      BY DEF MoneyInv
    <3> QED BY <3>1, <3>2, MoneyLeftAlone
  <2> QED BY <2>1, <2>3, <2>4, <2>5, <2>6, <2>7, <2>8, <2>9 DEF RotationNext
<1>3. MoneyInv => BooksBalance
  BY DEF MoneyInv
<1> QED BY <1>1, <1>2, <1>3, PTL DEF RotationSpec
===============================================================================
