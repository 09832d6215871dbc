----------------------------- MODULE PurgedSplits -----------------------------
(***************************************************************************)
(* Purged, embargoed cross-validation (quant/research/validation/splits.py *)
(* and cpcv.py).  The timeline of labelled observations is cut into groups *)
(* of neighbours; every choice of TestGroups of them is the test set of    *)
(* one split, its training set is purged against it, and the out-of-sample *)
(* results of all the splits are stitched into full-timeline paths.        *)
(* PurgedKFold is the case TestGroups = 1, with one path.                  *)
(*                                                                         *)
(* An observation is a position; its label window is [starts[i], ends[i]]. *)
(* What a backtest returns for a test observation is abstracted to the     *)
(* split it came from.                                                     *)
(***************************************************************************)
EXTENDS Integers, FiniteSets

CONSTANTS NumObs,      \* n, observations
          NumGroups,   \* n_groups, or n_splits of PurgedKFold
          TestGroups,  \* n_test_groups; 1 for PurgedKFold
          Embargo,     \* embargo_size(n, embargo_pct)
          MaxTime,     \* bound: instants are 0 .. MaxTime
          MaxHorizon,  \* bound: a label resolves at most this much later
          NaN          \* a path position no split produced

\* The constructors' checks, and n >= n_splits; embargo_pct is below 1.
ASSUME SplitAssumption ==
    /\ NumObs \in Nat /\ NumGroups \in Nat /\ TestGroups \in Nat
    /\ 2 <= NumGroups /\ NumGroups <= NumObs
    /\ 1 <= TestGroups /\ TestGroups < NumGroups
    /\ Embargo \in 0 .. NumObs - 1
    /\ MaxTime \in Nat /\ MaxHorizon \in Nat

Pos    == 0 .. NumObs - 1
Groups == 0 .. NumGroups - 1
Times  == 0 .. MaxTime

\* itertools.combinations(range(N), k), and its order.
Combos == {c \in SUBSET Groups : Cardinality(c) = TestGroups}
Precedes(c, d) == \E g \in c \ d : \A h \in Groups : h < g => (h \in c <=> h \in d)

\* np.array_split: the first n % N groups have one observation more.
FirstOf(g) == g * (NumObs \div NumGroups)
                + IF g < NumObs % NumGroups THEN g ELSE NumObs % NumGroups
Group(g)   == FirstOf(g) .. FirstOf(g + 1) - 1
TestOf(c)  == {i \in Pos : \E g \in c : i \in Group(g)}

NumPaths == Cardinality({c \in SUBSET (Groups \ {0}) :
                            Cardinality(c) = TestGroups - 1})
Paths    == 0 .. NumPaths - 1

VARIABLES starts, ends,  \* label_times: its index t0 and its values t1
          done,          \* the splits made so far
          train,         \* train[c]: the training positions of split c
          path           \* path[p][i]: the split whose result path p has at i

input == <<starts, ends>>
vars  == <<starts, ends, done, train, path>>

Overlap(i, j) == starts[i] <= ends[j] /\ starts[j] <= ends[i]

------------------------------------------------------------------------------
(* purged_train_mask.                                                      *)

\* _contiguous_runs: the maximal intervals of test positions.
IsRun(test, a, b) == /\ a \in Pos /\ b \in Pos /\ a <= b
                     /\ a .. b \subseteq test
                     /\ a - 1 \notin test /\ b + 1 \notin test

\* ends[a : b + 1].max()
IsLastEnd(t, a, b) == /\ \E k \in a .. b : t = ends[k]
                      /\ \A k \in a .. b : ends[k] <= t

\* np.searchsorted(starts, t, side="right")
IsResume(p, t) == /\ p \in 0 .. NumObs
                  /\ \A j \in 0 .. p - 1 : starts[j] <= t
                  /\ \A j \in p .. NumObs - 1 : starts[j] > t

\* A slip the runs must notice: a label that ends as the test begins is kept.
BeforeOrAt(i, a) == ends[i] <= starts[a]

Before(i, a) == ends[i] < starts[a]

\* A slip the runs must notice: training resumes one observation too late.
AfterBeyond(i, a, b) == \E t \in Times, p \in 0 .. NumObs :
                           IsLastEnd(t, a, b) /\ IsResume(p, t) /\ i > p + Embargo

After(i, a, b) == \E t \in Times, p \in 0 .. NumObs :
                     IsLastEnd(t, a, b) /\ IsResume(p, t) /\ i >= p + Embargo

PurgedTrain(test) ==
    {i \in Pos \ test : \A a, b \in Pos :
        IsRun(test, a, b) => Before(i, a) \/ After(i, a, b)}

------------------------------------------------------------------------------
(* The scheme.                                                             *)

\* _validate_label_times: sorted, unique, and no label before its event.
ValidLabels ==
    /\ starts \in [Pos -> Times] /\ ends \in [Pos -> Times]
    /\ \A i, j \in Pos : i < j => starts[i] < starts[j]
    /\ \A i \in Pos : starts[i] <= ends[i]

Unstitched == [i \in Pos |-> NaN]

Init ==
    /\ starts \in [Pos -> Times]
    /\ \A i, j \in Pos : i < j => starts[i] < starts[j]
    /\ ends \in [Pos -> Times]
    /\ \A i \in Pos : ends[i] \in starts[i] .. starts[i] + MaxHorizon
    /\ done = {}
    /\ train = [c \in Combos |-> {}]
    /\ path = [p \in Paths |-> Unstitched]

\* One iteration of split(): the next combination in order.
Split(c) ==
    /\ c \in Combos \ done
    /\ \A d \in Combos \ done : d = c \/ Precedes(c, d)
    /\ train' = [train EXCEPT ![c] = PurgedTrain(TestOf(c))]
    /\ done' = done \cup {c}
    /\ UNCHANGED <<input, path>>

\* A slip the runs must notice: the first split that tests the group, whatever
\* the path.
AssignedFirst(g, p) ==
    CHOOSE c \in Combos : g \in c /\ \A d \in Combos : g \in d => ~ Precedes(d, c)

\* _path_assignment: assignment[g] lists the splits that test g, in order.
Assigned(g, p) ==
    CHOOSE c \in Combos :
        g \in c /\ Cardinality({d \in Combos : g \in d /\ Precedes(d, c)}) = p

\* reconstruct_paths: for every group, the results of the split assigned to
\* path p; a position that split did not test would stay NaN (reindex).
Stitch(p) ==
    /\ done = Combos
    /\ path[p] = Unstitched
    /\ \A q \in Paths : q < p => path[q] # Unstitched
    /\ path' = [path EXCEPT ![p] =
          [i \in Pos |->
              LET g == CHOOSE h \in Groups : i \in Group(h)
                  c == Assigned(g, p)
              IN  IF i \in TestOf(c) THEN c ELSE NaN]]
    /\ UNCHANGED <<input, done, train>>

Stitched(p) == path[p] # Unstitched
Finished    == \A p \in Paths : Stitched(p)

Next == \/ \E c \in Combos : Split(c)
        \/ \E p \in Paths : Stitch(p)

Spec == Init /\ [][Next]_vars

------------------------------------------------------------------------------
(* Properties.                                                             *)

TypeOK ==
    /\ ValidLabels
    /\ done \subseteq Combos
    /\ train \in [Combos -> SUBSET Pos]
    /\ path \in [Paths -> [Pos -> Combos \cup {NaN}]]

\* "After purging + embargo, no training window overlaps the test set's span":
\* no training label of any split shares an instant with a test label of it,
\* wherever its test groups lie.
NoLeak ==
    \A c \in done : \A i \in train[c], j \in TestOf(c) :
        i # j /\ ~ Overlap(i, j)

\* The embargo: training resumes only Embargo observations after the first one
\* that starts past the test labels, so even the observation Embargo earlier
\* lies clear of every test label that i follows.
Embargoed ==
    \A c \in done : \A i \in train[c], j \in TestOf(c) :
        starts[i] > ends[j] => /\ i - Embargo \in Pos
                               /\ starts[i - Embargo] > ends[j]

\* The purge drops nothing else: an observation missing from the training set
\* is a test observation, reaches into the span of a test run (taken from its
\* first event to its last label), or is one of the Embargo observations after.
PurgeIsExact ==
    \A c \in done : \A i \in (Pos \ TestOf(c)) \ train[c] :
        \E a, b \in TestOf(c) :
            /\ a <= b /\ a .. b \subseteq TestOf(c)
            /\ \/ starts[a] <= ends[i] /\ \E k \in a .. b : starts[i] <= ends[k]
               \/ \E k \in a .. b :
                     i > k /\ (i < Embargo \/ starts[i - Embargo] <= ends[k])

\* A path tiles the whole timeline once, out of sample everywhere: each of its
\* results comes from a finished split that tested that observation and was
\* trained on nothing that overlaps it.
PathsOutOfSample ==
    \A p \in Paths : Stitched(p) => \A i \in Pos :
        /\ path[p][i] \in done
        /\ i \in TestOf(path[p][i])
        /\ \A j \in train[path[p][i]] : ~ Overlap(i, j)

\* The paths share nothing: each test result of each split is in exactly one.
ResultsUsedOnce ==
    Finished => \A c \in Combos : \A i \in TestOf(c) :
        \E p \in Paths : \A q \in Paths : path[q][i] = c <=> q = p

\* Both: the paths are a partition of the out-of-sample results.
PathsPartition == PathsOutOfSample /\ ResultsUsedOnce
==============================================================================
