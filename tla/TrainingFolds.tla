----------------------------- MODULE TrainingFolds -----------------------------
(***************************************************************************)
(* Training and judging a model on purged folds (quant/research/models):   *)
(* the baseline and the ensemble trainer and the hyper-parameter search    *)
(* over the blocks of PurgedKFold, and the evaluation of the whole stack   *)
(* (members, combiner, calibrator, regime gate) under combinatorial        *)
(* purged cross-validation, which is the specification this one extends.   *)
(*                                                                         *)
(* A table holds what is known of each observation.  How a member learns   *)
(* is external; here it learns the weighted share of positive labels among *)
(* the training rows that look alike to it, so that every training row     *)
(* matters to what it says.                                                *)
(***************************************************************************)
EXTENDS PurgedSplits, Scoring

CONSTANTS
    Windows,       \* bound: the label times tried, pairs of starts and ends
    Tables,        \* [label, weight, look, ret, regime] of the rows
    Members,       \* of the ensemble; the baseline is the first
    Grids,         \* of the search, in order: a prior added to both classes
    Cost,          \* of a round trip, in units of a return
    TrackerFails   \* TRUE: log_run may raise

ASSUME FoldsAssumption ==
    /\ 1 \in Members /\ IsFiniteSet(Members)
    /\ \A t \in Tables :
         /\ t.label \in [Pos -> {0, 1}] /\ HasBothClasses(t.label, Pos)
         /\ t.weight \in [Pos -> Nat \ {0}]
         /\ \A m \in Members : m \in DOMAIN t.look
    /\ Grids \subseteq Seq(Int)

VARIABLES table, job,
          grid,     \* the combinations of the search, in order
          fold,     \* the block whose turn it is
          oof,      \* member -> row -> its out-of-fold score
          scores,   \* of the folds that could be scored
          trials,   \* finished trials of the search
          model,    \* the calibrator a training ends with
          returns,  \* split -> row -> out-of-sample return
          tracker,  \* runs logged
          outcome   \* "running", "done", "raised"

study == <<table, job, grid, fold, oof, scores, trials, model, returns, tracker, outcome>>

------------------------------------------------------------------------------
(* Fits.                                                                   *)

\* Estimator.fit and predict_proba of a member trained on rows, for row i.
Predict(t, m, smoothing, rows, i) ==
    LET alike == {j \in rows : t.look[m][j] = t.look[m][i]}
        basis == IF alike = {} THEN rows ELSE alike
        positive == SumOver(LAMBDA j : t.weight[j] * t.label[j], basis)
        total == SumOver(LAMBDA j : t.weight[j], basis)
    IN  (One * (positive + smoothing)) \div (total + 2 * smoothing)

MemberScores(t, rows) ==
    [m \in Members |-> [i \in Pos |-> Predict(t, m, 0, rows, i)]]

Combined(reference, rows, scored) ==
    [i \in Pos |-> Combine(reference, rows, [m \in Members |-> scored[m][i]])]

\* probability_to_position, and the return of a position net of its cost.
Position(p) == 2 * p - One
Net(t, position, i) ==
    position * t.ret[i] - Cost * (IF position < 0 THEN - position ELSE position)

\* select_regime_multipliers: a regime is kept when it paid in training.
Multiplier(t, rows, net, regime) ==
    LET mask == {j \in rows : t.regime[j] = regime}
    IN  IF mask # {} /\ SumOver(LAMBDA j : net[j], mask) > 0 THEN 1 ELSE 0

\* Slips the runs must notice: the gate learns from all rows; a fold trains on
\* whatever it does not test.
GateAll(rows) == Pos
FoldTrainUnpurged(g) == Pos \ Group(g)

\* The rows whose returns choose the regimes.
GateRows(rows) == rows

\* The training rows of a block of PurgedKFold.
FoldTrain(g) == PurgedTrain(Group(g))

\* backtest_fn: build_ensemble on the training rows, the gate chosen by what
\* the positions of the training rows returned, and the gated positions.
GatedPosition(t, rows) ==
    LET scored == MemberScores(t, rows)
        combined == Combined(scored, rows, scored)
        knots == FitIsotonic(combined, t.label, t.weight, rows)
        position == [i \in Pos |-> Position(Calibrate(knots, combined[i]))]
        net == [i \in Pos |-> Net(t, position[i], i)]
        gate == [r \in {t.regime[i] : i \in Pos} |->
                    Multiplier(t, GateRows(rows), net, r)]
    IN  [i \in Pos |-> position[i] * gate[t.regime[i]]]

------------------------------------------------------------------------------
(* Jobs.                                                                   *)

Unscored == [m \in Members |-> [i \in Pos |-> NaN]]

StudyInit ==
    /\ \E w \in Windows : starts = w[1] /\ ends = w[2]
    /\ Init
    /\ table \in Tables
    /\ job \in {"baseline", "ensemble", "search", "cpcv"}
    /\ grid \in IF job = "search" THEN Grids ELSE {<< >>}
    /\ fold = 0 /\ oof = Unscored /\ scores = << >> /\ trials = << >>
    /\ model = NaN /\ returns = [c \in Combos |-> Unstitched]
    /\ tracker = << >> /\ outcome = "running"

Running(j) == job = j /\ outcome = "running"

Raise ==
    /\ outcome' = "raised"
    /\ UNCHANGED <<vars, table, job, grid, fold, oof, scores, trials, model, returns, tracker>>

CanTrain(rows) == HasBothClasses(table.label, rows)

\* EnsembleTrainer._run_fold
EnsembleFold(g) ==
    LET rows == FoldTrain(g)
    IN  /\ Running("ensemble") /\ g = fold
        /\ CanTrain(rows)
        /\ oof' = [m \in Members |-> [i \in Pos |->
                      IF i \in Group(g) THEN Predict(table, m, 0, rows, i)
                      ELSE oof[m][i]]]
        /\ fold' = fold + 1
        /\ UNCHANGED <<vars, table, job, grid, scores, trials, model, returns, tracker, outcome>>

\* BaselineTrainer._run_fold: a block of one class is predicted, not scored.
BaselineFold(g) ==
    LET rows == FoldTrain(g)
        score == [i \in Pos |-> Predict(table, 1, 0, rows, i)]
    IN  /\ Running("baseline") /\ g = fold
        /\ CanTrain(rows)
        /\ oof' = [oof EXCEPT ![1] = [i \in Pos |->
                      IF i \in Group(g) THEN score[i] ELSE @[i]]]
        /\ scores' = IF HasBothClasses(table.label, Group(g))
                       THEN Append(scores, RocAuc(table.label, score, Group(g)))
                       ELSE scores
        /\ fold' = fold + 1
        /\ UNCHANGED <<vars, table, job, grid, trials, model, returns, tracker, outcome>>

\* A purged training fold has a single class.
FoldRaises(g) ==
    /\ Running("baseline") \/ Running("ensemble")
    /\ g = fold /\ ~ CanTrain(FoldTrain(g))
    /\ Raise

Mean(s) == IF s = << >> THEN NaN
           ELSE SumOver(LAMBDA k : s[k], DOMAIN s) \div Len(s)

\* What the calibrator is fitted to: the combined out-of-fold scores.
RawScore == IF job = "baseline" THEN oof[1] ELSE Combined(oof, Pos, oof)

\* The end of train(): calibrate on the pooled out-of-fold scores, fit on all
\* rows, log one run.
Finish ==
    /\ Running("baseline") \/ Running("ensemble")
    /\ fold = NumGroups
    /\ model' = FitIsotonic(RawScore, table.label, table.weight, Pos)
    /\ tracker' = Append(tracker, [stage |-> job, smoothing |-> 0,
                                   score |-> Mean(scores), folds |-> Len(scores),
                                   auc |-> RocAuc(table.label, RawScore, Pos)])
    /\ outcome' = "done"
    /\ UNCHANGED <<vars, table, job, grid, fold, oof, scores, trials, returns>>

FinishRaises ==
    /\ TrackerFails
    /\ Running("baseline") \/ Running("ensemble")
    /\ fold = NumGroups
    /\ Raise

------------------------------------------------------------------------------
(* HyperparameterTuner.tune.                                               *)

Override == grid[Len(trials) + 1]

\* _config_for refuses the override, with the trials before it on the tracker.
OverrideRaises ==
    /\ Running("search") /\ Len(trials) < Len(grid)
    /\ Override < 0
    /\ Raise

\* _score_config: a degenerate fold is skipped, not scored.
ScoreFold(g) ==
    LET rows == FoldTrain(g)
        score == [i \in Pos |-> Predict(table, 1, Override, rows, i)]
        scorable == CanTrain(rows) /\ HasBothClasses(table.label, Group(g))
    IN  /\ Running("search") /\ Len(trials) < Len(grid)
        /\ Override >= 0 /\ g = fold
        /\ scores' = IF scorable
                       THEN Append(scores, RocAuc(table.label, score, Group(g)))
                       ELSE scores
        /\ fold' = fold + 1
        /\ UNCHANGED <<vars, table, job, grid, oof, trials, model, returns, tracker, outcome>>

\* Every combination is a trial and a run, whatever it scored.
LogTrial ==
    LET trial == [smoothing |-> Override, score |-> Mean(scores)]
    IN  /\ Running("search") /\ fold = NumGroups
        /\ trials' = Append(trials, trial)
        /\ tracker' = Append(tracker, [stage |-> job, smoothing |-> trial.smoothing,
                                       score |-> trial.score,
                                       folds |-> Len(scores), auc |-> NaN])
        /\ fold' = 0 /\ scores' = << >>
        /\ UNCHANGED <<vars, table, job, grid, oof, model, returns, outcome>>

LogTrialRaises ==
    /\ TrackerFails /\ Running("search") /\ fold = NumGroups
    /\ Raise

\* _best_trial: the first of the best among those that were scored.
IsBest(k) ==
    /\ trials[k].score # NaN
    /\ \A j \in DOMAIN trials : trials[j].score # NaN =>
          \/ trials[j].score < trials[k].score
          \/ trials[j].score = trials[k].score /\ k <= j

Choose ==
    /\ Running("search") /\ Len(trials) = Len(grid)
    /\ \E k \in DOMAIN trials : IsBest(k) /\ model' = trials[k]
    /\ outcome' = "done"
    /\ UNCHANGED <<vars, table, job, grid, fold, oof, scores, trials, returns, tracker>>

NothingScored ==
    /\ Running("search") /\ Len(trials) = Len(grid)
    /\ \A k \in DOMAIN trials : trials[k].score = NaN
    /\ Raise

------------------------------------------------------------------------------
(* evaluate_ensemble_under_cpcv.                                           *)

\* fit_isotonic needs two points, the mixture a row for each regime.
CanEvaluate(rows) ==
    Cardinality(rows) >= Max({2, Cardinality({table.regime[i] : i \in Pos})})

\* One split, and what the stack returns on its test rows.
Evaluate(c) ==
    /\ Running("cpcv")
    /\ Split(c)
    /\ CanEvaluate(train'[c])
    /\ LET position == GatedPosition(table, train'[c])
       IN  returns' = [returns EXCEPT ![c] = [i \in Pos |->
                          IF i \in TestOf(c) THEN Net(table, position[i], i) ELSE NaN]]
    /\ UNCHANGED <<table, job, grid, fold, oof, scores, trials, model, tracker, outcome>>

EvaluateRaises(c) ==
    /\ Running("cpcv") /\ c \in Combos \ done
    /\ \A d \in Combos \ done : d = c \/ Precedes(c, d)
    /\ ~ CanEvaluate(PurgedTrain(TestOf(c)))
    /\ Raise

StitchPath(p) ==
    /\ Running("cpcv")
    /\ Stitch(p)
    /\ outcome' = IF \A q \in Paths : path'[q] # Unstitched THEN "done" ELSE "running"
    /\ UNCHANGED <<table, job, grid, fold, oof, scores, trials, model, returns, tracker>>

StudyNext ==
    \/ \E g \in Groups : EnsembleFold(g) \/ BaselineFold(g) \/ FoldRaises(g)
                           \/ ScoreFold(g)
    \/ Finish \/ FinishRaises
    \/ OverrideRaises \/ LogTrial \/ LogTrialRaises \/ Choose \/ NothingScored
    \/ \E c \in Combos : Evaluate(c) \/ EvaluateRaises(c)
    \/ \E p \in Paths : StitchPath(p)

StudySpec == StudyInit /\ [][StudyNext]_<<vars, study>>

------------------------------------------------------------------------------
(* Properties.                                                             *)

\* What a row's label and return decide, and those of the rows whose labels
\* overlap its own, had they come out the other way.
Otherwise(i) ==
    LET touched == {j \in Pos : Overlap(i, j)}
    IN  [label  |-> [j \in Pos |-> IF j \in touched THEN 1 - table.label[j]
                                   ELSE table.label[j]],
         ret    |-> [j \in Pos |-> IF j \in touched THEN - table.ret[j]
                                   ELSE table.ret[j]],
         weight |-> table.weight, look |-> table.look, regime |-> table.regime]

BlockOf(i) == CHOOSE g \in Groups : i \in Group(g)

\* "Genuinely out-of-fold": what a trainer's members say of a row, and the
\* position the whole stack takes on a test row, gate and calibrator included,
\* would have been the same had the labels and returns of the row and of all that
\* overlap it come out differently.
OutOfSampleIsHonest ==
    outcome # "running" =>
        /\ \A m \in Members, i \in Pos : oof[m][i] # NaN =>
              oof[m][i] = Predict(Otherwise(i), m, 0, FoldTrain(BlockOf(i)), i)
        /\ job = "cpcv" => \A c \in done : \A i \in TestOf(c) :
              returns[c][i] = Net(table, GatedPosition(Otherwise(i), train[c])[i], i)

\* The calibrator is the isotonic regression: at every score the probability is
\* the greatest of the least mean labels over the stretches of scores around it,
\* so it never falls as the score rises and keeps the weight of the labels.
CalibrationIsIsotonic ==
    job \in {"baseline", "ensemble"} /\ outcome = "done" =>
        LET raw == RawScore
            Weight(S) == SumOver(LAMBDA j : table.weight[j], S)
            Share(x, y) == LET S == {j \in Pos : x <= raw[j] /\ raw[j] <= y}
                           IN  (One * SumOver(LAMBDA j : table.weight[j] * table.label[j], S))
                                  \div Weight(S)
            xs == {raw[j] : j \in Pos}
        IN  \A x \in xs : Calibrate(model, x) =
               Max({Min({Share(a, b) : b \in {b \in xs : b >= x}})
                      : a \in {a \in xs : a <= x}})

\* The chance that a positive row scores above a negative one, ties half.
Concordance(score, rows) ==
    LET pairs == {q \in rows \X rows : table.label[q[1]] = 1 /\ table.label[q[2]] = 0}
        above == {q \in pairs : score[q[1]] > score[q[2]]}
        tied  == {q \in pairs : score[q[1]] = score[q[2]]}
    IN  (One * (2 * Cardinality(above) + Cardinality(tied))) \div (2 * Cardinality(pairs))

\* The concordances of the blocks on which a smoothing can be judged.
TrialScore(smoothing) ==
    LET scorable == {g \in Groups : /\ CanTrain(FoldTrain(g))
                                    /\ HasBothClasses(table.label, Group(g))}
        Score(g) == Concordance([i \in Pos |->
                        Predict(table, 1, smoothing, FoldTrain(g), i)], Group(g))
    IN  IF scorable = {} THEN NaN
        ELSE SumOver(Score, scorable) \div Cardinality(scorable)

\* The ledger is what the trial count is taken from: a search that picked a
\* winner has logged every combination, scored or not, the winner is the best of
\* them, and one that raised half-way has still logged those it finished; a
\* training logs one run, and none when it raises.  Each run says how well it
\* ranked the rows.
LedgerIsTrue ==
    outcome # "running" =>
        /\ job = "search" =>
             /\ \A k \in DOMAIN tracker :
                   /\ tracker[k].smoothing = grid[k]
                   /\ tracker[k].score = TrialScore(grid[k])
             /\ outcome = "done" =>
                   /\ Len(tracker) = Len(grid)
                   /\ \A k \in DOMAIN tracker : tracker[k].score # NaN =>
                         model.score >= tracker[k].score
        /\ job \in {"baseline", "ensemble"} =>
             /\ Len(tracker) = IF outcome = "done" THEN 1 ELSE 0
             /\ \A k \in DOMAIN tracker :
                   tracker[k].auc = Concordance(RawScore, Pos)
===============================================================================
