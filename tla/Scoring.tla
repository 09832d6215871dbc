-------------------------------- MODULE Scoring --------------------------------
(***************************************************************************)
(* Scores and probabilities (quant/research/models): the rank statistic of *)
(* scoring.py, the rank average of ensemble.py, and the isotonic fit of    *)
(* calibration.py.                                                         *)
(*                                                                         *)
(* Probabilities are integers in units of 1 / One, rounded down.           *)
(***************************************************************************)
EXTENDS Integers, FiniteSets, Sequences, SequencesExt

\* Divisible by the sums of weights and the differences of ranks of small tables.
One == 6350400

SumOver(Value(_), S) == SumFunction([j \in S |-> Value(j)])

------------------------------------------------------------------------------
(* roc_auc.                                                                *)

\* A slip the runs must notice: ties are ranked in the order they come in.
OrdinalRank(score, rows, i) ==
    2 * Cardinality({j \in rows : \/ score[j] < score[i]
                                  \/ score[j] = score[i] /\ j <= i})

\* _average_ranks: twice the rank of a row, ties share theirs.
AverageRank(score, rows, i) ==
    2 * Cardinality({j \in rows : score[j] < score[i]})
      + Cardinality({j \in rows : score[j] = score[i]}) + 1

HasBothClasses(label, rows) == {label[i] : i \in rows} = {0, 1}

RocAuc(label, score, rows) ==
    LET positive == {i \in rows : label[i] = 1}
        p == Cardinality(positive)  n == Cardinality(rows) - p
        ranks == SumOver(LAMBDA i : AverageRank(score, rows, i), positive)
    IN  (One * (ranks - p * (p + 1))) \div (2 * p * n)

------------------------------------------------------------------------------
(* RankAverageCombiner: the mean over the members of the fraction of the   *)
(* reference scores that do not exceed the member's.                       *)

Combine(reference, rows, score) ==
    SumOver(LAMBDA m : Cardinality({j \in rows : reference[m][j] <= score[m]}),
            DOMAIN score)

------------------------------------------------------------------------------
(* fit_isotonic.  A block is a set of scores that share a probability, the *)
(* quotient of sum and weight.                                             *)

Below(a, b) == a.sum * b.weight < b.sum * a.weight

Join(blocks) == [scores |-> UNION {blocks[k].scores : k \in DOMAIN blocks},
                 sum    |-> SumOver(LAMBDA k : blocks[k].sum, DOMAIN blocks),
                 weight |-> SumOver(LAMBDA k : blocks[k].weight, DOMAIN blocks)]

\* A slip the runs must notice: a violator is merged with one block, not with
\* those before it too.
PushOnce(blocks, new) ==
    IF blocks # << >> /\ ~ Below(Last(blocks), new)
      THEN Append(Front(blocks), Join(<<Last(blocks), new>>))
      ELSE Append(blocks, new)

\* A turn of the loop of _pava: pool backwards until the last mean is below.
Push(blocks, new) ==
    LET Pooled(k) == Join(Append(SubSeq(blocks, k + 1, Len(blocks)), new))
        keep == Max({0} \cup {k \in DOMAIN blocks : Below(blocks[k], Pooled(k))})
    IN  Append(SubSeq(blocks, 1, keep), Pooled(keep))

\* _aggregate_by_score: one block per distinct score.
Points(score, label, weight, rows) ==
    LET At(x) == {i \in rows : score[i] = x}
    IN  {[scores |-> {x},
          sum    |-> SumOver(LAMBDA i : weight[i] * label[i], At(x)),
          weight |-> SumOver(LAMBDA i : weight[i], At(x))] : x \in {score[i] : i \in rows}}

InOrder(points) ==
    [k \in 1 .. Cardinality(points) |->
        CHOOSE p \in points :
            Cardinality({q \in points : Max(q.scores) <= Max(p.scores)}) = k]

\* _pava, over the blocks in the order of their scores.
Pava(points) == FoldLeft(Push, << >>, InOrder(points))

\* The knots of a calibrator: scores and their probabilities.
Knots(blocks) ==
    UNION {{[x |-> x, y |-> (One * b.sum) \div b.weight] : x \in b.scores}
             : b \in ToSet(blocks)}

FitIsotonic(score, label, weight, rows) ==
    Knots(Pava(Points(score, label, weight, rows)))

\* IsotonicCalibrator.predict: np.interp between the knots, flat outside.
Calibrate(knots, x) ==
    LET ups   == {k \in knots : x <= k.x}
        downs == {k \in knots : k.x <= x}
        hi == CHOOSE k \in ups : \A q \in ups : k.x <= q.x
        lo == CHOOSE k \in downs : \A q \in downs : q.x <= k.x
    IN  IF ups = {} THEN lo.y
        ELSE IF downs = {} \/ lo = hi THEN hi.y
        ELSE lo.y + ((x - lo.x) * (hi.y - lo.y)) \div (hi.x - lo.x)
===============================================================================
