------------------------------- MODULE Judgement -------------------------------
(***************************************************************************)
(* What the research code concludes from numbers: the flags of the         *)
(* robustness battery (quant/research/validation/robustness.py), the       *)
(* statistics of a report (reports/report.py, validation/pbo.py) and the   *)
(* seven-point kill gate (reports/killgate.py).                            *)
(*                                                                         *)
(* A Sharpe ratio or a return is an integer, a threshold a member of the   *)
(* record Bars; ratios are compared by cross-multiplication, fractions in  *)
(* hundredths.  The fits behind the numbers, and the normal distribution   *)
(* in the Deflated Sharpe Ratio, are inputs.                               *)
(***************************************************************************)
EXTENDS Integers, FiniteSets, Sequences, SequencesExt, TLC

CONSTANTS
    Bars,      \* the configured thresholds
    Skipped,   \* a synthetic universe without labelled events
    Undefined, \* sharpe_ratio raises: under two returns, or all the same but zero
    Baseline   \* the unperturbed variant, and the baseline configuration

Total(s) == FoldSeq(+, 0, s)

\* The sum of the two middle members: twice np.median.
MedianTwice(s) ==
    LET sorted == SortSeq(s, <)  n == Len(s)
    IN  sorted[(n + 1) \div 2] + sorted[(n \div 2) + 1]

\* The values of a function whose order does not matter, as a sequence.
ValuesOf(f) == LET keys == SetToSeq(DOMAIN f) IN [i \in DOMAIN keys |-> f[keys[i]]]

Count(s, Test(_)) == Cardinality({i \in DOMAIN s : Test(s[i])})

------------------------------------------------------------------------------
(* The battery.  What the evaluator returned is a record of variants       *)
(* (variant -> median Sharpe), repeats (noise level -> medians), path and  *)
(* orders (trades, and shuffles of them), held (symbol -> Sharpe when held *)
(* out, or Undefined), universes (median of each, Skipped without events), *)
(* reconciled.                                                             *)

\* sensitivity_variants: one knob turned at a time.
Variants(regimes) ==
    {Baseline, "method", "ungated", "embargo=0", "n_regimes+1"}
        \cup (IF regimes > 1 THEN {"n_regimes-1"} ELSE {})

\* parameter_sensitivity, monte_carlo_shuffle, cross_symbol_validation,
\* synthetic_data_backtest: what makes each of them raise.
SensitivityRaises(t) == Cardinality(DOMAIN t.variants) < 2
                            \/ Baseline \notin DOMAIN t.variants
ShuffleRaises(t)     == Len(t.orders) < 1 \/ Len(t.path) < 2
NoiseRaises(t)       == \/ DOMAIN t.repeats = {}
                        \/ \E level \in DOMAIN t.repeats :
                              level < 0 \/ t.repeats[level] = << >>
CrossSymbolRaises(t) == \/ Cardinality(DOMAIN t.held) < 2
                        \/ \E s \in DOMAIN t.held : t.held[s] = Undefined
SyntheticRaises(t)   == \A u \in DOMAIN t.universes : t.universes[u] = Skipped

\* noise_injection: the repeats of a level are averaged; their sum has its sign.
NoiseByLevel(t) == [level \in DOMAIN t.repeats |-> Total(t.repeats[level])]

\* Universes without events are skipped.
SyntheticMedians(t) == SelectSeq(t.universes, LAMBDA u : u # Skipped)

\* max_drawdown: the deepest fall of the running sum.
MaxDrawdown(returns) ==
    LET n == Len(returns)
        equity[i \in 0 .. n] == IF i = 0 THEN 0 ELSE equity[i - 1] + returns[i]
    IN  IF n = 0 THEN 0
        ELSE Max({equity[p[1]] - equity[p[2]] :
                     p \in {q \in (1 .. n) \X (1 .. n) : q[1] <= q[2]}})

\* A perturbation turns a positive edge negative.
FlipsSign(medians) ==
    medians[Baseline] > 0 /\ \E v \in DOMAIN medians : medians[v] < 0

\* std / |mean| above the threshold: (n * sum of squares - sum^2) / sum^2 is its
\* square.
SwingsTooMuch(medians) ==
    LET n == Cardinality(DOMAIN medians)
        sum == MapThenSumSet(LAMBDA v : medians[v], DOMAIN medians)
        squares == MapThenSumSet(LAMBDA v : medians[v] * medians[v], DOMAIN medians)
    IN  /\ sum # 0
        /\ (n * squares - sum * sum) * 10000
              > Bars.knifeEdgeCv * Bars.knifeEdgeCv * sum * sum

\* A slip the runs must notice: only the swing is looked at.
IsWideEdge(medians) == SwingsTooMuch(medians)

IsKnifeEdge(medians) == FlipsSign(medians) \/ SwingsTooMuch(medians)

\* Only the gentlest level is judged, and only of a positive baseline.
EdgePersists(baseline, byLevel) ==
    baseline <= 0 \/ byLevel[Min(DOMAIN byLevel)] > 0

\* At least five shuffles in a hundred fall no deeper than the trades did.
OrderRobust(path, orders) ==
    LET benign == Count(orders, LAMBDA o :
                      MaxDrawdown([i \in DOMAIN o |-> path[o[i]]])
                         <= MaxDrawdown(path))
    IN  100 * benign >= 5 * Len(orders)

Generalizes(sharpes) ==
    LET s == ValuesOf(sharpes)
    IN  MedianTwice(s) > 0 /\ 2 * Count(s, LAMBDA x : x > 0) >= Len(s)

\* The mean of the medians is above the threshold.
EdgeDetected(medians) ==
    100 * Total(medians) > Bars.syntheticEdge * Len(medians)

BatteryRaises(t) == \/ SensitivityRaises(t) \/ ShuffleRaises(t) \/ NoiseRaises(t)
                    \/ CrossSymbolRaises(t) \/ SyntheticRaises(t)

\* The report of the battery, and whether the strategy passed it.
BatteryReport(t) ==
    [sensitivity |-> t.variants, noise |-> NoiseByLevel(t), path |-> t.path,
     orders |-> t.orders, cross |-> t.held, synthetic |-> SyntheticMedians(t),
     reconciled |-> t.reconciled]

BatteryPasses(b) ==
    /\ ~ IsKnifeEdge(b.sensitivity)
    /\ EdgePersists(b.sensitivity[Baseline], b.noise)
    /\ OrderRobust(b.path, b.orders)
    /\ Generalizes(b.cross)
    /\ ~ EdgeDetected(b.synthetic)
    /\ b.reconciled

------------------------------------------------------------------------------
(* The statistics of the report.  Evidence holds paths (the Sharpe of each *)
(* CPCV path), net and regimes (return and regime of each event), panel    *)
(* (configuration -> returns) and dsr.                                     *)

Gains(net)  == SelectSeq(net, LAMBDA r : r > 0)
Losses(net) == SelectSeq(net, LAMBDA r : r < 0)

\* Gross profit over gross loss; infinite without a loss, zero without a gain.
ProfitFactorClears(net) ==
    LET profit == Total(Gains(net))  loss == - Total(Losses(net))
    IN  IF loss = 0 THEN profit > 0 ELSE 100 * profit >= Bars.profitFactor * loss

\* The share of the largest trade in the gross profit, zero without one.
ConcentrationClears(net) ==
    Gains(net) = << >>
        \/ 100 * Max(Range(Gains(net))) <= Bars.concentration * Total(Gains(net))

\* regime_breakdown: the returns of one regime; a regime without any is left out.
InRegime(e, k) ==
    LET at == SelectSeq([i \in DOMAIN e.net |-> i], LAMBDA i : e.regimes[i] = k)
    IN  [j \in DOMAIN at |-> e.net[at[j]]]

\* array_split: the first rows % parts blocks hold one row more.
BlockOf(row, rows, parts) ==
    LET short == rows \div parts  long == rows % parts
    IN  IF row <= long * (short + 1) THEN (row - 1) \div (short + 1) + 1
        ELSE (row - 1 - long) \div short + 1

\* The Sharpe ratio over a set of rows, as a sign and a fraction; 0 / 1 without
\* dispersion.  Fractions over the same number of rows compare as the ratios do.
SharpeOver(column, rows) ==
    LET n == Cardinality(rows)
        sum == MapThenSumSet(LAMBDA i : column[i], rows)
        squares == MapThenSumSet(LAMBDA i : column[i] * column[i], rows)
        spread == n * squares - sum * sum
    IN  IF spread = 0 THEN [num |-> 0, den |-> 1]
        ELSE [num |-> IF sum < 0 THEN - sum * sum ELSE sum * sum, den |-> spread]

Below(a, b) == a.num * b.den < b.num * a.den

\* Is the configuration that was best in the rows of inSample at or below the
\* median of the others in the rest?  The rank of ties is averaged; argmax takes
\* the first of the best.
WinnerFails(panel, order, inSample, outOfSample) ==
    LET is  == [c \in DOMAIN panel |-> SharpeOver(panel[c], inSample)]
        oos == [c \in DOMAIN panel |-> SharpeOver(panel[c], outOfSample)]
        best == SelectInSeq(order, LAMBDA c :
                    \A d \in DOMAIN panel : ~ Below(is[c], is[d]))
        fewer == {c \in DOMAIN panel : Below(oos[c], oos[order[best]])}
        tied == {c \in DOMAIN panel : ~ Below(oos[c], oos[order[best]])
                                        /\ ~ Below(oos[order[best]], oos[c])}
    IN  2 * Cardinality(fewer) + Cardinality(tied) + 1 <= Cardinality(DOMAIN panel) + 1

\* _cscv_partitions: the largest even number at most 16 and half the rows, not
\* under 2.
Partitions(rows) ==
    LET candidate == Min({16, rows \div 2}) IN Max({2 * (candidate \div 2), 2})

\* probability_of_backtest_overfitting raises on too few rows.
PanelTooShort(panel) ==
    LET rows == Len(panel[Baseline]) IN rows < 2 * Partitions(rows)

\* The share of splits into halves whose winner fails.
PboClears(panel, order) ==
    LET rows == Len(panel[Baseline])
        parts == Partitions(rows)
        halves == {H \in SUBSET (1 .. parts) : 2 * Cardinality(H) = parts}
        RowsIn(H) == {r \in 1 .. rows : BlockOf(r, rows, parts) \in H}
        overfit == {H \in halves :
                      WinnerFails(panel, order, RowsIn(H), RowsIn((1 .. parts) \ H))}
    IN  100 * Cardinality(overfit) <= Bars.pbo * Cardinality(halves)

------------------------------------------------------------------------------
(* The kill gate: the criteria that passed, and the verdict.               *)

MedianClears(e) == MedianTwice(e.paths) > 2 * Bars.medianSharpe

DsrClears(e) == e.dsr >= Bars.dsr

DistributionClears(e) ==
    /\ 100 * Count(e.paths, LAMBDA s : s < 0) <= Bars.negativePaths * Len(e.paths)
    /\ Min(Range(e.paths)) >= Bars.worstPath

TradesClear(e) == ProfitFactorClears(e.net) /\ ConcentrationClears(e.net)

\* Regimes with too few events are not judged, and at least one must be.
RegimesClear(e) ==
    LET judged == {k \in Range(e.regimes) :
                     Len(InRegime(e, k)) >= Bars.regimeFloor}
    IN  /\ judged # {}
        /\ \A k \in judged :
              Total(InRegime(e, k)) >= Bars.regimeMean * Len(InRegime(e, k))

\* _criterion_1 to _criterion_7, in order; order is that of the panel's columns.
Criteria(e, order, robust) ==
    << MedianClears(e), DsrClears(e), PboClears(e.panel, order),
       DistributionClears(e), TradesClear(e), robust, RegimesClear(e) >>

Verdict(criteria) ==
    IF \A i \in DOMAIN criteria : criteria[i] THEN "PASS" ELSE "KILL"
==============================================================================
