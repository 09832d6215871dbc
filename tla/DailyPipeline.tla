----------------------------- MODULE DailyPipeline -----------------------------
(***************************************************************************)
(* The complete gated pipeline over daily bars                             *)
(* (scripts/run_complete_pipeline.py): each arm loads the bars of all      *)
(* symbols, from the archive through the bad-tick filter                   *)
(* (quant/data/hygiene/bad_ticks.py) or from yfinance, makes features and  *)
(* labels, lays the events of all symbols on one synthetic clock, judges a *)
(* direct and a meta strategy on it under combinatorial purged             *)
(* cross-validation, and deflates the result by the trials on record.      *)
(*                                                                         *)
(* Bars are those of BarFeatures; a raw bar also says whether its prices   *)
(* are positive, which a price on the log scale cannot.                    *)
(***************************************************************************)
EXTENDS Labelling

CONSTANTS
    Universe,      \* SYMBOLS, sorted
    SectorOf,      \* SECTORS
    Sources,       \* what the archive and yfinance may hold, by symbol
    ArmLists,      \* what --arm may ask for
    MaxMove,       \* bad_tick_max_move_pct
    MinBars, MinEvents, MinSymbols, MinColumn,
    MinTested,     \* _MIN_OBSERVATIONS of a test of stationarity
    Orders,        \* of fractional differencing, as weights, in order
    Fallback,      \* the weights of the order taken when none will do
    PoolGapDays,
    Groups,        \* CPCV_GROUPS
    MaxResults,    \* of a search of the tracker
    MaxRuns        \* bound: times the script is run

\* A bar as an arm gets it, and the bars of a symbol in the order of time.
RawBar == [t : Nat, high : Int, low : Int, close : Int, volume : Int, positive : BOOLEAN]
InTime(raw) == /\ raw \in Seq(RawBar)
               /\ \A i, j \in DOMAIN raw : i < j => raw[i].t < raw[j].t

\* The symbols are those with a sector, sorted; yfinance has a bar a day.
ASSUME PipelineAssumption ==
    /\ PoolGapDays \in Nat \ {0} /\ MaxRuns \in Nat
    /\ ArmLists \subseteq Seq({"validated", "yfinance"}) \ {<< >>}
    /\ Universe \in Seq(DOMAIN SectorOf)
    /\ \A i, j \in DOMAIN Universe : i # j => Universe[i] # Universe[j]
    /\ \A held \in Sources, s \in Range(Universe) :
         /\ InTime(held["validated"][s]) /\ InTime(held["yfinance"][s])
         /\ \A i, j \in DOMAIN held["yfinance"][s] :
              i < j => Day(held["yfinance"][s][i].t) < Day(held["yfinance"][s][j].t)

VARIABLES source, arms, phase,
          daily,    \* symbol -> daily bars, those with any
          usable,   \* symbol -> [frame, features, direct, meta], those with enough
          pools,    \* strategy -> its events on the synthetic clock
          judged,   \* the arms with a verdict on both strategies
          trials,   \* the N to deflate by
          tracker,  \* runs of the p2r experiments on record
          runs      \* times the script was run

pipelineVars == <<source, arms, phase, daily, usable, pools, judged, trials, tracker, runs>>

------------------------------------------------------------------------------
(* Hygiene.                                                                *)

IsBroken(bar) ==
    \/ ~ bar.positive \/ bar.volume < 0
    \/ bar.high < bar.low \/ bar.close \notin bar.low .. bar.high

Jumps(bar, from) == bar.close - from > MaxMove \/ from - bar.close > MaxMove

\* BadTickFilter.filter: the bars kept so far, each against the last of them.
Filtered(raw) ==
    LET kept[k \in 0 .. Len(raw)] ==
            IF k = 0 THEN {}
            ELSE LET before == kept[k - 1]
                     jumps == before # {} /\ Jumps(raw[k], raw[Max(before)].close)
                 IN  before \cup {i \in {k} : ~ IsBroken(raw[k]) /\ ~ jumps}
    IN  Pick(raw, kept[Len(raw)])

\* load_validated_daily and load_yfinance_daily
Loaded(arm, s) ==
    IF arm = "validated" THEN Resample(Filtered(source[arm][s]), DaySlots)
    ELSE source[arm][s]

------------------------------------------------------------------------------
(* Features.                                                               *)

\* A price-level column: None while it warms up.
Level(frame) ==
    [k \in DOMAIN frame |->
        IF k < Window THEN None
        ELSE SumOver(LAMBDA i : frame[i].close, Trailing(k, Window))]

\* frac_diff: as many leading values are lost as there are further weights.
Differenced(column, weights) ==
    LET width == Len(weights) - 1
    IN  [k \in DOMAIN column |->
            IF k <= width THEN None
            ELSE SumOver(LAMBDA j : weights[j + 1] * column[k - j], 0 .. width)]

\* adfuller: here, a column whose ends are no further apart than a threshold.
Present(column) == SelectSeq(column, LAMBDA x : x # None)
IsStationary(column) == Last(Present(column)) - Head(Present(column)) \in - Threshold .. Threshold
IsConstant(column) == Cardinality(Range(Present(column))) = 1

\* min_ffd tries the orders in turn, but for those that leave too little to test,
\* until one makes the whole column stationary.  A test of a constant raises.
Remaining(column, o) == Len(column) - Len(Orders[o]) + 1
Tested(column) == {o \in DOMAIN Orders : Remaining(column, o) >= MinTested}
Stationary(column) ==
    {o \in Tested(column) : IsStationary(Differenced(column, Orders[o]))}

MinFfdRaises(column) ==
    \E o \in Tested(column) : /\ IsConstant(Differenced(column, Orders[o]))
                             /\ \A p \in Stationary(column) : p >= o

\* _fracdiff_column: the fallback when there is no such order or less than a half
\* remains of the column; a short one is left as it is.
FracDiff(column) ==
    LET there == Present(column)
        lost  == Len(column) - Len(there)
        best  == Min(Stationary(there))
        chosen == IF Stationary(there) # {} /\ 2 * Remaining(there, best) >= Len(there)
                    THEN Orders[best] ELSE Fallback
        differenced == Differenced(there, chosen)
    IN  IF Len(there) < MinColumn THEN column
        ELSE [k \in DOMAIN column |-> IF k <= lost THEN None ELSE differenced[k - lost]]

\* compute_feature_matrix, and regime_frame beside it.
FeatureMatrix(frame) ==
    LET level == FracDiff(Level(frame))
    IN  [k \in DOMAIN frame |->
            [ret    |-> IF k = 1 THEN None ELSE LogReturn(frame, k),
             rvol   |-> RealizedVolatility(frame, k),
             atr    |-> Atr(frame, k),
             range  |-> ParkinsonVolatility(frame, k),
             level  |-> level[k],
             regime |-> VolatilityRegime(frame, k),
             trend  |-> TrendStrength(frame, k)]]

\* build_symbol_rows: the features come before the events are counted.
FeaturesRaise(frame) ==
    LET there == Present(Level(frame))
    IN  Len(frame) >= MinBars /\ Len(there) >= MinColumn /\ MinFfdRaises(there)

IsUsable(frame) ==
    /\ Len(frame) >= MinBars
    /\ Cardinality(CusumEvents(frame)) >= MinEvents
    /\ Labels(frame, "cnc") # {} /\ MetaLabels(frame, "cnc") # {}

SymbolRows(frame) ==
    [frame |-> frame, features |-> FeatureMatrix(frame),
     direct |-> Labels(frame, "cnc"), meta |-> MetaLabels(frame, "cnc")]

\* cross_sectional_rank and sector_neutral_zscore of the returns of a day, over
\* all symbols that have bars; a sector whose returns are all one has no score.
ReturnOn(s, t) ==
    LET at == {k \in DOMAIN daily[s] : daily[s][k].t = t /\ k > 1}
    IN  IF at = {} THEN None ELSE LogReturn(daily[s], Max(at))

CrossSection(s, t) ==
    LET there  == {q \in DOMAIN daily : ReturnOn(q, t) # None}
        sector == {q \in there : SectorOf[q] = SectorOf[s]}
        Return(q) == ReturnOn(q, t)
    IN  IF s \notin there THEN [rank |-> None, score |-> None]
        ELSE [rank  |-> Cardinality({q \in there : Return(q) < Return(s)})
                          + Cardinality({q \in there : Return(q) <= Return(s)}),
              score |-> IF Dispersion(Return, sector) = 0 THEN None
                        ELSE [over |-> Cardinality(sector) * Return(s) - SumOver(Return, sector),
                              spread |-> Dispersion(Return, sector)]]

\* add_cross_sectional: two more columns of the usable symbols.
WithCrossSection(s) ==
    [usable[s] EXCEPT !.features = [k \in DOMAIN @ |->
        @[k] @@ CrossSection(s, usable[s].frame[k].t)]]

------------------------------------------------------------------------------
(* The synthetic clock.                                                    *)

\* The events of a symbol whose features are all there, in order.
PoolableEvents(s, which) ==
    LET valid == {l \in usable[s][which] : IsComplete(usable[s].features[l.at])}
        At(k) == {l \in valid : l.at = k}
        order == Ascending({l.at : l \in valid})
    IN  [n \in DOMAIN order |-> CHOOSE l \in At(order[n]) : TRUE]

\* A slip the runs must notice: the day of the exit does not count.
HoldOneDayLess(frame, l) == Max({1, Day(frame[l.exit].t) - Day(frame[l.at].t) - 1})

\* The calendar days of a label, at least one.
HoldDays(frame, l) == Max({1, Day(frame[l.exit].t) - Day(frame[l.at].t)})

PoolGap == Max({PoolGapDays, 4 * MaxHold})

\* _pool: an event a second, and the days of its label as seconds; the next
\* symbol begins a gap after the last label of this one.
PooledSymbol(s, which, epoch) ==
    LET events == PoolableEvents(s, which)
    IN  [n \in DOMAIN events |->
            [symbol |-> s,
             t0 |-> usable[s].frame[events[n].at].t,
             t1 |-> usable[s].frame[events[n].exit].t,
             s0 |-> epoch + n - 1,
             s1 |-> epoch + n - 1 + HoldDays(usable[s].frame, events[n]),
             label |-> events[n].label]]

Pooled(which) ==
    LET LastEnd(events) == Max({events[n].s1 : n \in DOMAIN events})
        laid[k \in 0 .. Len(Universe)] ==
            IF k = 0 THEN << >>
            ELSE LET before == laid[k - 1]
                     epoch == IF before = << >> THEN 0 ELSE LastEnd(before) + PoolGap
                 IN  IF Universe[k] \notin DOMAIN usable THEN before
                     ELSE before \o PooledSymbol(Universe[k], which, epoch)
    IN  laid[Len(Universe)]

------------------------------------------------------------------------------
(* The script.                                                             *)

Strategies == {"direct", "meta"}
NoBars == [s \in {} |-> << >>]
NoPool == [which \in Strategies |-> << >>]
Arm == Head(arms)

PipelineInit ==
    /\ source \in Sources /\ arms \in ArmLists /\ phase = "load"
    /\ daily = NoBars /\ usable = NoBars /\ pools = NoPool
    /\ judged = {} /\ trials = 0 /\ tracker = 0 /\ runs = 1

RaiseError ==
    /\ phase' = "raised"
    /\ UNCHANGED <<source, arms, daily, usable, pools, judged, trials, tracker, runs>>

\* run_arm, as far as the bars; too few symbols end the script.
LoadArm ==
    /\ phase = "load"
    /\ LET frames == [s \in Range(Universe) |-> Loaded(Arm, s)]
           there  == {s \in Range(Universe) : frames[s] # << >>}
       IN  /\ Cardinality(there) >= MinSymbols
           /\ daily' = [s \in there |-> frames[s]]
    /\ phase' = "rows"
    /\ UNCHANGED <<source, arms, usable, pools, judged, trials, tracker, runs>>

TooFewSymbols ==
    /\ phase = "load"
    /\ Cardinality({s \in Range(Universe) : Loaded(Arm, s) # << >>}) < MinSymbols
    /\ RaiseError

BuildSymbolRows ==
    /\ phase = "rows"
    /\ \A s \in DOMAIN daily : ~ FeaturesRaise(daily[s])
    /\ usable' = [s \in {s \in DOMAIN daily : IsUsable(daily[s])} |-> SymbolRows(daily[s])]
    /\ phase' = "cross"
    /\ UNCHANGED <<source, arms, daily, pools, judged, trials, tracker, runs>>

RowsRaise ==
    /\ phase = "rows"
    /\ \E s \in DOMAIN daily : FeaturesRaise(daily[s])
    /\ RaiseError

AddCrossSectional ==
    /\ phase = "cross"
    /\ usable' = [s \in DOMAIN usable |-> WithCrossSection(s)]
    /\ phase' = "pool"
    /\ UNCHANGED <<source, arms, daily, pools, judged, trials, tracker, runs>>

PoolStrategies ==
    /\ phase = "pool"
    /\ pools' = [which \in Strategies |-> Pooled(which)]
    /\ phase' = IF \E which \in Strategies : pools'[which] = << >>
                  THEN "raised" ELSE "judge"
    /\ UNCHANGED <<source, arms, daily, usable, judged, trials, tracker, runs>>

\* evaluate_direct and evaluate_meta: too few events for the groups, and for the
\* regimes or the calibrator, raise.
EvaluateArm ==
    /\ phase = "judge"
    /\ \A which \in Strategies : Len(pools[which]) >= Groups
    /\ judged' = judged \cup {Arm}
    /\ arms' = Tail(arms)
    /\ phase' = IF arms' = << >> THEN "count" ELSE "load"
    /\ daily' = NoBars /\ usable' = NoBars /\ pools' = NoPool
    /\ UNCHANGED <<source, trials, tracker, runs>>

EvaluationRaises ==
    /\ phase = "judge"
    /\ RaiseError

\* honest_trial_count: what a search of the record returns, or five when it fails.
CountTrials ==
    /\ phase = "count"
    /\ trials' \in {Min({tracker, MaxResults}), 5}
    /\ phase' = "log"
    /\ UNCHANGED <<source, arms, daily, usable, pools, judged, tracker, runs>>

\* _log_mlflow: one run for both arms; a failing tracker is only a warning.
LogMlflow ==
    /\ phase = "log"
    /\ tracker' \in {tracker, tracker + 1}
    /\ phase' = "done"
    /\ UNCHANGED <<source, arms, daily, usable, pools, judged, trials, runs>>

RunAgain ==
    /\ phase \in {"done", "raised"} /\ runs < MaxRuns
    /\ runs' = runs + 1
    /\ arms' \in ArmLists /\ phase' = "load"
    /\ daily' = NoBars /\ usable' = NoBars /\ pools' = NoPool
    /\ judged' = {} /\ trials' = 0
    /\ UNCHANGED <<source, tracker>>

PipelineNext ==
    \/ LoadArm \/ TooFewSymbols \/ BuildSymbolRows \/ RowsRaise
    \/ AddCrossSectional \/ PoolStrategies \/ EvaluateArm
    \/ EvaluationRaises \/ CountTrials \/ LogMlflow \/ RunAgain

PipelineSpec == PipelineInit /\ [][PipelineNext]_pipelineVars

------------------------------------------------------------------------------
(* Properties.                                                             *)

\* "The purge becomes stricter, never leakier" on the synthetic clock: two
\* events of a symbol whose trades overlap in the market overlap on the clock,
\* though weekends fall out of it and events without features are left out, and
\* events of two symbols never overlap.
PurgeIsNeverLeakier ==
    \A which \in Strategies : LET p == pools[which] IN
        \A m \in DOMAIN p, n \in DOMAIN p : m < n =>
            /\ p[m].s0 < p[n].s0
            /\ p[m].symbol = p[n].symbol /\ p[n].t0 <= p[m].t1 => p[n].s0 <= p[m].s1
            /\ p[m].symbol # p[n].symbol => p[m].s1 < p[n].s0

===============================================================================
