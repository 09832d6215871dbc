------------------------------ MODULE BarFeatures ------------------------------
(***************************************************************************)
(* Bars and the features computed from them: resampling                    *)
(* (quant/research/pipeline/dataset.py) and the trailing features of       *)
(* quant/data/features (returns, volatility, vwap, regime, harness).       *)
(*                                                                         *)
(* A bar is a record [t, high, low, close, volume]; t counts slots.        *)
(* Prices are integers on the log scale, so a return is a difference.  A   *)
(* ratio is the pair of its terms and a deviation its dispersion           *)
(* n * sum of squares - sum^2, so nothing is rounded; None is NaN.         *)
(***************************************************************************)
EXTENDS Integers, FiniteSets, Sequences, SequencesExt

CONSTANTS
    DaySlots,      \* slots of a trading day, a multiple of every bar length
    Window,        \* rolling window of the volatilities, trend and regime
    Lookback,      \* window of the median in the volatility regime
    None           \* NaN: a warm-up row, or a division by zero

ASSUME FeatureAssumption ==
    /\ DaySlots \in Nat \ {0}
    /\ Window \in Nat \ {0, 1} /\ Lookback \in Nat \ {0, 1}

Day(t) == t \div DaySlots

SumOver(Value(_), S) == SumFunction([i \in S |-> Value(i)])

\* The numbers of a set in ascending order, and the elements at some positions.
Ascending(S) ==
    [k \in 1 .. Cardinality(S) |->
        CHOOSE i \in S : Cardinality({j \in S : j < i}) = k - 1]
Pick(seq, positions) ==
    LET order == Ascending(positions) IN [k \in DOMAIN order |-> seq[order[k]]]

\* resample_bars: left-closed and left-labelled; an interval without bars has none.
IntervalStart(t, slots) == slots * (t \div slots)

Opens(bars, slots) ==
    {i \in DOMAIN bars :
        i = 1 \/ IntervalStart(bars[i].t, slots) # IntervalStart(bars[i - 1].t, slots)}

Aggregate(bars, slots, start) ==
    LET within == {i \in DOMAIN bars : IntervalStart(bars[i].t, slots) = start}
    IN  [t |-> start,
         high |-> Max({bars[i].high : i \in within}),
         low |-> Min({bars[i].low : i \in within}),
         close |-> bars[Max(within)].close,
         volume |-> SumOver(LAMBDA i : bars[i].volume, within)]

Resample(bars, slots) ==
    LET first == Pick(bars, Opens(bars, slots))
    IN  [k \in DOMAIN first |-> Aggregate(bars, slots, IntervalStart(first[k].t, slots))]

Trailing(k, n) == (k - n + 1) .. k

\* n (n - 1) times the sample variance of n values.
Dispersion(Value(_), S) ==
    LET sum == SumOver(Value, S)
    IN  Cardinality(S) * SumOver(LAMBDA i : Value(i) * Value(i), S) - sum * sum

LogReturn(frame, k) == frame[k].close - frame[k - 1].close

\* A slip the runs must notice: the volatility of the whole sample.
WholeSampleVolatility(frame, k) ==
    IF k <= Window THEN None
    ELSE Dispersion(LAMBDA i : LogReturn(frame, i), 2 .. Len(frame))

\* realized_volatility; the first bar has no return.
RealizedVolatility(frame, k) ==
    IF k <= Window THEN None
    ELSE Dispersion(LAMBDA i : LogReturn(frame, i), Trailing(k, Window))

\* atr: the first bar has a range and no previous close.
Atr(frame, k) ==
    LET TrueRange(i) ==
            Max({frame[i].high - frame[i].low} \cup
                UNION {{frame[i].high - frame[j].close, frame[j].close - frame[i].low}
                         : j \in {i - 1} \cap DOMAIN frame})
    IN  IF k < Window THEN None ELSE SumOver(TrueRange, Trailing(k, Window))

ParkinsonVolatility(frame, k) ==
    LET Range2(i) == (frame[i].high - frame[i].low) * (frame[i].high - frame[i].low)
    IN  IF k < Window THEN None ELSE SumOver(Range2, Trailing(k, Window))

\* vwap_deviation: the average restarts with the day.
VwapDeviation(frame, k) ==
    LET today == {i \in 1 .. k : Day(frame[i].t) = Day(frame[k].t)}
        volume == SumOver(LAMBDA i : frame[i].volume, today)
        Typical(i) == frame[i].high + frame[i].low + frame[i].close
        value == SumOver(LAMBDA i : Typical(i) * frame[i].volume, today)
    IN  IF volume = 0 THEN None
        ELSE [over |-> 3 * frame[k].close * volume - value, vwap |-> value]

\* volatility_regime: the middle two of the window stand for its median.
VolatilityRegime(frame, k) ==
    LET past == [i \in 1 .. Lookback |-> RealizedVolatility(frame, k - Lookback + i)]
        sorted == SortSeq(past, <)
        middle == {sorted[(Lookback + 1) \div 2], sorted[(Lookback \div 2) + 1]}
    IN  IF k < Lookback + Window THEN None
        ELSE IF middle = {0} THEN None
        ELSE [volatility |-> RealizedVolatility(frame, k), median |-> middle]

TrendStrength(frame, k) ==
    LET window == Trailing(k, Window)
        ClosePrice(i) == frame[i].close
    IN  IF k < Window THEN None
        ELSE IF Dispersion(ClosePrice, window) = 0 THEN None
        ELSE [over |-> Window * ClosePrice(k) - SumOver(ClosePrice, window),
              spread |-> Dispersion(ClosePrice, window)]

\* A row of compute_feature_frame, and the row of _regime_frame beside it.
FeatureRow(frame, k) ==
    [ret    |-> IF k = 1 THEN None ELSE LogReturn(frame, k),
     rvol   |-> RealizedVolatility(frame, k),
     atr    |-> Atr(frame, k),
     range  |-> ParkinsonVolatility(frame, k),
     vwap   |-> VwapDeviation(frame, k),
     regime |-> VolatilityRegime(frame, k),
     trend  |-> TrendStrength(frame, k)]

IsComplete(row) == \A name \in DOMAIN row : row[name] # None

\* compute_features_asof: the last row of the history up to a moment.
FeaturesAsOf(frame, asof) ==
    LET history == Pick(frame, {k \in DOMAIN frame : frame[k].t <= asof})
    IN  FeatureRow(history, Len(history))
===============================================================================
