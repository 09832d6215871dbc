----------------------------- MODULE FactorSignals -----------------------------
(***************************************************************************)
(* From a panel of closes to one score per name (quant/research/factors,   *)
(* data/features/cross_sectional.py): split adjustment, the five factors   *)
(* of scripts/run_factor_gate.py, their sector-neutral z-scores, and the   *)
(* two combiners of the A/B run.                                           *)
(*                                                                         *)
(* Quotients are integers in units of 1 / One, rounded down.  A standard   *)
(* deviation is a mean absolute deviation, which is undefined, zero and    *)
(* scaled in the same cases.  The regression slope of the residual         *)
(* momentum is one.                                                        *)
(***************************************************************************)
EXTENDS Integers, FiniteSets, FiniteSetsExt, Functions

CONSTANTS Names,       \* in the order of the panel's columns
          Sectors,    \* name -> sector, as the exchange publishes it
          MomentumDays, Skip, VolWindow,
          Thesis,      \* factor -> its weight in the direction of the thesis
          Clusters,    \* k
          PerCluster,  \* min_names_per_cluster_factor
          NaN          \* no value

ASSUME SignalsAssumption ==
    /\ Names \subseteq Nat /\ IsFiniteSet(Names)
    /\ Skip \in Nat \ {0} /\ Skip < MomentumDays /\ VolWindow \in Nat \ {0, 1}
    /\ Clusters \in Nat \ {0} /\ PerCluster \in Nat \ {0}

One == 240

Factors == {"momentum", "reversal", "low_vol", "amihud", "residual_mom"}

Total(Value(_), S) == SumFunction([x \in S |-> Value(x)])
Distance(x, y) == IF x < y THEN y - x ELSE x - y
Defined(f, S) == \A x \in S : f[x] # NaN

------------------------------------------------------------------------------
(* back_adjust_for_splits.  raw is one name's closes, events the confirmed *)
(* [name, day, kind] of it.                                                *)

Applies(raw, event) ==
    /\ event.day - 1 \in DOMAIN raw /\ event.day \in DOMAIN raw
    /\ raw[event.day - 1] # NaN /\ raw[event.day] # NaN
    /\ 100 * raw[event.day] < 98 * raw[event.day - 1]

\* A slip the runs must notice: the day of the event is scaled too.
AdjustedThrough(raw, events) ==
    [t \in DOMAIN raw |->
        LET later == {e \in events : Applies(raw, e) /\ t <= e.day}
        IN  IF raw[t] = NaN THEN NaN
            ELSE (raw[t] * ProductSet({raw[e.day] : e \in later}))
                    \div ProductSet({raw[e.day - 1] : e \in later})]

\* Each event scales all that is before it by the ratio seen on its day.
Adjusted(raw, events) ==
    [t \in DOMAIN raw |->
        LET later == {e \in events : Applies(raw, e) /\ t < e.day}
        IN  IF raw[t] = NaN THEN NaN
            ELSE FoldSet(LAMBDA e, price : (price * raw[e.day]) \div raw[e.day - 1],
                         raw[t], later)]

------------------------------------------------------------------------------
(* price_factors.py, at day t of the closes c and the daily returns r.     *)

SimpleReturn(c, t) ==
    IF t = 1 \/ c[t] = NaN THEN NaN
    ELSE IF c[t - 1] = NaN THEN NaN ELSE (One * (c[t] - c[t - 1])) \div c[t - 1]

Growth(c, from, to) ==
    IF from < 1 THEN NaN
    ELSE IF c[from] = NaN \/ c[to] = NaN THEN NaN
    ELSE (One * (c[to] - c[from])) \div c[from]

Days(t, size) == (t - size + 1) .. t

\* rolling(size, min_periods=size).mean(): undefined when a value is missing.
RollingMean(f, t, size) ==
    IF t < size THEN NaN
    ELSE IF ~ Defined(f, Days(t, size)) THEN NaN
    ELSE Total(LAMBDA i : f[i], Days(t, size)) \div size

\* A slip the runs must notice: a window with gaps has a volatility.
VolatilityWithGaps(r, t) ==
    LET there == {i \in Days(t, VolWindow) : i >= 1 /\ r[i] # NaN}
    IN  IF there = {} THEN NaN
        ELSE 1 + Total(LAMBDA i : Distance(r[i], 0), there) \div Cardinality(there)

\* pct_change().rolling(VOL_WINDOW).std()
Volatility(r, t) ==
    LET mean == RollingMean(r, t, VolWindow)
    IN  IF mean = NaN THEN NaN
        ELSE Total(LAMBDA i : Distance(r[i], mean), Days(t, VolWindow)) \div VolWindow

Momentum(c, t) == Growth(c, t - MomentumDays, t - Skip)
\* A slip the runs must notice: the change of the price for its growth.
ReversalInPrices(c, t) ==
    IF t <= Skip THEN NaN
    ELSE IF NaN \in {c[t - Skip], c[t]} THEN NaN ELSE c[t - Skip] - c[t]

Reversal(c, t) == LET g == Growth(c, t - Skip, t) IN IF g = NaN THEN NaN ELSE - g
LowVolatility(r, t) == LET v == Volatility(r, t) IN IF v = NaN THEN NaN ELSE - v

Amihud(r, value, t) ==
    RollingMean([i \in Days(t, VolWindow) |->
                    IF i < 1 THEN NaN
                    ELSE IF r[i] = NaN \/ value[i] = NaN THEN NaN
                    ELSE (One * Distance(r[i], 0)) \div value[i]], t, VolWindow)

\* What is left of the return after the drift of the window before it and the
\* market's; summed over the formation window.
ResidualMomentum(r, market, t) ==
    LET Alpha(i) == LET a == RollingMean(r, i - 1, VolWindow)
                        b == RollingMean(market, i - 1, VolWindow)
                    IN  IF a = NaN \/ b = NaN THEN NaN ELSE a - b
        residual == [i \in Days(t - Skip, MomentumDays - Skip) |->
                        IF i < 2 THEN NaN
                        ELSE IF r[i] = NaN \/ market[i] = NaN \/ Alpha(i) = NaN THEN NaN
                        ELSE r[i] - market[i] - Alpha(i)]
    IN  IF Defined(residual, DOMAIN residual)
          THEN Total(LAMBDA i : residual[i], DOMAIN residual) ELSE NaN

\* close_panel.pct_change().mean(axis=1): the names of the panel with a return.
MarketReturn(ret, t) ==
    LET there == {s \in DOMAIN ret : ret[s][t] # NaN}
    IN  IF there = {} THEN NaN
        ELSE Total(LAMBDA s : ret[s][t], there) \div Cardinality(there)

FactorAt(c, r, value, market, t) ==
    [momentum |-> Momentum(c, t), reversal |-> Reversal(c, t),
     low_vol |-> LowVolatility(r, t), amihud |-> Amihud(r, value, t),
     residual_mom |-> ResidualMomentum(r, market, t)]

------------------------------------------------------------------------------
(* sector_neutral_zscore, of one factor f on one date.                     *)

ZScore(f, sector, s) ==
    LET block == {q \in DOMAIN f : sector[q] = sector[s] /\ f[q] # NaN}
        size  == Cardinality(block)
        sum   == Total(LAMBDA q : f[q], block)
        spread == Total(LAMBDA q : Distance(size * f[q], sum), block)
    IN  IF f[s] = NaN \/ spread = 0 THEN NaN
        ELSE (One * size * (size * f[s] - sum)) \div spread

\* The cross-section of one date: name -> factor -> z-score.
Neutral(factors, sector) ==
    [s \in DOMAIN factors |->
        [x \in Factors |-> ZScore([q \in DOMAIN factors |-> factors[q][x]], sector, s)]]

\* EqualWeightComposite: the mean of the z-scores that are defined.
EqualWeight(z) ==
    [s \in DOMAIN z |->
        LET there == {x \in Factors : z[s][x] # NaN}
        IN  IF there = {} THEN NaN
            ELSE Total(LAMBDA x : z[s][x], there) \div Cardinality(there)]

\* KMeans.fit: clusters whose members are nearest to one another.
Apart(z, p, q) == Total(LAMBDA x : Distance(z[p][x], z[q][x])
                                     * Distance(z[p][x], z[q][x]), Factors)
Inertia(z, cluster) ==
    Total(LAMBDA p : Total(LAMBDA q : Apart(z, p, q), cluster), cluster)
        \div (2 * Cardinality(cluster))
KMeans(z, full) ==
    LET labels == {l \in [full -> 1 .. Clusters] : Range(l) = 1 .. Clusters}
        Cost(l) == Total(LAMBDA k : Inertia(z, {s \in full : l[s] = k}), 1 .. Clusters)
        least == Min({Cost(l) : l \in labels})
        best == CHOOSE l \in labels : Cost(l) = least
    IN  {{s \in full : best[s] = k} : k \in 1 .. Clusters}

\* ClusterSelectionCombiner: minus the squared distance to the centroid that
\* points furthest along the thesis; with few names, the projection on it.
ClusterSelection(z) ==
    LET full == {s \in DOMAIN z : Defined(z[s], Factors)}
        Desire(of) == Total(LAMBDA x : Thesis[x] * of[x], Factors)
        Centroid(cluster) == [x \in Factors |->
            Total(LAMBDA s : z[s][x], cluster) \div Cardinality(cluster)]
        clusters == KMeans(z, full)
        furthest == Max({Desire(Centroid(c)) : c \in clusters})
        target == Centroid(CHOOSE c \in clusters : Desire(Centroid(c)) = furthest)
        Away(s) == Total(LAMBDA x : Distance(z[s][x], target[x])
                                      * Distance(z[s][x], target[x]), Factors)
        clustered == Clusters > 1 /\ Cardinality(full) >= Clusters * PerCluster
    IN  [s \in DOMAIN z |-> IF s \notin full THEN NaN
                            ELSE IF clustered THEN - Away(s) ELSE Desire(z[s])]
===============================================================================
