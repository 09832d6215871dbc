------------------------------- MODULE Labelling -------------------------------
(***************************************************************************)
(* Events, labels and weights (quant/research/labeling): the CUSUM filter, *)
(* the barriers, the triple-barrier label, the meta-label of a bet on a    *)
(* side, and the uniqueness of overlapping labels.                         *)
(*                                                                         *)
(* A label is a record of positions in a frame of bars: at, exit, the      *)
(* label, the barrier that decided, and size, the realised return at the   *)
(* vertical barrier or the volatility that sets a horizontal one.          *)
(***************************************************************************)
EXTENDS BarFeatures

CONSTANTS
    Threshold,     \* of the CUSUM filter
    Upper, Lower,  \* barrier multiples of the volatility
    MinReturn,     \* the least width of a barrier
    MaxHold,       \* bars to the vertical barrier, 0 for no limit
    MomentumBars   \* lookback of the primary side

ASSUME LabellingAssumption ==
    Threshold > 0 /\ MomentumBars \in Nat \ {0} /\ MaxHold \in Nat

\* cusum_events: the side that reaches the threshold is reset, the other is not.
CusumEvents(frame) ==
    LET sums[k \in 1 .. Len(frame)] ==
            IF k = 1 THEN [up |-> 0, down |-> 0, events |-> {}]
            ELSE LET s == sums[k - 1]
                     up   == Max({0, s.up + LogReturn(frame, k)})
                     down == Min({0, s.down + LogReturn(frame, k)})
                     rises == up >= Threshold
                     falls == ~ rises /\ down <= - Threshold
                 IN  [up |-> IF rises THEN 0 ELSE up,
                      down |-> IF falls THEN 0 ELSE down,
                      events |-> s.events \cup {i \in {k} : rises \/ falls}]
    IN  IF frame = << >> THEN {} ELSE sums[Len(frame)].events

------------------------------------------------------------------------------
(* Barriers.                                                               *)

\* vertical_anchor_positions: the last bar of the session, or of the data.
Anchor(frame, k, mode) ==
    IF mode = "cnc" THEN Len(frame)
    ELSE Max({i \in DOMAIN frame : Day(frame[i].t) = Day(frame[k].t)})

VerticalPosition(frame, k, mode) ==
    LET anchor == Anchor(frame, k, mode)
    IN  IF MaxHold > 0 THEN Min({anchor, k + MaxHold}) ELSE anchor

\* A move is at least max(multiple * volatility, the least width).
Clears(move, multiple, volatility) ==
    /\ move >= MinReturn
    /\ move * move * Window * (Window - 1) >= multiple * multiple * volatility

\* Does bar i reach the barrier above, below, the close of bar k?
HitsHigh(frame, k, i, multiple) ==
    Clears(frame[i].high - frame[k].close, multiple, RealizedVolatility(frame, k))
HitsLow(frame, k, i, multiple) ==
    Clears(frame[k].close - frame[i].low, multiple, RealizedVolatility(frame, k))

\* first_touch: what decides, and where; one bar may reach both barriers.
FirstTouch(frame, k, vertical, up, down, tieToLow) ==
    LET highs == {i \in (k + 1) .. vertical : HitsHigh(frame, k, i, up)}
        lows  == {i \in (k + 1) .. vertical : HitsLow(frame, k, i, down)}
        Decided(at) ==
            [touched |-> IF at \in lows /\ (tieToLow \/ at \notin highs)
                           THEN "low" ELSE "high",
             at |-> at]
    IN  IF highs \cup lows = {} THEN [touched |-> "vertical", at |-> vertical]
        ELSE Decided(Min(highs \cup lows))

Sign(x) == IF x > 0 THEN 1 ELSE IF x < 0 THEN -1 ELSE 0

\* No label without a volatility or without a bar left to hold.
IsSkipped(frame, k, mode) ==
    RealizedVolatility(frame, k) = None \/ VerticalPosition(frame, k, mode) <= k

\* TripleBarrierLabeler._label_one
TripleBarrier(frame, k, mode) ==
    LET vertical == VerticalPosition(frame, k, mode)
        touch == FirstTouch(frame, k, vertical, Upper, Lower, TRUE)
        held == frame[vertical].close - frame[k].close
    IN  CASE touch.touched = "high" ->
               [at |-> k, exit |-> touch.at, label |-> 1, barrier |-> "upper",
                size |-> RealizedVolatility(frame, k)]
          [] touch.touched = "low" ->
               [at |-> k, exit |-> touch.at, label |-> -1, barrier |-> "lower",
                size |-> RealizedVolatility(frame, k)]
          [] OTHER ->
               [at |-> k, exit |-> vertical, label |-> Sign(held),
                barrier |-> "vertical", size |-> held]

Labels(frame, mode) ==
    {TripleBarrier(frame, k, mode) :
        k \in {k \in CusumEvents(frame) : ~ IsSkipped(frame, k, mode)}}

------------------------------------------------------------------------------
(* Meta-labels.                                                            *)

MomentumSide(frame, k) ==
    IF k > MomentumBars THEN Sign(frame[k].close - frame[k - MomentumBars].close)
    ELSE 0

\* A slip the runs must notice: the lower barrier wins a tie on either side.
LowWins(side) == TRUE

\* The stop wins a tie: it is the lower barrier of a long bet, the upper of a short.
StopIsLow(side) == side > 0

\* MetaLabeler._label_one: did a bet on the side pay?
MetaLabel(frame, k, side, mode) ==
    LET vertical == VerticalPosition(frame, k, mode)
        touch == IF side > 0
                   THEN FirstTouch(frame, k, vertical, Upper, Lower, StopIsLow(side))
                   ELSE FirstTouch(frame, k, vertical, Lower, Upper, StopIsLow(side))
        held == side * (frame[vertical].close - frame[k].close)
        pays == (touch.touched = "high") = (side > 0)
    IN  IF touch.touched = "vertical"
          THEN [at |-> k, exit |-> vertical, side |-> side, barrier |-> "vertical",
                label |-> IF held > 0 THEN 1 ELSE 0]
          ELSE [at |-> k, exit |-> touch.at, side |-> side,
                barrier |-> IF pays THEN "profit" ELSE "stop",
                label |-> IF pays THEN 1 ELSE 0]

MetaLabels(frame, mode) ==
    {MetaLabel(frame, k, MomentumSide(frame, k), mode) :
        k \in {k \in CusumEvents(frame) :
                 MomentumSide(frame, k) # 0 /\ ~ IsSkipped(frame, k, mode)}}

------------------------------------------------------------------------------
(* Sample weights.                                                         *)

\* A multiple of every concurrency that occurs.
Common == 60

Concurrency(labels, i) == Cardinality({l \in labels : l.at <= i /\ i <= l.exit})

\* Common times the average uniqueness of a label, times its length.
Uniqueness(labels, l) ==
    SumOver(LAMBDA i : Common \div Concurrency(labels, i), l.at .. l.exit)
===============================================================================
