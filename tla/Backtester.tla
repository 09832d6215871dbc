------------------------------ MODULE Backtester ------------------------------
(***************************************************************************)
(* The intraday backtest and its double.  Backtester.run                   *)
(* (quant/research/validation/backtest.py) walks the bars with a running   *)
(* cash and position; VectorizedBacktester.run (.../reconcile.py) computes *)
(* the same run with whole arrays; reconcile_engines runs the first, then  *)
(* the second, and compares them.  The targets come from a model's gated   *)
(* signal by _sample_targets (quant/research/pipeline/robustness.py).      *)
(*                                                                         *)
(* Prices, cash and costs are integers: rounding, which the tolerance of   *)
(* the reconciliation is for, is left out.  Per fill there is at most one  *)
(* entry for a bar, so the log of fills is a function of the bar.          *)
(***************************************************************************)
EXTENDS Integers, FiniteSets

CONSTANTS NumBars, Delay,        \* bars; execution_delay_bars
          Shares,                \* the whole share positions a signal may want
          Open, Close, Volume,   \* functions of the bar
          Capital,
          MinSlip, MaxSlip,      \* price moved by a small order, by a large one
          FeeRate, FeeCap,       \* brokerage: a share of the turnover, capped
          BuyTax, SellTax,       \* stamp duty, STT
          Unchanged

ASSUME BacktestAssumption ==
    /\ NumBars \in Nat \ {0} /\ Delay \in Nat \ {0} /\ Capital \in Nat
    /\ Shares \subseteq Int
    /\ Open \in [1 .. NumBars -> Int] /\ Close \in [1 .. NumBars -> Int]
    /\ Volume \in [1 .. NumBars -> Nat]
    /\ MinSlip \in Nat /\ MaxSlip \in Nat /\ FeeRate \in Nat /\ FeeCap \in Nat
    /\ BuyTax \in Nat /\ SellTax \in Nat
    /\ Unchanged \notin Int

Bars == 1 .. NumBars

VARIABLES session,   \* session[b]: the IST date of bar b
          signal,    \* signal[b]: shares wanted at the event of bar b, if any
          target,    \* target_positions, scattered onto the bars
          pc,        \* "walk", "price", "sum", "done"
          hold, bar, cash, position, fills, equity,     \* the first engine
          holdV, index, total, fillsV, equityV          \* the second

strategy == <<session, signal, target>>
first    == <<hold, bar, cash, position, fills, equity>>
second   == <<holdV, index, total, fillsV, equityV>>
vars     == <<strategy, pc, first, second>>

------------------------------------------------------------------------------
(* What the engines share: the injected cost and slippage models.          *)

Quantity(delta) == IF delta > 0 THEN delta ELSE - delta

\* A buy fills above the open and a sell below it, by the size of the order
\* against the volume of the bar.
Slip(quantity, volume) == IF volume <= quantity THEN MaxSlip ELSE MinSlip
FillPrice(delta, b) == IF delta > 0 THEN Open[b] + Slip(delta, Volume[b])
                                    ELSE Open[b] - Slip(- delta, Volume[b])

\* cost_for_fill: capped brokerage, and one tax for each side.
Cost(delta, price) ==
    LET turnover  == price * Quantity(delta)
        brokerage == IF FeeRate * turnover < FeeCap THEN FeeRate * turnover
                                                    ELSE FeeCap
    IN  brokerage + turnover * IF delta > 0 THEN BuyTax ELSE SellTax

Fill(delta, b, closing) ==
    LET price == FillPrice(delta, b) IN
    [delta |-> delta, price |-> price, cost |-> Cost(delta, price),
     reason |-> IF closing THEN "square_off" ELSE "rebalance"]

\* A bar without a trade, and what a fill does to the cash.
NoFill == [delta |-> 0, price |-> 0, cost |-> 0, reason |-> "none"]
CashFlow(fill) == - fill.price * fill.delta - fill.cost

\* A slip the runs must notice: a session ends where another one begins.
EndsNext(b) == b > 1 /\ session[b - 1] # session[b]

\* _session_end_mask: the next bar is of another session, or there is none.
SessionEnd(b) == b = NumBars \/ session[b] # session[b + 1]

\* _decisions_per_bar: the last target of the session so far, 0 before any.
Decision(b) ==
    LET given == {a \in 1 .. b : session[a] = session[b] /\ target[a] # Unchanged}
    IN  IF given = {} THEN 0
        ELSE target[CHOOSE a \in given : \A c \in given : c <= a]

\* _sample_targets: the signal in shares; zeros are dropped.
SampleTargets(wanted) ==
    [b \in Bars |-> IF wanted[b] = 0 THEN Unchanged ELSE wanted[b]]

------------------------------------------------------------------------------
(* The first engine.                                                       *)

\* A slip the runs must notice: a fill one bar early.
HoldingsEarly ==
    [b \in Bars |->
        IF SessionEnd(b) \/ b - Delay < 1 THEN 0
        ELSE IF session[b] = session[b - Delay] THEN Decision(b - Delay + 1) ELSE 0]

\* Backtester._holdings_path: the decision of Delay bars ago, if it was made in
\* the session of this bar, and nothing over the end of one.
HoldingsPath ==
    [b \in Bars |->
        IF SessionEnd(b) \/ b - Delay < 1 THEN 0
        ELSE IF session[b] = session[b - Delay] THEN Decision(b - Delay) ELSE 0]

Init ==
    /\ session \in {s \in [Bars -> Bars] :
          s[1] = 1 /\ \A b \in Bars \ {1} : s[b] \in {s[b - 1], s[b - 1] + 1}}
    /\ signal \in [Bars -> Shares \cup {Unchanged}]
    /\ target = SampleTargets(signal)
    /\ pc = "walk"
    /\ hold = HoldingsPath
    /\ bar = 0 /\ cash = Capital /\ position = 0
    /\ fills = [b \in Bars |-> NoFill] /\ equity = [b \in Bars |-> 0]
    /\ holdV = [b \in Bars |-> 0] /\ index = 0 /\ total = 0
    /\ fillsV = [b \in Bars |-> NoFill] /\ equityV = [b \in Bars |-> 0]

\* A slip the runs must notice: the position is not moved by the fill.
WalkBarUnmoved ==
    /\ pc = "walk" /\ bar < NumBars
    /\ bar' = bar + 1
    /\ LET delta == hold[bar'] - position
           fill  == Fill(delta, bar', SessionEnd(bar'))
       IN  IF delta = 0 THEN UNCHANGED <<cash, position, fills>>
           ELSE /\ cash' = cash + CashFlow(fill)
                /\ position' = position
                /\ fills' = [fills EXCEPT ![bar'] = fill]
    /\ equity' = [equity EXCEPT ![bar'] = cash' + position' * Close[bar']]
    /\ UNCHANGED <<strategy, pc, hold, second>>

\* One turn of the loop of Backtester.run: a fill where the position changes,
\* then the mark to market at the close.
WalkBar ==
    /\ pc = "walk" /\ bar < NumBars
    /\ bar' = bar + 1
    /\ LET delta == hold[bar'] - position
           fill  == Fill(delta, bar', SessionEnd(bar'))
       IN  IF delta = 0 THEN UNCHANGED <<cash, position, fills>>
           ELSE /\ cash' = cash + CashFlow(fill)
                /\ position' = hold[bar']
                /\ fills' = [fills EXCEPT ![bar'] = fill]
    /\ equity' = [equity EXCEPT ![bar'] = cash' + position' * Close[bar']]
    /\ UNCHANGED <<strategy, pc, hold, second>>

------------------------------------------------------------------------------
(* The second engine.                                                      *)

\* VectorizedBacktester._holdings: decisions and sessions shifted by Delay, kept
\* where the sessions agree, zero on the last bar of each.
ShiftedDecision(b) == IF b - Delay \in Bars THEN Decision(b - Delay) ELSE 0
ShiftedSession(b)  == IF b - Delay \in Bars THEN session[b - Delay] ELSE 0
Holdings ==
    [b \in Bars |-> IF session[b] = ShiftedSession(b) /\ ~ SessionEnd(b)
                      THEN ShiftedDecision(b) ELSE 0]

StartSecond ==
    /\ pc = "walk" /\ bar = NumBars
    /\ pc' = "price" /\ index' = 0
    /\ holdV' = Holdings
    /\ UNCHANGED <<strategy, first, total, fillsV, equityV>>

\* np.diff(hold, prepend=0)
DeltaV(b) == holdV[b] - IF b = 1 THEN 0 ELSE holdV[b - 1]

\* _price_trades: one fill where the difference is not zero.
PriceTrade ==
    /\ pc = "price" /\ index < NumBars
    /\ index' = index + 1
    /\ fillsV' = IF DeltaV(index') = 0 THEN fillsV
                 ELSE [fillsV EXCEPT ![index'] =
                         Fill(DeltaV(index'), index', SessionEnd(index'))]
    /\ UNCHANGED <<strategy, pc, first, holdV, total, equityV>>

StartSum ==
    /\ pc = "price" /\ index = NumBars
    /\ pc' = "sum" /\ index' = 0
    /\ UNCHANGED <<strategy, first, holdV, total, fillsV, equityV>>

\* np.cumsum of the cash flows, and the mark to market of every bar.
SumBar ==
    /\ pc = "sum" /\ index < NumBars
    /\ index' = index + 1
    /\ total' = total + CashFlow(fillsV[index'])
    /\ equityV' = [equityV EXCEPT ![index'] =
                     Capital + total' + holdV[index'] * Close[index']]
    /\ UNCHANGED <<strategy, pc, first, holdV, fillsV>>

Finish ==
    /\ pc = "sum" /\ index = NumBars
    /\ pc' = "done"
    /\ UNCHANGED <<strategy, first, second>>

Next == WalkBar \/ StartSecond \/ PriceTrade \/ StartSum \/ SumBar \/ Finish

Spec == Init /\ [][Next]_vars
------------------------------------------------------------------------------
(* Properties.                                                             *)

IsFill(f) == f.delta # 0 /\ f.cost \in Int /\ f.reason \in {"rebalance", "square_off"}

TypeOK ==
    /\ session \in [Bars -> Bars] /\ target \in [Bars -> Shares \cup {Unchanged}]
    /\ pc \in {"walk", "price", "sum", "done"}
    /\ hold \in [Bars -> Shares \cup {0}] /\ holdV \in [Bars -> Shares \cup {0}]
    /\ signal \in [Bars -> Shares \cup {Unchanged}]
    /\ bar \in 0 .. NumBars /\ index \in 0 .. NumBars
    /\ cash \in Int /\ position \in Shares \cup {0} /\ total \in Int
    /\ \A log \in {fills, fillsV} :
          DOMAIN log = Bars /\ \A b \in Bars : log[b] = NoFill \/ IsFill(log[b])
    /\ equity \in [Bars -> Int] /\ equityV \in [Bars -> Int]

LastOfSession(b) == \A c \in Bars : c > b => session[c] # session[b]

\* "No position is ever carried overnight": after the last bar of a session the
\* equity is all cash, so a session's result is realised in it, and the last bar
\* itself never opens a position: what it fills is a square-off.
FlatOvernight ==
    bar > 0 /\ LastOfSession(bar) =>
        /\ position = 0 /\ equity[bar] = cash
        /\ fills[bar] # NoFill => fills[bar].reason = "square_off"

\* The decisions of the session of the bar just walked, one for each of its bars.
FirstOfSession(b) ==
    CHOOSE a \in 1 .. b : /\ session[a] = session[b]
                          /\ \A c \in 1 .. a - 1 : session[c] # session[b]
Intents ==
    IF bar = 0 THEN <<>>
    ELSE [k \in 1 .. bar - FirstOfSession(bar) + 1 |->
             Decision(FirstOfSession(bar) + k - 1)]

\* No look-ahead: at every bar the walk holds what a trader would who reads each
\* target on its own bar and waits Delay bars (the whole-array path of
\* _holdings_path is computed from all targets at once).
Live == INSTANCE MisTrader WITH intents <- Intents
ImplementsTrader == Live!Spec

\* The implementation-risk check: for every strategy, delay and cut of the bars
\* into sessions, the two engines make the same fills and draw the same curve.
EnginesReconcile == pc = "done" => fills = fillsV /\ equity = equityV

\* The target is the position wanted "from that bar's decision onward (positive
\* long, negative short, 0 flat)": a signal the gate switched off is flat when
\* its fill is due.
OffIsFlat ==
    \A b \in Bars :
        signal[b] = 0 /\ bar = b + Delay /\ session[bar] = session[b] => position = 0
==============================================================================
