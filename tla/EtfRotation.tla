------------------------------ MODULE EtfRotation ------------------------------
(***************************************************************************)
(* The multi-ETF track (quant/research/etf): the rotation that ranks funds *)
(* by out-of-sample probabilities from purged folds, and the risk-parity   *)
(* portfolio, both rebalanced at month ends, charged for every trade, and  *)
(* judged against an equal-weight benchmark (scripts/etf_rotation.py,      *)
(* scripts/etf_portfolio.py).                                              *)
(*                                                                         *)
(* Money and weights are whole units and returns halves, rounded down; a   *)
(* variance stands for a volatility; cash earns nothing.  What an ensemble *)
(* learns is external: a training fold gives each fund some score.         *)
(***************************************************************************)
EXTENDS Integers, Sequences, SequencesExt, FiniteSetsExt, Functions

CONSTANTS
    Funds,         \* the risk legs, in the order of the panel
    Cash, MarketFund,
    Calendars,     \* days of the sessions
    PricePanels,        \* fund -> session -> price
    Plans,         \* what a script runs, in order
    MomentumSpan, HoldSessions, VolSessions,
    RegimeWarmup, RegimeSpan,
    Splits,        \* n_splits
    Scores,        \* fund -> score, what an ensemble may say
    MonthLength,   \* days of a month
    RiskOffCash,   \* weight of cash in a risk-off month, of Whole
    TargetVol,
    SideRate,          \* cost of a side, per Million
    FlatSell,      \* flat charge of a sale
    Capital

Whole   == 60
Million == 1000

\* The sessions are sorted, and HoldSessions of them never take more than twice as
\* many days: the calendar the labels' ends are an estimate of.
ASSUME RotationAssumption ==
    /\ HoldSessions \in Nat \ {0} /\ Splits \in Nat \ {0, 1}
    /\ MomentumSpan \in Nat /\ VolSessions \in Nat
    /\ Funds \in Seq(Range(Funds)) /\ Cash \notin Range(Funds)
    /\ {RiskOffCash, FlatSell, Capital} \subseteq Int /\ TargetVol \in Nat
    /\ \A p \in PricePanels : \A s \in Range(Funds) : p[s] \in Seq(Nat \ {0})
    /\ SideRate \in [{"buy", "sell"} -> Int]
    /\ \A c \in Calendars :
          /\ c \in Seq(Int)
          /\ \A t, u \in DOMAIN c : t < u => c[t] < c[u]
          /\ \A t \in 1 .. Len(c) - HoldSessions :
                c[t + HoldSessions] - c[t] <= 2 * HoldSessions

VARIABLES calendar, prices,
          plan,      \* configurations still to run; the first one is running
          stage,     \* "benchmark", "fold", "schedule", "trade", "judge", "done",
                     \* or "failed"
          block,     \* the fold whose turn it is
          embargo,   \* observations skipped after a test block
          probs,     \* session -> fund -> score
          learnt,    \* history: session -> sessions its score was learnt from
          schedule,  \* session -> leg -> weight, of Whole
          session,   \* the last session traded
          legs, portfolio,
          worth,     \* the equity curve
          benchmark, \* the equity curve of the benchmark
          results,   \* the edge over the benchmark of each configuration
          ruling

rotationVars == <<calendar, prices, plan, stage, block, embargo, probs, learnt, schedule,
                  session, legs, portfolio, worth, benchmark, results, ruling>>

data     == <<calendar, prices>>
forecast == <<block, embargo, probs, learnt, schedule>>
account  == <<session, legs, portfolio, worth>>

Sessions == DOMAIN calendar
Legs     == Range(Funds) \cup {Cash}
Config   == Head(plan)
SumOf(f) == SumFunction(f)

------------------------------------------------------------------------------
(* Prices.                                                                 *)

Price(s, t)  == IF s = Cash THEN 1 ELSE prices[s][t]
Return(s, t) == (2 * (Price(s, t) - Price(s, t - 1))) \div Price(s, t - 1)

\* _realized_vol, up to scale: the spread of the last returns.
Spread(ret) ==
    VolSessions * SumOf([k \in DOMAIN ret |-> ret[k] * ret[k]]) - SumOf(ret) * SumOf(ret)
Vol(s, t) == Spread([k \in 1 .. VolSessions |-> Return(s, t - VolSessions + k)])

CalendarMonth(t)   == calendar[t] \div MonthLength
IsMonthEnd(t) == t = Len(calendar) \/ CalendarMonth(t + 1) # CalendarMonth(t)
MonthEndSessions  == {t \in Sessions : IsMonthEnd(t)}

------------------------------------------------------------------------------
(* Out-of-sample probabilities.                                            *)

\* build_feature_rows: the sessions with all features and a full label.
First == IF MomentumSpan > VolSessions THEN MomentumSpan ELSE VolSessions
Observed == (First + 1) .. (Len(calendar) - HoldSessions)

\* cross_sectional_labels: no worse than the median of the day.
Ahead(q, s, t) ==
    Price(q, t + HoldSessions) * Price(s, t) > Price(s, t + HoldSessions) * Price(q, t)
Outperforms(s, t) == 2 * Cardinality({q \in Range(Funds) : Ahead(q, s, t)}) < Len(Funds)

\* A slip the runs must notice: sessions are counted as days.
LabelEndInSessions(t) == calendar[t] + HoldSessions

\* Where the label of a session is taken to end.
LabelEnd(t) == calendar[t] + 2 * HoldSessions

\* np.array_split of the observations.
BlockSessions(b) ==
    LET n == Cardinality(Observed)
        Start(k) == k * (n \div Splits) + IF k < n % Splits THEN k ELSE n % Splits
    IN  (First + 1 + Start(b)) .. (First + Start(b + 1))

\* purged_train_mask of one block: labels that end before it begins, and, past
\* the embargo, sessions after the last label of the block.
TrainSessions(b) ==
    LET test == BlockSessions(b)
        lastEnd == Max({LabelEnd(t) : t \in test})
        later == {t \in Observed : calendar[t] > lastEnd}
    IN  {t \in Observed \ test :
            \/ LabelEnd(t) < calendar[Min(test)]
            \/ t \in later /\ t >= Min(later) + embargo}

------------------------------------------------------------------------------
(* Weights.                                                                *)

\* _risk_off_dates: the volatility of the market is in its top third, of late.
IsRiskOff(t) ==
    LET recent == (t - RegimeSpan) .. t
        atMost == {u \in recent : Vol(MarketFund, u) <= Vol(MarketFund, t)}
    IN  t > RegimeWarmup /\ Cardinality(atMost) >= (2 * RegimeSpan) \div 3 + 1

InverseVol(s, t) == Whole \div (IF Vol(s, t) > 1 THEN Vol(s, t) ELSE 1)

\* Weights of some funds by inverse volatility, and cash for the rest.
Weights(chosen, budget, t) ==
    LET sum == SumOf([s \in chosen |-> InverseVol(s, t)])
        weight == [s \in chosen |->
                      IF sum = 0 THEN 0 ELSE (budget * InverseVol(s, t)) \div sum]
    IN  [s \in Legs |-> IF s = Cash THEN Whole - SumOf(weight)
                        ELSE IF s \in chosen THEN weight[s] ELSE 0]

\* The best funds by score, equals in the order of the panel.
TopFunds(score, k) ==
    LET Beats(q, s) == \/ score[Funds[q]] > score[Funds[s]]
                       \/ score[Funds[q]] = score[Funds[s]] /\ q < s
    IN  {Funds[i] : i \in {i \in DOMAIN Funds :
            Cardinality({q \in DOMAIN Funds : Beats(q, i)}) < k}}

\* rotation_weights: a month end without probabilities goes to cash.
RotationWeights(t) ==
    LET budget == Whole - IF Config.gate /\ IsRiskOff(t) THEN RiskOffCash ELSE 0
    IN  Weights(IF t \in DOMAIN probs THEN TopFunds(probs[t], Config.topK) ELSE {},
                budget, t)

\* risk_parity_schedule: all funds, scaled down to the target volatility.
ParityWeights(t) ==
    LET raw == Weights(Range(Funds), Whole, t)
        vol == Spread([k \in 1 .. VolSessions |->
                   SumOf([s \in Range(Funds) |-> raw[s] * Return(s, t - VolSessions + k)])])
        gross == IF vol <= TargetVol THEN Whole ELSE (Whole * TargetVol) \div vol
    IN  Weights(Range(Funds), gross, t)

------------------------------------------------------------------------------
(* Trading.                                                                *)

\* ETFCostModel.trade_cost
TradeCost(value, side) ==
    (value * SideRate[side]) \div Million + IF side = "sell" THEN FlatSell ELSE 0

\* What it costs to bring some legs to their targets; no move is a sale of nothing.
RebalanceCost(held, target, traded) ==
    LET Cost(s) == IF target[s] > held[s] THEN TradeCost(target[s] - held[s], "buy")
                                          ELSE TradeCost(held[s] - target[s], "sell")
    IN  SumOf([s \in traded |-> Cost(s)])

Drifted(held, t) ==
    [s \in Legs |-> IF t = 1 THEN held[s] ELSE (held[s] * Price(s, t)) \div Price(s, t - 1)]

\* A slip the runs must notice: the costs are not taken out of the legs.
AtTarget(target, left) == target

\* Legs at their targets, scaled to what the costs leave: of a debt, each its share.
Quotient(x, y) == IF y > 0 THEN x \div y ELSE (- x) \div (- y)
Rebalanced(target, left) ==
    [s \in Legs |-> IF SumOf(target) = 0 THEN target[s]
                    ELSE Quotient(target[s] * left, SumOf(target))]

NoLegs == [s \in Legs |-> 0]
NoProbs == [t \in {} |-> << >>]

\* What is known of some sessions, and the same for all the sessions of a block.
WithBlock(known, said) ==
    [t \in DOMAIN known \cup BlockSessions(block) |->
        IF t \in DOMAIN known THEN known[t] ELSE said]

------------------------------------------------------------------------------
(* The scripts.                                                            *)

RotationInit ==
    /\ calendar \in Calendars /\ plan \in Plans
    /\ prices \in {p \in PricePanels : \A s \in Range(Funds) : Len(p[s]) = Len(calendar)}
    /\ stage = "benchmark" /\ block = 0 /\ embargo = 0
    /\ probs = NoProbs /\ learnt = NoProbs /\ schedule = NoProbs
    /\ session = 0 /\ legs = NoLegs /\ portfolio = Capital
    /\ worth = << >> /\ benchmark = << >> /\ results = << >> /\ ruling = "none"

Account(t, held, money) ==
    /\ session' = t /\ legs' = held /\ portfolio' = money
    /\ worth' = Append(worth, money)

\* equal_weight_rebalanced: bought on the first session, rebalanced at month ends.
BenchmarkDay ==
    LET t == session + 1
        held == Drifted(legs, t)
        money == IF t = 1 THEN Capital ELSE SumOf(held)
        target == [s \in Legs |-> money \div Cardinality(Legs)]
        left == money - RebalanceCost(held, target, Legs)
    IN  /\ stage = "benchmark" /\ t \in Sessions
        /\ IF t = 1 \/ IsMonthEnd(t) THEN Account(t, Rebalanced(target, left), left)
                                     ELSE Account(t, held, money)
        /\ UNCHANGED <<data, plan, stage, forecast, benchmark, results, ruling>>

\* A configuration begins: a float product, rounded down, is the embargo.
Begin ==
    LET n == Cardinality(Observed)
        whole == IF HoldSessions + 1 <= n \div 5 THEN HoldSessions + 1 ELSE n \div 5
    IN  /\ stage' = IF plan' # << >> /\ Head(plan').kind = "rotation" THEN "fold" ELSE "schedule"
        /\ embargo' \in IF whole = HoldSessions + 1 THEN {whole, whole - 1} ELSE {whole}
        /\ block' = 0 /\ probs' = NoProbs /\ learnt' = NoProbs /\ schedule' = NoProbs
        /\ session' = 0 /\ legs' = NoLegs /\ portfolio' = Capital /\ worth' = << >>

BenchmarkDone ==
    /\ stage = "benchmark" /\ session = Len(calendar)
    /\ benchmark' = worth
    /\ plan' = plan /\ Begin
    /\ UNCHANGED <<data, results, ruling>>

Say(score, rows) ==
    /\ probs' = WithBlock(probs, score)
    /\ learnt' = WithBlock(learnt, rows)
    /\ block' = block + 1
    /\ stage' = IF block + 1 = Splits THEN "schedule" ELSE "fold"
    /\ UNCHANGED <<data, plan, embargo, schedule, account, benchmark, results, ruling>>

\* oos_probabilities finds no row, or PurgedKFold fewer observations than folds.
FoldsRaise ==
    /\ stage = "fold" /\ Cardinality(Observed) < Splits
    /\ stage' = "failed"
    /\ UNCHANGED <<data, plan, forecast, account, benchmark, results, ruling>>

\* oos_probabilities, one fold; a training side of one class says nothing.
TrainFold ==
    LET rows == TrainSessions(block)
        classes == {Outperforms(s, t) : s \in Range(Funds), t \in rows}
    IN  /\ stage = "fold" /\ Cardinality(Observed) >= Splits
        /\ IF Cardinality(classes) < 2 THEN Say([s \in Range(Funds) |-> 0], {})
           ELSE \E score \in Scores : Say(score, rows)

MakeSchedule ==
    /\ stage = "schedule"
    /\ schedule' = IF Config.kind = "rotation"
                     THEN [t \in MonthEndSessions |-> RotationWeights(t)]
                     ELSE [t \in {t \in MonthEndSessions : t > VolSessions} |-> ParityWeights(t)]
    /\ stage' = "trade"
    /\ UNCHANGED <<data, plan, block, embargo, probs, learnt, account, benchmark, results, ruling>>

\* backtest_weights, one session.
TradeDay ==
    LET t == session + 1
        held == Drifted(legs, t)
        sum == SumOf(held)
        money == IF sum = 0 THEN portfolio ELSE sum
        target == [s \in Legs |-> (schedule[t][s] * money) \div Whole]
        left == money - RebalanceCost(held, target, {s \in Legs : target[s] # held[s]})
    IN  /\ stage = "trade" /\ t \in Sessions
        /\ IF t \in DOMAIN schedule THEN Account(t, Rebalanced(target, left), left)
                                    ELSE Account(t, held, money)
        /\ UNCHANGED <<data, plan, stage, forecast, benchmark, results, ruling>>

\* run_grid: the excess over the benchmark, and the next configuration.
NextConfig ==
    /\ stage = "trade" /\ session = Len(calendar)
    /\ results' = Append(results, Last(worth) - Last(benchmark))
    /\ IF Len(plan) > 1
         THEN plan' = Tail(plan) /\ Begin
         ELSE /\ stage' = "judge"
              /\ UNCHANGED <<plan, forecast, account>>
    /\ UNCHANGED <<data, benchmark, ruling>>

\* Gate 1: an edge that is large enough, and significant for the trials made.
\* Gate 2: no drawdown beyond a fifth, and better than the market and cash.
NoDeepDrawdown == \A i, j \in Sessions : i < j => 5 * worth[j] >= 4 * worth[i]

JudgeGate ==
    /\ stage = "judge"
    /\ stage' = "done"
    /\ ruling' \in IF IF Config.kind = "rotation" THEN Max(Range(results)) > 0
                                                   ELSE NoDeepDrawdown
                      THEN {"pass", "no_go"} ELSE {"no_go"}
    /\ UNCHANGED <<data, plan, forecast, account, benchmark, results>>

RotationNext ==
    \/ BenchmarkDay \/ BenchmarkDone \/ FoldsRaise \/ TrainFold \/ MakeSchedule
    \/ TradeDay \/ NextConfig \/ JudgeGate

RotationSpec == RotationInit /\ [][RotationNext]_rotationVars

------------------------------------------------------------------------------
(* Properties.                                                             *)

\* "Leakage-free out-of-sample P(outperform)": though the ends of the labels are
\* estimated in calendar days, no score was learnt from a session whose own
\* holding period meets, session by session, that of the session it scores.
RotationHonest ==
    \A t \in DOMAIN learnt : \A u \in learnt[t] : u + HoldSessions < t \/ t + HoldSessions < u

\* No money is made or lost but by prices and charges: what the legs are worth
\* is the portfolio, after every drift, cost and rebalance, up to a unit a leg.
BooksBalance ==
    LET sum == SumOf(legs)
    IN  sum # 0 => sum \in portfolio - Cardinality(Legs) .. portfolio
===============================================================================
