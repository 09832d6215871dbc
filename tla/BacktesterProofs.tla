--------------------------- MODULE BacktesterProofs ---------------------------
(***************************************************************************)
(* The two engines agree on every strategy, every cut of the bars into     *)
(* sessions, every delay and every price.  That is no invariant the steps  *)
(* keep by themselves: it is checked once the second engine is done, when  *)
(* the first has long forgotten its running cash.  The invariant keeps     *)
(* that cash: what the curve shows at a bar, less the mark of the position *)
(* held, moves from bar to bar by the cash flow of the logged fill, and    *)
(* this is the sum the second engine forms.  That the walk looks at no     *)
(* later bar is a refinement of the trader who waits.                      *)
(*                                                                         *)
(* The books of the factor gate: what is bought was listed and traded (the *)
(* score of a name exists only then), and what is held of a sector passes  *)
(* its cap by no more than the band a weight may lag behind its target.    *)
(*                                                                         *)
(* The pool of the complete pipeline: the frame of a symbol has a bar a    *)
(* day, whichever arm it came by, so two of its events lie at least as     *)
(* many days apart in the market as seconds on the synthetic clock.        *)
(***************************************************************************)
EXTENDS Backtester, FactorDesk, PointInTime, DailyPipeline, FiniteOrder, TLAPS

Inputs ==
    /\ session \in [Bars -> Bars]
    /\ signal \in [Bars -> Shares \cup {Unchanged}]
    /\ target \in [Bars -> Shares \cup {Unchanged}]
    /\ hold = HoldingsPath /\ hold \in [Bars -> Shares \cup {0}]

HeldAt(b)  == IF b = 0 THEN 0 ELSE hold[b]
Mark(b)    == hold[b] * Close[b]
CashAt(b)  == IF b = 0 THEN Capital ELSE equity[b] - Mark(b)
TradeOf(b) == IF hold[b] = HeldAt(b - 1) THEN NoFill
              ELSE Fill(hold[b] - HeldAt(b - 1), b, SessionEnd(b))

\* The log of fills up to bar n.
Logged(n) == [b \in Bars |-> IF b <= n THEN TradeOf(b) ELSE NoFill]

\* The first engine, over the bars it has walked.
Walked ==
    /\ bar \in 0 .. NumBars
    /\ equity \in [Bars -> Int]
    /\ position = HeldAt(bar) /\ cash = CashAt(bar)
    /\ fills = Logged(bar)
    /\ \A b \in 1 .. bar : CashAt(b) = CashAt(b - 1) + CashFlow(TradeOf(b))

\* The second engine, as far as it has repeated the first.
Repeated ==
    /\ pc \in {"walk", "price", "sum", "done"}
    /\ index \in 0 .. NumBars /\ total \in Int
    /\ equityV \in [Bars -> Int]
    /\ holdV = IF pc = "walk" THEN [b \in Bars |-> 0] ELSE hold
    /\ pc = "walk" => fillsV = Logged(0)
    /\ pc = "price" => fillsV = Logged(index)
    /\ pc \in {"sum", "done"} => fillsV = Logged(NumBars)
    /\ pc # "walk" => bar = NumBars
    /\ pc \in {"walk", "price"} => total = 0
    /\ pc = "sum" => /\ Capital + total = CashAt(index)
                     /\ \A b \in 1 .. index : equityV[b] = equity[b]
    /\ pc = "done" => equityV = equity

IInv == Inputs /\ Walked /\ Repeated

------------------------------------------------------------------------------
\* The parts of the assumption that most steps need: bars and positions are
\* integers.
LEMMA Sizes ==
    /\ NumBars \in Nat /\ NumBars > 0 /\ Delay \in Nat /\ Delay > 0
    /\ Bars \subseteq Int /\ Shares \cup {0} \subseteq Int /\ Capital \in Int
BY BacktestAssumption DEF Bars

\* Prices and rates are integers.
LEMMA Rates ==
    /\ \A b \in Bars : Open[b] \in Int /\ Close[b] \in Int /\ Volume[b] \in Int
    /\ MinSlip \in Int /\ MaxSlip \in Int /\ FeeRate \in Int /\ FeeCap \in Int
    /\ BuyTax \in Int /\ SellTax \in Int
BY BacktestAssumption DEF Bars

\* The decision in force at a bar is one of the positions, or flat.
LEMMA DecisionType ==
    ASSUME session \in [Bars -> Bars], target \in [Bars -> Shares \cup {Unchanged}],
           NEW b \in Bars
    PROVE  Decision(b) \in Shares \cup {0}
<1> DEFINE given == {a \in 1 .. b : session[a] = session[b] /\ target[a] # Unchanged}
<1>1. CASE given = {}
  BY <1>1 DEF Decision
<1>2. CASE given # {}
  <2>1. given \in SUBSET Int /\ IsFiniteSet(given)
    <3>1. IsFiniteSet(1 .. b)
      BY Sizes, FS_Interval
    <3>2. given \in SUBSET Int /\ given \subseteq 1 .. b
      BY Sizes
    <3> QED BY <3>1, <3>2, FS_Subset
  <2>2. \E a \in given : \A c \in given : c <= a
    BY <1>2, <2>1, GreatestElement
  <2>3. PICK a \in given : a = CHOOSE x \in given : \A c \in given : c <= x
    BY <2>2
  <2>4. a \in Bars /\ target[a] # Unchanged
    BY <2>2, <2>3, Sizes DEF Bars
  <2>5. Decision(b) = target[a]
    BY <1>2, <2>3 DEF Decision
  <2> QED BY <2>4, <2>5
<1> QED BY <1>1, <1>2

\* Both ways of shifting the decisions give the same holdings.
LEMMA SamePath ==
    ASSUME session \in [Bars -> Bars], target \in [Bars -> Shares \cup {Unchanged}]
    PROVE  Holdings = HoldingsPath /\ HoldingsPath \in [Bars -> Shares \cup {0}]
<1>1. ASSUME NEW b \in Bars
      PROVE  /\ Holdings[b] = HoldingsPath[b]
             /\ HoldingsPath[b] \in Shares \cup {0}
  <2>1. b - Delay \in Bars <=> ~ (b - Delay < 1)
    BY Sizes DEF Bars
  <2>2. b - Delay \in Bars => Decision(b - Delay) \in Shares \cup {0}
    BY DecisionType
  <2>3. session[b] # 0
    BY Sizes DEF Bars
  <2> QED BY <2>1, <2>2, <2>3
          DEF Holdings, HoldingsPath, ShiftedDecision, ShiftedSession
<1> QED BY <1>1 DEF Holdings, HoldingsPath

\* What a fill is made of.
LEMMA FillFacts ==
    ASSUME NEW delta \in Int, NEW b \in Bars, NEW closing
    PROVE  /\ Fill(delta, b, closing).delta = delta
           /\ Fill(delta, b, closing).price \in Int
           /\ Fill(delta, b, closing).cost \in Int
           /\ Fill(delta, b, closing).reason
                 = IF closing THEN "square_off" ELSE "rebalance"
<1>1. FillPrice(delta, b) \in Int
  BY Rates DEF FillPrice, Slip
<1>2. ASSUME NEW price \in Int PROVE Cost(delta, price) \in Int
  <2> DEFINE turnover == price * Quantity(delta)
  <2>1. turnover \in Int
    BY DEF Quantity
  <2>2. FeeRate * turnover \in Int
    BY <2>1, Rates
  <2>3. turnover * (IF delta > 0 THEN BuyTax ELSE SellTax) \in Int
    BY <2>1, Rates
  <2> HIDE DEF turnover
  <2>4. (IF FeeRate * turnover < FeeCap THEN FeeRate * turnover ELSE FeeCap) \in Int
    BY <2>2, Rates
  <2>5. Cost(delta, price) = (IF FeeRate * turnover < FeeCap THEN FeeRate * turnover
                                                             ELSE FeeCap)
                             + turnover * (IF delta > 0 THEN BuyTax ELSE SellTax)
    BY DEF Cost, turnover
  <2> QED BY <2>3, <2>4, <2>5
<1> QED BY <1>1, <1>2 DEF Fill

\* The cash that the log moves at a bar is an integer.
LEMMA FlowFacts ==
    ASSUME hold \in [Bars -> Shares \cup {0}], NEW b \in Bars
    PROVE  CashFlow(TradeOf(b)) \in Int
<1>1. HeldAt(b - 1) \in Int /\ hold[b] \in Int
  BY Sizes DEF HeldAt, Bars
<1>2. CASE hold[b] = HeldAt(b - 1)
  BY <1>2 DEF TradeOf, CashFlow, NoFill
<1>3. CASE hold[b] # HeldAt(b - 1)
  <2>1. TradeOf(b).delta \in Int /\ TradeOf(b).price \in Int /\ TradeOf(b).cost \in Int
    BY <1>1, <1>3, FillFacts DEF TradeOf
  <2> QED BY <2>1 DEF CashFlow
<1> QED BY <1>2, <1>3

\* The mark of a position and the cash left at a bar are integers.
LEMMA MarkFacts ==
    ASSUME hold \in [Bars -> Shares \cup {0}], equity \in [Bars -> Int]
    PROVE  /\ \A b \in Bars : Mark(b) \in Int
           /\ \A b \in 0 .. NumBars : CashAt(b) \in Int
<1>1. ASSUME NEW b \in Bars PROVE Mark(b) \in Int
  <2>1. hold[b] \in Int /\ Close[b] \in Int
    BY Sizes, Rates
  <2> QED BY <2>1 DEF Mark
<1>2. ASSUME NEW b \in 0 .. NumBars PROVE CashAt(b) \in Int
  <2>1. b # 0 => b \in Bars
    BY Sizes DEF Bars
  <2> QED BY <1>1, <2>1, Sizes DEF CashAt
<1> QED BY <1>1, <1>2

\* One more bar of the log.
LEMMA LogGrows ==
    ASSUME NEW n \in 0 .. NumBars, n < NumBars, hold \in [Bars -> Shares \cup {0}]
    PROVE  /\ hold[n + 1] = HeldAt(n) => Logged(n + 1) = Logged(n)
           /\ hold[n + 1] # HeldAt(n) =>
                Logged(n + 1) =
                   [Logged(n) EXCEPT ![n + 1] =
                       Fill(hold[n + 1] - HeldAt(n), n + 1, SessionEnd(n + 1))]
           /\ n + 1 \in Bars /\ HeldAt(n) \in Int /\ hold[n + 1] \in Int
<1>1. n + 1 \in Bars /\ (n + 1) - 1 = n /\ (n # 0 => n \in Bars)
  BY Sizes DEF Bars
<1>2. HeldAt(n) \in Int /\ hold[n + 1] \in Int
  BY <1>1, Sizes DEF HeldAt
<1>3. \A b \in Bars : b <= n + 1 <=> b <= n \/ b = n + 1
  BY Sizes
<1>4. ~ (n + 1 <= n)
  OBVIOUS
<1>5. CASE hold[n + 1] = HeldAt(n)
  <2>1. TradeOf(n + 1) = NoFill
    BY <1>1, <1>5 DEF TradeOf
  <2> QED BY <1>1, <1>2, <1>3, <1>4, <1>5, <2>1 DEF Logged
<1>6. CASE hold[n + 1] # HeldAt(n)
  <2>1. TradeOf(n + 1) = Fill(hold[n + 1] - HeldAt(n), n + 1, SessionEnd(n + 1))
    BY <1>1, <1>6 DEF TradeOf
  <2> QED BY <1>1, <1>2, <1>3, <1>4, <1>6, <2>1 DEF Logged
<1> QED BY <1>5, <1>6

\* What is computed from the strategy alone stays.
LEMMA Kept ==
    ASSUME UNCHANGED <<strategy, hold>>
    PROVE  /\ Inputs => Inputs'
           /\ \A n : Logged(n)' = Logged(n)
           /\ \A b : TradeOf(b)' = TradeOf(b)
           /\ \A b : HeldAt(b)' = HeldAt(b)
           /\ \A b : Mark(b)' = Mark(b)
<1>1. \A b : SessionEnd(b)' = SessionEnd(b)
  BY DEF SessionEnd, strategy
<1>2. \A b : Decision(b)' = Decision(b)
  BY DEF Decision, strategy
<1>3. HoldingsPath' = HoldingsPath
  BY <1>1, <1>2 DEF HoldingsPath, strategy
<1>4. \A b : HeldAt(b)' = HeldAt(b)
  BY DEF HeldAt
<1>5. \A b : TradeOf(b)' = TradeOf(b)
  BY <1>1, <1>4 DEF TradeOf
<1>6. \A n : Logged(n)' = Logged(n)
  BY <1>5 DEF Logged
<1> QED BY <1>3, <1>4, <1>5, <1>6 DEF Inputs, Mark, strategy

------------------------------------------------------------------------------
\* Before the first bar nothing is logged.
LEMMA Starts == Init => IInv
<1> SUFFICES ASSUME Init PROVE IInv
  OBVIOUS
<1>1. Inputs
  <2>1. session \in [Bars -> Bars]
    BY DEF Init
  <2>2. signal \in [Bars -> Shares \cup {Unchanged}]
    BY DEF Init
  <2>3. target \in [Bars -> Shares \cup {Unchanged}]
    BY <2>2 DEF Init, SampleTargets
  <2> QED BY <2>1, <2>2, <2>3, SamePath DEF Init, Inputs
<1>2. Logged(0) = [b \in Bars |-> NoFill]
  BY Sizes DEF Logged, Bars
<1> QED BY <1>1, <1>2, Sizes DEF Init, IInv, Walked, Repeated, HeldAt, CashAt

\* A bar of the first engine: one more fill of the log, and the cash it leaves.
LEMMA WalkBarKeeps == IInv /\ WalkBar => IInv'
<1> SUFFICES ASSUME IInv, WalkBar PROVE IInv'
  OBVIOUS
<1>0. PICK n : n = bar + 1
  OBVIOUS
<1>1. /\ bar \in 0 .. NumBars /\ bar < NumBars /\ bar' = n
      /\ hold \in [Bars -> Shares \cup {0}] /\ equity \in [Bars -> Int]
      /\ UNCHANGED <<strategy, pc, hold, second>>
  BY <1>0 DEF WalkBar, IInv, Walked, Inputs
<1>2. /\ n \in Bars /\ n \in Int /\ n - 1 = bar
      /\ HeldAt(bar) = position /\ position \in Int /\ hold[n] \in Int
      /\ n # 0 /\ n \in 0 .. NumBars
  <2>1. n \in Bars /\ HeldAt(bar) \in Int /\ hold[n] \in Int
    BY <1>0, <1>1, LogGrows
  <2>2. n \in Int /\ n - 1 = bar /\ n # 0 /\ n \in 0 .. NumBars
    BY <1>0, <1>1, Sizes
  <2> QED BY <2>1, <2>2 DEF IInv, Walked
<1>3. \A b \in Bars : Mark(b) \in Int /\ CashFlow(TradeOf(b)) \in Int
  BY <1>1, MarkFacts, FlowFacts
<1>4. fills' = Logged(n) /\ position' = hold[n]
      /\ cash' = cash + CashFlow(TradeOf(n))
  <2>1. CASE hold[n] = position
    <3>1. TradeOf(n) = NoFill /\ Logged(n) = Logged(bar)
      BY <1>0, <1>1, <1>2, <2>1, LogGrows DEF TradeOf
    <3>2. hold[n] - position = 0 /\ CashFlow(NoFill) = 0
      <4>1. hold[n] - position = 0
        BY <1>2, <2>1
      <4>2. CashFlow(NoFill) = 0
        <5>1. NoFill.price = 0 /\ NoFill.delta = 0 /\ NoFill.cost = 0
          BY DEF NoFill
        <5> QED BY <5>1 DEF CashFlow
      <4> QED BY <4>1, <4>2
    <3>3. UNCHANGED <<cash, position, fills>>
      BY <1>1, <3>2 DEF WalkBar
    <3>4. cash \in Int /\ fills = Logged(bar)
      BY <1>1, MarkFacts DEF IInv, Walked
    <3> QED BY <2>1, <3>1, <3>2, <3>3, <3>4
  <2>2. CASE hold[n] # position
    <3>1. hold[n] - position # 0
      BY <1>2, <2>2
    <3>2. TradeOf(n) = Fill(hold[n] - position, n, SessionEnd(n))
      BY <1>2, <2>2 DEF TradeOf
    <3>3. Logged(n) =
            [fills EXCEPT ![n] = Fill(hold[n] - position, n, SessionEnd(n))]
      BY <1>0, <1>1, <1>2, <2>2, LogGrows DEF IInv, Walked
    <3> QED BY <1>1, <3>1, <3>2, <3>3 DEF WalkBar
  <2> QED BY <2>1, <2>2
<1>5. cash \in Int /\ cash' \in Int /\ cash = CashAt(bar)
  BY <1>1, <1>2, <1>3, <1>4, MarkFacts DEF IInv, Walked
<1>6. equity' = [equity EXCEPT ![n] = cash' + Mark(n)]
  BY <1>1, <1>4 DEF WalkBar, Mark
<1>7. \A b \in 0 .. bar : CashAt(b)' = CashAt(b)
  BY <1>1, <1>2, <1>6, Kept DEF CashAt, Bars
<1>8. CashAt(n)' = cash'
  <2>1. CashAt(n)' = equity'[n] - Mark(n)
    BY <1>1, <1>2, Kept DEF CashAt
  <2> QED BY <1>1, <1>2, <1>3, <1>5, <1>6, <2>1
<1>9. Walked'
  <2>1. equity' \in [Bars -> Int]
    BY <1>1, <1>3, <1>2, <1>5, <1>6
  <2>2. (position = HeldAt(bar))' /\ (cash = CashAt(bar))'
    <3>1. (HeldAt(bar))' = hold[n]
      BY <1>1, <1>2 DEF HeldAt
    <3>2. (CashAt(bar))' = CashAt(n)'
      BY <1>1, Kept DEF CashAt
    <3> QED BY <1>4, <1>8, <3>1, <3>2
  <2>3. (fills = Logged(bar))'
    BY <1>1, <1>4, Kept DEF Logged
  <2>4. ASSUME NEW b \in 1 .. n
        PROVE  CashAt(b)' = CashAt(b - 1)' + CashFlow(TradeOf(b)')
    <3>1. CASE b = n
      <4>1. CashAt(b)' = cash'
        BY <1>8, <3>1
      <4>2. CashAt(b - 1)' = cash
        <5>1. b - 1 \in 0 .. bar /\ b - 1 = bar
          BY <1>1, <1>2, <3>1
        <5> QED BY <1>5, <1>7, <5>1
      <4>3. TradeOf(b)' = TradeOf(n)
        BY <1>1, <3>1, Kept
      <4> QED BY <1>4, <4>1, <4>2, <4>3
    <3>2. CASE b # n
      <4>1. b \in 1 .. bar /\ b \in 0 .. bar /\ b - 1 \in 0 .. bar
        BY <1>0, <1>1, <1>2, <3>2
      <4>2. CashAt(b) = CashAt(b - 1) + CashFlow(TradeOf(b))
        BY <4>1 DEF IInv, Walked
      <4> QED BY <1>1, <1>7, <4>1, <4>2, Kept
    <3> QED BY <3>1, <3>2
  <2>5. bar' \in 0 .. NumBars
    BY <1>1, <1>2
  <2> QED BY <1>1, <2>1, <2>2, <2>3, <2>4, <2>5 DEF Walked, CashFlow
<1>10. Repeated'
  <2>1. pc = "walk" /\ pc' = "walk"
    BY <1>1 DEF WalkBar
  <2> QED BY <1>1, <2>1, Kept DEF IInv, Repeated, second
<1> QED BY <1>1, <1>9, <1>10, Kept DEF IInv
\* While the second engine runs the first is at rest.
LEMMA FirstKept ==
    ASSUME IInv, UNCHANGED <<strategy, first>>
    PROVE  /\ Inputs' /\ Walked'
           /\ \A b \in 0 .. NumBars : CashAt(b)' = CashAt(b)
<1>1. UNCHANGED <<strategy, hold>> /\ UNCHANGED <<bar, cash, position, fills, equity>>
  BY DEF first
<1>2. \A b : CashAt(b)' = CashAt(b)
  BY <1>1, Kept DEF CashAt
<1>3. /\ HeldAt(bar)' = HeldAt(bar) /\ CashAt(bar)' = CashAt(bar)
      /\ Logged(bar)' = Logged(bar)
  BY <1>1, <1>2, Kept DEF HeldAt, CashAt, Logged
<1> QED BY <1>1, <1>2, <1>3, Kept DEF IInv, Walked, CashFlow

\* The second engine starts from the same holdings.
LEMMA StartSecondKeeps == IInv /\ StartSecond => IInv'
<1> SUFFICES ASSUME IInv, StartSecond PROVE IInv'
  OBVIOUS
<1>1. UNCHANGED <<strategy, hold>> /\ UNCHANGED <<strategy, first>>
  BY DEF StartSecond, first
<1>2. holdV' = hold'
  BY <1>1, SamePath DEF StartSecond, IInv, Inputs
<1>3. fillsV' = Logged(0) /\ total' = 0 /\ bar' = NumBars /\ pc' = "price" /\ index' = 0
  BY <1>1 DEF StartSecond, first, IInv, Repeated
<1>4. Logged(index)' = Logged(0)
  BY <1>1, <1>3, Kept DEF Logged
<1>5. equityV' \in [Bars -> Int] /\ index' \in 0 .. NumBars
  BY <1>3, Sizes DEF StartSecond, IInv, Repeated
<1> QED BY <1>1, <1>2, <1>3, <1>4, <1>5, FirstKept DEF IInv, Repeated

\* One more fill of the second log: the one the first engine logged there.
LEMMA PriceTradeKeeps == IInv /\ PriceTrade => IInv'
<1> SUFFICES ASSUME IInv, PriceTrade PROVE IInv'
  OBVIOUS
<1>0. PICK n : n = index
  OBVIOUS
<1>1. /\ UNCHANGED <<strategy, hold>> /\ UNCHANGED <<strategy, first>>
      /\ UNCHANGED <<pc, holdV, total, equityV, bar>> /\ pc = "price"
      /\ n \in 0 .. NumBars /\ n < NumBars /\ index' = n + 1
      /\ hold \in [Bars -> Shares \cup {0}] /\ holdV = hold /\ fillsV = Logged(n)
  BY <1>0 DEF PriceTrade, first, IInv, Inputs, Repeated
<1>2. n + 1 \in Bars /\ HeldAt(n) \in Int /\ hold[n + 1] \in Int
  BY <1>1, LogGrows
<1>3. DeltaV(n + 1) = hold[n + 1] - HeldAt(n)
  BY <1>1, <1>2 DEF DeltaV, HeldAt
<1>4. DeltaV(n + 1) = 0 <=> hold[n + 1] = HeldAt(n)
  BY <1>2, <1>3
<1>5. fillsV' = Logged(n + 1)
  <2>1. CASE hold[n + 1] = HeldAt(n)
    BY <1>1, <1>4, <2>1, LogGrows DEF PriceTrade
  <2>2. CASE hold[n + 1] # HeldAt(n)
    BY <1>1, <1>3, <1>4, <2>2, LogGrows DEF PriceTrade
  <2> QED BY <2>1, <2>2
<1>6. Logged(index)' = Logged(n + 1)
  BY <1>1, Kept DEF Logged
<1>7. index' \in 0 .. NumBars
  BY <1>1, Sizes
<1> QED BY <1>1, <1>5, <1>6, <1>7, FirstKept DEF IInv, Repeated

\* With every bar priced the logs are equal.
LEMMA StartSumKeeps == IInv /\ StartSum => IInv'
<1> SUFFICES ASSUME IInv, StartSum PROVE IInv'
  OBVIOUS
<1>1. /\ UNCHANGED <<strategy, hold>> /\ UNCHANGED <<strategy, first>>
      /\ UNCHANGED <<holdV, total, fillsV, equityV, bar, hold>>
      /\ pc = "price" /\ pc' = "sum" /\ index = NumBars /\ index' = 0
  BY DEF StartSum, first
<1>2. fillsV' = Logged(NumBars) /\ Logged(NumBars)' = Logged(NumBars)
  BY <1>1, Kept DEF IInv, Repeated
<1>3. Capital + total' = CashAt(index)'
  <2>1. CashAt(index)' = Capital
    BY <1>1 DEF CashAt
  <2> QED BY <1>1, <2>1, Sizes DEF IInv, Repeated
<1>4. index' \in 0 .. NumBars /\ 1 .. index' = {}
  BY <1>1, Sizes
<1> QED BY <1>1, <1>2, <1>3, <1>4, FirstKept DEF IInv, Repeated

\* The sum of the flows is the cash the first engine had at the bar.
LEMMA SumBarKeeps == IInv /\ SumBar => IInv'
<1> SUFFICES ASSUME IInv, SumBar PROVE IInv'
  OBVIOUS
<1>0. PICK n : n = index + 1
  OBVIOUS
<1>1. /\ UNCHANGED <<strategy, hold>> /\ UNCHANGED <<strategy, first>>
      /\ UNCHANGED <<pc, hold, holdV, fillsV, bar, equity>> /\ pc = "sum"
      /\ index \in 0 .. NumBars /\ index < NumBars /\ index' = n
      /\ hold \in [Bars -> Shares \cup {0}] /\ equity \in [Bars -> Int]
      /\ equityV \in [Bars -> Int] /\ total \in Int
      /\ holdV = hold /\ fillsV = Logged(NumBars) /\ bar = NumBars
      /\ Capital + total = CashAt(index)
  BY <1>0 DEF SumBar, first, IInv, Inputs, Walked, Repeated
<1>2. /\ n \in Bars /\ n \in Int /\ n - 1 = index /\ n \in 1 .. bar
      /\ n \in 0 .. NumBars /\ n # 0
  BY <1>0, <1>1, Sizes DEF Bars
<1>3. CashFlow(TradeOf(n)) \in Int /\ Mark(n) \in Int /\ CashAt(n) \in Int
  BY <1>1, <1>2, FlowFacts, MarkFacts
<1>4. fillsV[n] = TradeOf(n)
  BY <1>1, <1>2, Sizes DEF Logged, Bars
<1>5. total' = total + CashFlow(TradeOf(n))
  BY <1>1, <1>4 DEF SumBar
<1>6. CashAt(n) = CashAt(index) + CashFlow(TradeOf(n))
  BY <1>2 DEF IInv, Walked
<1>7. total' \in Int /\ Capital + total' = CashAt(n)
  BY <1>1, <1>3, <1>5, <1>6, Sizes
<1>8. equityV' = [equityV EXCEPT ![n] = CashAt(n) + Mark(n)]
  BY <1>1, <1>7 DEF SumBar, Mark
<1>9. CashAt(n) + Mark(n) = equity[n]
  <2>1. CashAt(n) = equity[n] - Mark(n) /\ equity[n] \in Int
    BY <1>1, <1>2 DEF CashAt
  <2> QED BY <1>3, <2>1
<1>10. ASSUME NEW b \in 1 .. n PROVE equityV'[b] = equity[b]
  <2>1. b = n \/ b \in 1 .. index
    BY <1>0, <1>1
  <2>2. b \in Bars
    BY <1>2, Sizes DEF Bars
  <2>3. CASE b = n
    BY <1>1, <1>2, <1>8, <1>9, <2>3
  <2>4. CASE b # n
    <3>1. equityV[b] = equity[b]
      BY <1>1, <2>1, <2>4 DEF IInv, Repeated
    <3> QED BY <1>1, <1>8, <2>2, <2>4, <3>1
  <2> QED BY <2>3, <2>4
<1>11. equityV' \in [Bars -> Int]
  BY <1>1, <1>2, <1>3, <1>8, <1>9
<1>12. CashAt(index)' = CashAt(n)
  BY <1>1, Kept DEF CashAt
<1>13. Logged(NumBars)' = Logged(NumBars)
  BY <1>1, Kept
<1> QED BY <1>1, <1>2, <1>7, <1>10, <1>11, <1>12, <1>13, FirstKept
        DEF IInv, Repeated

\* With every bar summed the curves are equal.
LEMMA FinishKeeps == IInv /\ Finish => IInv'
<1> SUFFICES ASSUME IInv, Finish PROVE IInv'
  OBVIOUS
<1>1. /\ UNCHANGED <<strategy, hold>> /\ UNCHANGED <<strategy, first>>
      /\ UNCHANGED <<hold, holdV, index, total, fillsV, equityV, bar, equity>>
      /\ pc = "sum" /\ pc' = "done" /\ index = NumBars
  BY DEF Finish, first, second
<1>2. equityV = equity
  BY <1>1 DEF IInv, Walked, Repeated, Bars
<1>3. Logged(NumBars)' = Logged(NumBars)
  BY <1>1, Kept
<1> QED BY <1>1, <1>2, <1>3, FirstKept DEF IInv, Repeated

------------------------------------------------------------------------------
\* The invariant holds of every run of the two engines, for every strategy,
\* session calendar, delay, price and cost rate (Backtester.run followed by
\* VectorizedBacktester.run).
THEOREM Invariance == Spec => []IInv
<1>1. ASSUME IInv, UNCHANGED vars PROVE IInv'
  <2>1. /\ UNCHANGED <<strategy, hold>> /\ UNCHANGED <<strategy, first>>
        /\ UNCHANGED <<hold, holdV, index, total, fillsV, equityV, bar, equity, pc>>
    BY <1>1 DEF vars, first, second
  <2>2. \A b : Logged(b)' = Logged(b)
    BY <2>1, Kept
  <2>3. CashAt(index)' = CashAt(index) /\ Logged(index)' = Logged(index)
    BY <2>1, Kept DEF CashAt, Logged
  <2> QED BY <1>1, <2>1, <2>2, <2>3, FirstKept DEF IInv, Repeated
<1>2. IInv /\ [Next]_vars => IInv'
  BY <1>1, WalkBarKeeps, StartSecondKeeps, PriceTradeKeeps, StartSumKeeps, SumBarKeeps,
     FinishKeeps DEF Next
<1> QED BY <1>2, Starts, PTL DEF Spec

\* The implementation-risk check of reconcile_engines can only fail on rounding:
\* the two engines make the same fills and draw the same curve.
THEOREM Reconciliation == Spec => []EnginesReconcile
<1>1. IInv => EnginesReconcile
  BY DEF IInv, Walked, Repeated, EnginesReconcile
<1> QED BY <1>1, Invariance, PTL

\* No position is ever carried overnight by Backtester.run: on the last bar of a
\* session the holdings path is zero whatever the targets ask for.
THEOREM FlatSessions == Spec => []FlatOvernight
<1>1. IInv => FlatOvernight
  <2> SUFFICES ASSUME IInv, bar > 0, LastOfSession(bar) PROVE
          /\ position = 0 /\ equity[bar] = cash
          /\ fills[bar] # NoFill => fills[bar].reason = "square_off"
    BY DEF FlatOvernight
  <2>1. /\ bar \in Bars /\ bar # 0 /\ bar <= bar
        /\ hold \in [Bars -> Shares \cup {0}] /\ equity \in [Bars -> Int]
    <3>1. bar \in 0 .. NumBars
      BY DEF IInv, Walked
    <3>2. bar \in Bars /\ bar # 0 /\ bar <= bar
      BY <3>1, Sizes DEF Bars
    <3> QED BY <3>2 DEF IInv, Walked, Inputs
  <2>6. SessionEnd(bar)
    <3>1. bar # NumBars => bar + 1 \in Bars /\ bar + 1 > bar
      BY <2>1, Sizes DEF Bars
    <3>2. bar # NumBars => session[bar + 1] # session[bar]
      BY <3>1 DEF LastOfSession
    <3> QED BY <3>2 DEF SessionEnd
  <2>2. hold[bar] = 0
    BY <2>1, <2>6 DEF IInv, Inputs, HoldingsPath
  <2>3. position = 0
    BY <2>1, <2>2 DEF IInv, Walked, HeldAt
  <2>4. equity[bar] = cash
    <3>1. cash = equity[bar] - Mark(bar)
      BY <2>1 DEF IInv, Walked, CashAt
    <3>2. Mark(bar) = 0
      BY <2>1, <2>2, Rates DEF Mark
    <3> QED BY <2>1, <3>1, <3>2
  <2>5. fills[bar] # NoFill => fills[bar].reason = "square_off"
    <3>1. fills[bar] = TradeOf(bar)
      BY <2>1 DEF IInv, Walked, Logged
    <3> QED BY <3>1, <2>6 DEF TradeOf, Fill
  <2> QED BY <2>3, <2>4, <2>5
<1> QED BY <1>1, Invariance, PTL

\* Types: what is logged at a bar is no fill or a fill of something, with a
\* reason, and every holding is a position the strategy may want, or flat.
THEOREM TypeCorrect == Spec => []TypeOK
<1>1. ASSUME hold \in [Bars -> Shares \cup {0}], NEW n,
             NEW b \in Bars
      PROVE  Logged(n)[b] = NoFill \/ IsFill(Logged(n)[b])
  <2>1. HeldAt(b - 1) \in Int /\ hold[b] \in Int
    BY <1>1, Sizes DEF HeldAt, Bars
  <2>2. CASE hold[b] = HeldAt(b - 1)
    BY <2>2 DEF Logged, TradeOf
  <2>3. CASE hold[b] # HeldAt(b - 1)
    <3> DEFINE delta == hold[b] - HeldAt(b - 1)
    <3>1. delta \in Int /\ delta # 0
      BY <2>1, <2>3
    <3> HIDE DEF delta
    <3>2. IsFill(Fill(delta, b, SessionEnd(b)))
      BY <3>1, FillFacts DEF IsFill
    <3>3. TradeOf(b) = Fill(delta, b, SessionEnd(b))
      BY <2>3 DEF TradeOf, delta
    <3> QED BY <3>2, <3>3 DEF Logged
  <2> QED BY <2>2, <2>3
<1>2. IInv => TypeOK
  <2> SUFFICES ASSUME IInv PROVE TypeOK
    OBVIOUS
  <2>1. /\ hold \in [Bars -> Shares \cup {0}] /\ equity \in [Bars -> Int]
        /\ bar \in 0 .. NumBars /\ 0 \in 0 .. NumBars
    BY Sizes DEF IInv, Inputs, Walked
  <2>2. cash \in Int /\ position \in Shares \cup {0}
    <3>1. cash \in Int
      BY <2>1, MarkFacts DEF IInv, Walked
    <3>2. bar # 0 => bar \in Bars
      BY <2>1, Sizes DEF Bars
    <3> QED BY <2>1, <3>1, <3>2 DEF IInv, Walked, HeldAt
  <2>3. holdV \in [Bars -> Shares \cup {0}]
    BY <2>1 DEF IInv, Repeated
  <2>4. ASSUME NEW log \in {fills, fillsV}
        PROVE  DOMAIN log = Bars /\ \A b \in Bars : log[b] = NoFill \/ IsFill(log[b])
    <3>1. \E n : log = Logged(n)
      BY DEF IInv, Walked, Repeated
    <3>2. DOMAIN log = Bars
      BY <3>1 DEF Logged
    <3> QED BY <1>1, <2>1, <3>1, <3>2
  <2> QED BY <2>1, <2>2, <2>3, <2>4 DEF TypeOK, IInv, Inputs, Walked, Repeated
<1> QED BY <1>2, Invariance, PTL

------------------------------------------------------------------------------
(* The trader of MisTrader.  He knows the decisions of the session so far, so  *)
(* the bars of a session must follow each other: what Init says of neighbours  *)
(* is needed of any two bars.                                                  *)

Ordered == \A a, b \in Bars : a <= b => session[a] <= session[b]

\* Sessions come in order: take the first bar whose session is less than that of
\* an earlier one; the bar before it is none.
LEMMA SessionsAreOrdered == Init => Ordered
<1> SUFFICES ASSUME Init PROVE Ordered
  OBVIOUS
<1>1. /\ session \in [Bars -> Bars]
      /\ \A b \in Bars \ {1} : session[b] \in {session[b - 1], session[b - 1] + 1}
  BY DEF Init
<1>2. ASSUME NEW a \in Bars, NEW d \in Bars, a <= d, ~ (session[a] <= session[d])
      PROVE  FALSE
  <2> DEFINE Less == {b \in Bars : a <= b /\ ~ (session[a] <= session[b])}
  <2>1. Less \in SUBSET Int /\ Less # {} /\ IsFiniteSet(Less)
    <3>1. IsFiniteSet(Bars)
      BY Sizes, FS_Interval DEF Bars
    <3> QED BY <1>2, <3>1, Sizes, FS_Subset
  <2>2. PICK b \in Less : \A c \in Less : b <= c
    <3> HIDE DEF Less
    <3> QED BY <2>1, LeastElement
  <2>3. /\ b \in Bars /\ a \in Int /\ b \in Int /\ session[a] \in Int /\ session[b] \in Int
        /\ a # b /\ a <= b /\ ~ (session[a] <= session[b])
    <3>1. b \in Bars /\ a <= b /\ ~ (session[a] <= session[b])
      BY <2>2
    <3>2. a \in Int /\ b \in Int /\ session[a] \in Int /\ session[b] \in Int
      <4>1. session[a] \in Bars /\ session[b] \in Bars
        BY <1>1, <3>1
      <4> QED BY <3>1, <4>1, Sizes
    <3> QED BY <3>1, <3>2
  <2>4. b - 1 \in Bars /\ b \in Bars \ {1} /\ a <= b - 1
    BY <2>3, Sizes DEF Bars
  <2>5. session[b - 1] \in Int /\ session[b - 1] <= session[b]
    <3>1. session[b - 1] \in Bars
      BY <1>1, <2>4
    <3>2. session[b] = session[b - 1] \/ session[b] = session[b - 1] + 1
      BY <1>1, <2>4
    <3>3. session[b - 1] \in Int
      BY <3>1, Sizes
    <3> QED BY <3>2, <3>3
  <2>6. b - 1 \in Less
    BY <2>3, <2>4, <2>5
  <2> QED BY <2>2, <2>3, <2>6
<1> QED BY <1>2 DEF Ordered

\* The first bar of a session, and the bars from it on.
LEMMA SessionStart ==
    ASSUME session \in [Bars -> Bars], Ordered, NEW b \in Bars
    PROVE  /\ FirstOfSession(b) \in 1 .. b
           /\ \A c \in 1 .. b : session[c] = session[b] <=> FirstOfSession(b) <= c
<1> DEFINE same == {c \in 1 .. b : session[c] = session[b]}
           IsFirst(a) == /\ session[a] = session[b]
                         /\ \A c \in 1 .. a - 1 : session[c] # session[b]
<1>1. b \in Int /\ b >= 1 /\ b \in same /\ 1 .. b \subseteq Bars
  BY Sizes DEF Bars
<1>2. PICK a \in same : \A c \in same : a <= c
  <2>1. IsFiniteSet(1 .. b)
    BY <1>1, FS_Interval
  <2>2. same \in SUBSET Int /\ same # {} /\ IsFiniteSet(same)
    BY <1>1, <2>1, FS_Subset
  <2> HIDE DEF same
  <2> QED BY <2>2, LeastElement
<1>3. a \in 1 .. b /\ IsFirst(a)
  BY <1>1, <1>2
<1>4. FirstOfSession(b) \in 1 .. b /\ IsFirst(FirstOfSession(b))
  BY <1>3 DEF FirstOfSession
<1>5. ASSUME NEW c \in 1 .. b PROVE session[c] = session[b] <=> FirstOfSession(b) <= c
  <2> DEFINE from == FirstOfSession(b)
  <2>1. from \in 1 .. b /\ session[from] = session[b]
        /\ \A d \in 1 .. from - 1 : session[d] # session[b]
    BY <1>4
  <2> HIDE DEF from
  <2>2. from \in Bars /\ c \in Bars /\ session[c] \in Int /\ session[b] \in Int
    BY <1>1, <2>1, Sizes
  <2>3. from <= c => session[c] = session[b]
    BY <1>1, <2>1, <2>2 DEF Ordered
  <2>4. ~ (from <= c) => c \in 1 .. from - 1
    BY <1>1, <2>1
  <2>5. session[c] = session[b] <=> from <= c
    BY <2>1, <2>3, <2>4
  <2> QED BY <2>5 DEF from
<1> QED BY <1>4, <1>5

\* A bar with a target decides for itself; one without follows the bar before it,
\* if that is of its session, and is flat otherwise.
LEMMA DecisionFollows ==
    ASSUME session \in [Bars -> Bars], Ordered, NEW b \in Bars
    PROVE  Decision(b) = IF target[b] # Unchanged THEN target[b]
                         ELSE IF FirstOfSession(b) = b THEN 0 ELSE Decision(b - 1)
<1> DEFINE given(n) == {a \in 1 .. n : session[a] = session[n] /\ target[a] # Unchanged}
           latest(n) == CHOOSE a \in given(n) : \A c \in given(n) : c <= a
<1>1. b \in Int /\ b >= 1 /\ FirstOfSession(b) \in 1 .. b
      /\ \A c \in 1 .. b : session[c] = session[b] <=> FirstOfSession(b) <= c
  <2>1. b \in Int /\ b >= 1
    BY Sizes DEF Bars
  <2> QED BY <2>1, SessionStart
<1>2. \A n : Decision(n) = IF given(n) = {} THEN 0 ELSE target[latest(n)]
  BY DEF Decision
<1>3. CASE target[b] # Unchanged
  <2>1. b \in given(b) /\ \A c \in given(b) : c <= b
    <3>1. b \in 1 .. b /\ \A c \in 1 .. b : c <= b
      BY <1>1
    <3> QED BY ONLY <3>1, <1>3
  <2>2. \A a \in given(b) : (\A c \in given(b) : c <= a) => a = b
    BY <1>1, <2>1
  <2>3. latest(b) = b
    <3> HIDE DEF given
    <3> QED BY <2>1, <2>2
  <2> QED BY <1>2, <1>3, <2>1, <2>3
<1>4. CASE target[b] = Unchanged /\ FirstOfSession(b) = b
  <2>1. given(b) = {}
    BY <1>1, <1>4
  <2> QED BY <1>2, <1>4, <2>1
<1>5. CASE target[b] = Unchanged /\ FirstOfSession(b) # b
  <2>1. b - 1 \in 1 .. b /\ session[b - 1] = session[b]
    BY <1>1, <1>5
  <2>2. given(b) = given(b - 1)
    BY <1>1, <1>5, <2>1
  <2>3. Decision(b) = Decision(b - 1)
    <3> HIDE DEF given
    <3> QED BY <1>2, <2>2
  <2> QED BY <1>5, <2>3
<1> QED BY <1>3, <1>4, <1>5

\* A bar of the walk is a bar of the trader.
LEMMA WalkBarTrades == IInv /\ Ordered /\ WalkBar => Live!Trade
<1> SUFFICES ASSUME IInv, Ordered, WalkBar PROVE Live!Trade
  OBVIOUS
<1>0. PICK n : n = bar + 1
  OBVIOUS
<1>1. /\ bar \in 0 .. NumBars /\ bar < NumBars /\ bar' = n
      /\ session \in [Bars -> Bars] /\ target \in [Bars -> Shares \cup {Unchanged}]
      /\ session' = session /\ target' = target /\ hold' = hold
      /\ hold = HoldingsPath
  BY <1>0 DEF WalkBar, IInv, Walked, Inputs, strategy
<1>2. n \in Bars /\ n \in Int /\ n >= 1 /\ n - 1 = bar /\ bar \in Int /\ n # 0
  BY <1>0, <1>1, Sizes DEF Bars
<1>3. \A b : Decision(b)' = Decision(b) /\ FirstOfSession(b)' = FirstOfSession(b)
  BY <1>1 DEF Decision, FirstOfSession
<1> DEFINE from == FirstOfSession(n)
<1>4. /\ from \in 1 .. n
      /\ \A c \in 1 .. n : session[c] = session[n] <=> from <= c
  BY <1>1, <1>2, SessionStart
<1> HIDE DEF from
<1>5. Intents' = [k \in 1 .. n - from + 1 |-> Decision(from + k - 1)]
  BY <1>1, <1>2, <1>3 DEF Intents, from
<1>6. Live!Opens(n) <=> from = n
  BY <1>2, <1>4 DEF Live!Opens
<1> DEFINE before == IF Live!Opens(n) THEN <<>> ELSE Intents
<1>7. Intents' = Append(before, Live!Decided(before, n))
  <2>1. CASE from = n
    <3>1. Decision(n) = IF target[n] # Unchanged THEN target[n] ELSE 0
      BY <1>1, <1>2, <2>1, DecisionFollows DEF from
    <3>2. before = <<>> /\ Live!Decided(<<>>, n) = Decision(n)
      BY <1>6, <2>1, <3>1 DEF Live!Decided
    <3>3. Intents' = <<Decision(n)>>
      BY <1>2, <1>5, <2>1
    <3> QED BY <3>2, <3>3
  <2>2. CASE from # n
    <3>1. bar \in Bars /\ bar # 0 /\ from <= bar /\ session[bar] = session[n]
      BY <1>1, <1>2, <1>4, <2>2, Sizes DEF Bars
    <3>2. FirstOfSession(bar) = from
      <4> DEFINE other == FirstOfSession(bar)
      <4>1. /\ other \in 1 .. bar
            /\ \A c \in 1 .. bar : session[c] = session[bar] <=> other <= c
        BY <1>1, <3>1, SessionStart
      <4> HIDE DEF other
      <4>2. other \in 1 .. n /\ from \in 1 .. bar
        BY <1>2, <1>4, <3>1, <4>1
      <4>3. from <= other /\ other <= from
        BY <1>4, <3>1, <4>1, <4>2
      <4>4. other = from
        BY <1>4, <4>1, <4>3
      <4> QED BY <4>4 DEF other
    <3>3. Intents = [k \in 1 .. bar - from + 1 |-> Decision(from + k - 1)]
      BY <3>1, <3>2 DEF Intents
    <3>4. Decision(n) = IF target[n] # Unchanged THEN target[n] ELSE Decision(bar)
      BY <1>1, <1>2, <2>2, DecisionFollows DEF from
    <3> DEFINE m == bar - from + 1
    <3>5. m \in Nat /\ m > 0 /\ n - from + 1 = m + 1 /\ from + m - 1 = bar
          /\ from + (m + 1) - 1 = n
      BY <1>2, <1>4, <3>1
    <3>6. Len(Intents) = m /\ Intents[m] = Decision(bar)
      BY <3>3, <3>5
    <3>7. before = Intents /\ Intents # <<>>
      BY <1>6, <2>2, <3>3, <3>5
    <3>8. Live!Decided(Intents, n) = Decision(n)
      BY <3>4, <3>6, <3>7 DEF Live!Decided
    <3>9. Intents' = Append(Intents, Decision(n))
      BY <1>5, <3>3, <3>5
    <3> QED BY <3>7, <3>8, <3>9
  <2> QED BY <2>1, <2>2
<1>8. Len(Intents') = n - from + 1
  BY <1>2, <1>4, <1>5
<1>9. position' = hold[n]
  <2>1. position = HeldAt(bar) /\ hold \in [Bars -> Shares \cup {0}]
    BY DEF IInv, Walked, Inputs
  <2>2. position \in Int /\ hold[n] \in Int
    BY <1>0, <1>1, <1>2, <2>1, LogGrows
  <2>3. hold[n] - position = 0 => position' = position
    BY <1>1 DEF WalkBar
  <2>4. hold[n] - position # 0 => position' = hold[n]
    BY <1>1 DEF WalkBar
  <2> QED BY <2>2, <2>3, <2>4
<1>10. Live!Closes(n) <=> SessionEnd(n)
  BY DEF Live!Closes, SessionEnd
<1>11. position' = IF Live!Closes(n) \/ Len(Intents') <= Delay THEN 0
                   ELSE Intents'[Len(Intents') - Delay]
  <2>0. hold[n] = IF SessionEnd(n) \/ n - Delay < 1 THEN 0
                  ELSE IF session[n] = session[n - Delay] THEN Decision(n - Delay) ELSE 0
    BY <1>1, <1>2 DEF HoldingsPath
  <2>1. CASE SessionEnd(n)
    BY <1>9, <1>10, <2>0, <2>1
  <2>2. CASE ~ SessionEnd(n) /\ n - Delay < 1
    <3>1. Len(Intents') <= Delay
      BY <1>2, <1>4, <1>8, <2>2, Sizes
    <3> QED BY <1>9, <2>0, <2>2, <3>1
  <2>3. CASE ~ SessionEnd(n) /\ ~ (n - Delay < 1)
    <3>1. n - Delay \in 1 .. n
      BY <1>2, <2>3, Sizes
    <3>2. Len(Intents') <= Delay <=> ~ (from <= n - Delay)
      BY <1>2, <1>4, <1>8, Sizes
    <3>3. session[n] = session[n - Delay] <=> from <= n - Delay
      BY <1>4, <3>1
    <3>4. CASE ~ (from <= n - Delay)
      BY <1>9, <2>0, <2>3, <3>2, <3>3, <3>4
    <3>5. CASE from <= n - Delay
      <4>1. Len(Intents') - Delay \in 1 .. n - from + 1
            /\ from + (Len(Intents') - Delay) - 1 = n - Delay
        BY <1>2, <1>4, <1>8, <3>1, <3>5, Sizes
      <4>2. Intents'[Len(Intents') - Delay] = Decision(n - Delay)
        BY <1>5, <4>1
      <4> QED BY <1>9, <1>10, <2>0, <2>3, <3>2, <3>3, <3>5, <4>2
    <3> QED BY <3>4, <3>5
  <2> QED BY <2>1, <2>2, <2>3
<1> QED BY <1>0, <1>1, <1>7, <1>11 DEF Live!Trade

\* No look-ahead: at every bar Backtester.run holds what a trader would who reads
\* each target on its own bar and waits, though _holdings_path is computed from
\* all targets at once.
THEOREM NoLookAhead == Spec => ImplementsTrader
<1>1. Init => Live!Begin
  BY DEF Init, Live!Begin, Intents
<1>2. ASSUME IInv, Ordered, [Next]_vars
      PROVE  [Live!Trade]_<<bar, Intents, position>>
  <2>1. CASE WalkBar
    BY <1>2, <2>1, WalkBarTrades
  <2>2. ASSUME UNCHANGED <<strategy, first>>
        PROVE  UNCHANGED <<bar, Intents, position>>
    <3>1. session' = session /\ target' = target /\ bar' = bar /\ position' = position
      BY <2>2 DEF strategy, first
    <3>2. \A b : Decision(b)' = Decision(b) /\ FirstOfSession(b)' = FirstOfSession(b)
      BY <3>1 DEF Decision, FirstOfSession
    <3> QED BY <3>1, <3>2 DEF Intents
  <2>3. CASE StartSecond \/ PriceTrade \/ StartSum \/ SumBar \/ Finish \/ UNCHANGED vars
    <3>1. UNCHANGED <<strategy, first>>
      BY <2>3 DEF StartSecond, PriceTrade, StartSum, SumBar, Finish, vars
    <3> QED BY <2>2, <3>1
  <2> QED BY <1>2, <2>1, <2>3 DEF Next
<1>3. Ordered /\ [Next]_vars => Ordered'
  <2>1. [Next]_vars => session' = session
    BY DEF Next, WalkBar, StartSecond, PriceTrade, StartSum, SumBar, Finish, vars, strategy
  <2> QED BY <2>1 DEF Ordered
<1> QED BY <1>1, <1>2, <1>3, SessionsAreOrdered, Invariance, PTL
        DEF Spec, ImplementsTrader, Live!Spec

------------------------------------------------------------------------------
(* The books of the factor gate.                                           *)

\* A close is adjusted on the days the name traded, a return needs two of them, and
\* a volatility every return of its window.
LEMMA TradedThrough ==
    ASSUME NEW c, NEW n \in Nat, NEW t \in 1 .. n,
           Volatility([i \in 1 .. n |-> SimpleReturn(c, i)], t) # NaN
    PROVE  \A i \in Days(t, VolWindow + 1) : i \in 1 .. n /\ c[i] # NaN
<1> DEFINE r == [i \in 1 .. n |-> SimpleReturn(c, i)]
<1>1. VolWindow \in Nat /\ VolWindow >= 2
  BY SignalsAssumption
<1>2. t >= VolWindow /\ Defined(r, Days(t, VolWindow))
  <2>1. Volatility(r, t) # NaN
    OBVIOUS
  <2> HIDE DEF r
  <2>2. RollingMean(r, t, VolWindow) # NaN
    BY <2>1 DEF Volatility, Total
  <2>3. ~ (t < VolWindow) /\ Defined(r, Days(t, VolWindow))
    BY <2>2 DEF RollingMean
  <2> QED BY <2>3, <1>1
<1>3. \A i \in 1 .. n : r[i] # NaN => i # 1 /\ c[i] # NaN /\ c[i - 1] # NaN
  BY DEF SimpleReturn
<1> HIDE DEF r
<1>4. ASSUME NEW i \in Days(t, VolWindow)
      PROVE  i \in 1 .. n /\ i # 1 /\ c[i] # NaN /\ c[i - 1] # NaN
  <2>1. i \in 1 .. n
    BY <1>1, <1>2 DEF Days
  <2>2. r[i] # NaN
    BY <1>2 DEF Defined
  <2> QED BY <2>1, <2>2, <1>3
<1>5. ASSUME NEW i \in Days(t, VolWindow + 1) PROVE i \in 1 .. n /\ c[i] # NaN
  <2>1. i \in Int /\ t - VolWindow <= i /\ i <= t
    BY <1>1 DEF Days
  <2>2. CASE i \in Days(t, VolWindow)
    BY <2>2, <1>4
  <2>3. CASE i \notin Days(t, VolWindow)
    <3>1. i = t - VolWindow /\ i + 1 \in Days(t, VolWindow) /\ i = (i + 1) - 1
      BY <2>1, <2>3, <1>1 DEF Days
    <3>2. i + 1 \in 1 .. n /\ i + 1 # 1 /\ c[(i + 1) - 1] # NaN
      BY <3>1, <1>4
    <3> QED BY <2>1, <3>1, <3>2
  <2> QED BY <2>2, <2>3
<1> QED BY <1>5

\* A book buys none but the names that have a score.
LEMMA BoughtAreScored ==
    ASSUME NEW score, NEW vol, NEW columns, NEW s \in columns,
           ConstructBook(score, vol, columns)[s] > 0
    PROVE  s \in DOMAIN score
<1> DEFINE top == SelectTopQuantile(score)
<1>1. top \subseteq DOMAIN score
  BY DEF SelectTopQuantile
<1>2. DOMAIN ApplyCaps(InverseVolWeights(vol, top)) = top
  BY DEF ApplyCaps, InverseVolWeights
<1> HIDE DEF top
<1>3. ConstructBook(score, vol, columns)[s]
         = IF s \in top THEN ApplyCaps(InverseVolWeights(vol, top))[s] ELSE 0
  BY <1>2 DEF ConstructBook, top
<1>4. ~ (0 > 0)
  OBVIOUS
<1> QED BY <1>1, <1>3, <1>4

\* What a script has derived says nothing of days without a trade, and it derives
\* all of it anew after it has loaded the panel.
BookInv ==
    /\ panel \in Panels /\ day \in Nat
    /\ step \in {"fetch", "load"} => close = Blank /\ shared = Blank /\ books = Blank
    /\ step = "share" => shared = Blank /\ books = Blank
    /\ DOMAIN close \subseteq Names
    /\ \A s \in DOMAIN close : \A i \in 1 .. day :
          close[s][i] # NaN => panel.raw[s][i] # NaN
    /\ \A t \in DOMAIN shared : \A s \in DOMAIN close :
          shared[t].vol[s] # NaN => Defined(panel.raw[s], Days(t, VolWindow + 1))
    /\ BookIsTradable

\* Steps that leave what was derived alone.
LEMMA BooksLeftAlone ==
    ASSUME BookInv, UNCHANGED <<panel, day, close, shared, universe, books>>,
           step' \in {"fetch", "load", "share"} => step' = step
    PROVE  BookInv'
BY DEF BookInv, BookIsTradable

\* A panel that is loaded has closes on the days its names traded.
LEMMA LoadKeeps ==
    ASSUME BookInv, Load
    PROVE  BookInv'
<1> DEFINE adjusted == [s \in Names |->
                           Adjusted(Visible(panel.raw)[s], {e \in known : e.name = s})]
<1>1. /\ step = "load" /\ step' = "share" /\ close = Blank /\ shared = Blank
      /\ books = Blank /\ panel' = panel /\ day' = day /\ shared' = shared
      /\ books' = books /\ panel \in Panels /\ day \in Nat
      /\ universe' = [t \in MonthEnds(day) |-> Liquid(Visible(panel.value), t)]
      /\ close' = [s \in UNION Range(universe') |-> adjusted[s]]
  BY DEF Load, Idle, BookInv
<1>2. UNION Range(universe') \subseteq Names
  <2>1. \A v, t : Liquid(v, t) \subseteq Names
    BY DEF Liquid
  <2> QED BY <1>1, <2>1 DEF Range
<1>3. ASSUME NEW s \in DOMAIN close', NEW i \in 1 .. day, close'[s][i] # NaN
      PROVE  panel.raw[s][i] # NaN
  <2>1. s \in Names /\ s \in DOMAIN panel.raw
    BY <1>1, <1>2, <1>3, DeskAssumption
  <2>2. Visible(panel.raw)[s] = [t \in 1 .. day |-> panel.raw[s][t]]
    BY <2>1 DEF Visible
  <2>3. close'[s] = Adjusted([t \in 1 .. day |-> panel.raw[s][t]],
                             {e \in known : e.name = s})
    BY <1>1, <1>3, <2>1, <2>2
  <2>4. \A raw, events : \A t \in DOMAIN raw :
           raw[t] = NaN => Adjusted(raw, events)[t] = NaN
    BY DEF Adjusted
  <2> DEFINE raw == [t \in 1 .. day |-> panel.raw[s][t]]
  <2>5. raw[i] # NaN
    <3>1. i \in DOMAIN raw /\ Adjusted(raw, {e \in known : e.name = s})[i] # NaN
      BY <1>3, <2>3
    <3> HIDE DEF raw
    <3> QED BY <3>1, <2>4
  <2> QED BY <2>5
<1>4. BookIsTradable'
  BY <1>1 DEF BookIsTradable, Blank
<1> QED BY <1>1, <1>2, <1>3, <1>4 DEF BookInv, Blank

\* A name with a volatility traded through the window.
LEMMA ShareKeeps ==
    ASSUME BookInv, Share
    PROVE  BookInv'
<1>1. /\ step = "share" /\ step' = "book" /\ UNCHANGED <<panel, day, close, universe, books>>
      /\ day \in Nat
  BY DEF Share, Idle, BookInv
<1>2. ASSUME NEW t \in DOMAIN shared', NEW s \in DOMAIN close, shared'[t].vol[s] # NaN
      PROVE  Defined(panel.raw[s], Days(t, VolWindow + 1))
  <2>1. t \in 1 .. day /\ shared'[t].vol[s] = Volatility(Returns[s], t)
    BY <1>2 DEF Share, LabelledDates, MonthEnds
  <2>2. Returns[s] = [i \in 1 .. day |-> SimpleReturn(close[s], i)]
    BY <1>2 DEF Returns
  <2>3. \A i \in Days(t, VolWindow + 1) : i \in 1 .. day /\ close[s][i] # NaN
    BY <1>1, <1>2, <2>1, <2>2, TradedThrough
  <2> QED BY <1>2, <2>3 DEF Defined, BookInv
<1> QED BY <1>1, <1>2 DEF BookInv, BookIsTradable

\* A book is made of eligible names.
LEMMA BookKeeps ==
    ASSUME BookInv, Book
    PROVE  BookInv'
<1>1. /\ UNCHANGED <<panel, day, close, universe, shared>>
      /\ step' \in {"failed", "walk"}
  BY DEF Book, Idle
<1> DEFINE score == [t \in DOMAIN shared |->
                IF arm = "equal" THEN EqualWeight(Neutral(shared[t].factors, sectors))
                ELSE ClusterSelection(Neutral(shared[t].factors, sectors))]
<1>2. \A t \in DOMAIN books' : /\ t \in DOMAIN shared
           /\ books'[t] = ConstructBook([s \in Eligible(t, score[t]) |-> score[t][s]],
                                        shared[t].vol, DOMAIN close)
  BY DEF Book
<1> HIDE DEF score
<1>3. ASSUME NEW t \in DOMAIN books', NEW s \in DOMAIN close, books'[t][s] > 0
      PROVE  /\ Defined(panel.raw[s], Days(t, VolWindow + 1))
             /\ s \in universe[t]
  <2>1. s \in Eligible(t, score[t])
    <3> DEFINE scored == [q \in Eligible(t, score[t]) |-> score[t][q]]
    <3>1. ConstructBook(scored, shared[t].vol, DOMAIN close)[s] > 0
      BY <1>2, <1>3
    <3>2. DOMAIN scored = Eligible(t, score[t])
      OBVIOUS
    <3> HIDE DEF scored
    <3> QED BY <3>1, <3>2, BoughtAreScored
  <2> QED BY <2>1, <1>2 DEF Eligible, BookInv
<1> QED BY <1>1, <1>3 DEF BookInv, BookIsTradable

\* A book buys none but names of that day's universe that traded on every day of the
\* volatility window: run_factor_gate's books, for every panel, feed of corporate
\* actions and number of reruns.
THEOREM BooksAreTradable == GateSpec => []BookIsTradable
<1>1. GateInit => BookInv
  <2> SUFFICES ASSUME GateInit PROVE BookInv
    OBVIOUS
  <2>1. day \in Nat
    BY DeskAssumption DEF GateInit
  <2> QED BY <2>1 DEF GateInit, BookInv, BookIsTradable, Blank
<1>2. BookInv /\ [GateNext]_gateVars => BookInv'
  <2> SUFFICES ASSUME BookInv, [GateNext]_gateVars PROVE BookInv'
    OBVIOUS
  <2>1. CASE FetchCorporateActions
    BY <2>1 DEF FetchCorporateActions, Idle, Results, BookInv, BookIsTradable
  <2>2. CASE Load
    BY <2>2, LoadKeeps
  <2>3. CASE Share
    BY <2>3, ShareKeeps
  <2>4. CASE Book
    BY <2>4, BookKeeps
  <2>5. CASE Rebalance \/ Judge \/ JudgeRaises
    BY <2>5, BooksLeftAlone DEF Rebalance, Judge, JudgeRaises, Idle, Results
  <2>6. CASE NextArm \/ Log
    BY <2>6, BooksLeftAlone DEF NextArm, Log, Results
  <2>7. CASE NextDay
    <3>1. /\ day' \in Nat /\ panel' = panel /\ step' = "fetch"
          /\ close' = Blank /\ shared' = Blank /\ books' = Blank
      BY <2>7 DEF NextDay, BookInv
    <3> QED BY <3>1 DEF BookInv, BookIsTradable, Blank
  <2>8. CASE UNCHANGED gateVars
    BY <2>8, BooksLeftAlone DEF gateVars
  <2> QED BY <2>1, <2>2, <2>3, <2>4, <2>5, <2>6, <2>7, <2>8 DEF GateNext
<1>3. BookInv => BookIsTradable
  BY DEF BookInv
<1> QED BY <1>1, <1>2, <1>3, PTL DEF GateSpec

------------------------------------------------------------------------------
(* What the books of the factor gate hold.                                 *)

Positive == Nat \ {0}

\* A return of positive closes is a number, and so is a volatility.
LEMMA VolatilityIsNumber ==
    ASSUME NEW c, NEW n \in Nat, NEW t \in 1 .. n,
           \A i \in 1 .. n : c[i] \in Positive \cup {NaN}
    PROVE  Volatility([i \in 1 .. n |-> SimpleReturn(c, i)], t) \in Int \cup {NaN}
<1> DEFINE r == [i \in 1 .. n |-> SimpleReturn(c, i)]
<1>1. \A i \in 1 .. n : r[i] \in Int \cup {NaN}
  <2>1. \A x, y \in Positive : (One * (x - y)) \div y \in Int
    BY DEF One, Positive
  <2>2. ASSUME NEW i \in 1 .. n, i # 1, c[i] # NaN, c[i - 1] # NaN
        PROVE  (One * (c[i] - c[i - 1])) \div c[i - 1] \in Int
    <3>1. i - 1 \in 1 .. n
      BY <2>2
    <3> QED BY <2>1, <2>2, <3>1
  <2> QED BY <2>2 DEF SimpleReturn
<1>2. VolWindow \in Positive
  BY SignalsAssumption DEF Positive
<1>3. SUFFICES ASSUME Volatility(r, t) # NaN PROVE Volatility(r, t) \in Int
  OBVIOUS
<1> HIDE DEF r
<1>4. t >= VolWindow /\ Defined(r, Days(t, VolWindow))
  <2>1. RollingMean(r, t, VolWindow) # NaN
    BY <1>3 DEF Volatility, Total
  <2>2. ~ (t < VolWindow) /\ Defined(r, Days(t, VolWindow))
    BY <2>1 DEF RollingMean
  <2> QED BY <2>2, <1>2 DEF Positive
<1>5. \A i \in Days(t, VolWindow) : r[i] \in Int
  <2>1. \A i \in Days(t, VolWindow) : i \in 1 .. n
    BY <1>2, <1>4 DEF Days, Positive
  <2> QED BY <2>1, <1>1, <1>4 DEF Defined
<1>6. IsFiniteSet(Days(t, VolWindow))
  BY <1>2, FS_Interval DEF Days, Positive
<1>7. \A x \in Int : x \div VolWindow \in Int
  BY <1>2 DEF Positive
<1> DEFINE mean == RollingMean(r, t, VolWindow)
           same == [i \in Days(t, VolWindow) |-> r[i]]
           off == [i \in Days(t, VolWindow) |-> Distance(r[i], mean)]
<1>8. mean \in Int
  <2>1. SumFunctionOnSet(same, DOMAIN same) \in Int
    BY <1>5, <1>6, SumStep
  <2>2. mean = SumFunctionOnSet(same, DOMAIN same) \div VolWindow
    BY <1>2, <1>4 DEF RollingMean, Total, SumFunction, Positive
  <2> HIDE DEF same, mean
  <2> QED BY <2>1, <2>2, <1>7
<1>9. SumFunctionOnSet(off, DOMAIN off) \in Int
  <2> HIDE DEF mean
  <2>1. \A i \in DOMAIN off : off[i] \in Int
    BY <1>5, <1>8 DEF Distance
  <2> QED BY <2>1, <1>6, SumStep
<1>10. Volatility(r, t) = SumFunctionOnSet(off, DOMAIN off) \div VolWindow
  <2>1. mean # NaN
    BY <1>3 DEF Volatility, Total
  <2> QED BY <2>1 DEF Volatility, Total, SumFunction
<1> HIDE DEF off, mean
<1> QED BY <1>7, <1>9, <1>10

\* Inverse volatilities are weights.
LEMMA WeightsAreNaturals ==
    ASSUME NEW names, IsFiniteSet(names), NEW vol, \A s \in names : vol[s] \in Positive
    PROVE  \A s \in names : InverseVolWeights(vol, names)[s] \in Nat
<1> DEFINE calm == [s \in names |-> (One * One + vol[s] - 1) \div vol[s]]
           all == SumFunctionOnSet(calm, names)
<1>1. \A s \in names : calm[s] \in Positive
  <2>1. \A v \in Positive : (One * One + v - 1) \div v \in Positive
    <3>1. ASSUME NEW v \in Positive PROVE (One * One + v - 1) \div v \in Positive
      <4>1. One * One + v - 1 \in Nat /\ One * One + v - 1 >= v /\ v > 0
        BY DEF One, Positive
      <4>2. \A w \in Nat : w >= v => w \div v \in Nat /\ w \div v >= 1
        BY <4>1 DEF Positive
      <4> QED BY <4>1, <4>2 DEF Positive
    <3> QED BY <3>1
  <2> QED BY <2>1
<1>2. ASSUME NEW s \in names PROVE InverseVolWeights(vol, names)[s] \in Nat
  <2>1. all \in Nat /\ calm[s] <= all
    <3>1. \A q \in names : calm[q] \in Nat
      BY <1>1 DEF Positive
    <3> HIDE DEF calm
    <3> QED BY <3>1, SumOfNaturals
  <2>2. InverseVolWeights(vol, names)[s] = (One * calm[s]) \div all
    BY DEF InverseVolWeights, Total, SumFunction
  <2>3. calm[s] \in Positive
    BY <1>1
  <2> HIDE DEF calm, all
  <2>4. One * calm[s] \in Nat /\ all \in Positive
    BY <2>1, <2>3 DEF One, Positive
  <2>5. \A x \in Nat : \A z \in Positive : x \div z \in Nat
    BY DEF Positive
  <2> QED BY <2>2, <2>4, <2>5
<1> QED BY <1>2

\* Names of one sector.
Within(names, sector, x) == {s \in names : sector[s] = x}

\* No sector weighs more than its cap.
LEMMA CapsHold ==
    ASSUME NEW weights, IsFiniteSet(DOMAIN weights), \A s \in DOMAIN weights : weights[s] \in Nat
    PROVE  /\ \A s \in DOMAIN weights : ApplyCaps(weights)[s] \in Nat
           /\ \A x : SumFunctionOnSet(ApplyCaps(weights), Within(DOMAIN weights, sectors, x))
                       <= SectorCap
<1> DEFINE clipped == [s \in DOMAIN weights |->
                          IF weights[s] > NameCap THEN NameCap ELSE weights[s]]
           Held(x) == SumFunctionOnSet(clipped, Within(DOMAIN weights, sectors, x))
           capped == ApplyCaps(weights)
<1>1. NameCap \in Positive /\ SectorCap \in Positive
  BY DeskAssumption DEF Positive
<1>2. \A s \in DOMAIN weights : clipped[s] \in Nat
  BY <1>1 DEF Positive
<1>3. \A x : /\ IsFiniteSet(Within(DOMAIN weights, sectors, x))
           /\ Within(DOMAIN weights, sectors, x) \subseteq DOMAIN weights
  BY FS_Subset DEF Within
<1>4. \A x : Held(x) \in Nat
  <2> HIDE DEF clipped
  <2> QED BY <1>2, <1>3, SumOfNaturals
<1>5. \A s \in DOMAIN weights :
        capped[s] = IF Held(sectors[s]) > SectorCap
                      THEN (clipped[s] * SectorCap) \div Held(sectors[s])
                      ELSE clipped[s]
  <2>1. ASSUME NEW s \in DOMAIN weights
        PROVE  Held(sectors[s]) = Total(LAMBDA q : clipped[q],
                                        {q \in DOMAIN weights : sectors[q] = sectors[s]})
    <3> DEFINE D == {q \in DOMAIN weights : sectors[q] = sectors[s]}
               h == [q \in D |-> clipped[q]]
    <3>1. D = Within(DOMAIN weights, sectors, sectors[s])
      BY DEF Within
    <3>2. \A q \in D : clipped[q] = h[q]
      OBVIOUS
    <3>3. SumFunctionOnSet(clipped, D) = SumFunctionOnSet(h, D)
      <4>1. IsFiniteSet(D)
        BY <3>1, <1>3
      <4> HIDE DEF D, h, clipped
      <4> QED BY <3>2, <4>1, SumSame
    <3>4. Total(LAMBDA q : clipped[q], D) = SumFunctionOnSet(h, D)
      BY DEF Total, SumFunction
    <3> HIDE DEF clipped, h
    <3> QED BY <3>1, <3>3, <3>4
  <2> QED BY <2>1 DEF ApplyCaps
<1> HIDE DEF clipped, capped, Held
<1>6. \A a, b \in Nat : \A z \in Positive : a * b \in Nat /\ (a * b) \div z \in Nat
                                            /\ z * ((a * b) \div z) <= b * a
  <2>1. ASSUME NEW a \in Nat, NEW b \in Nat, NEW z \in Positive
        PROVE  a * b \in Nat /\ (a * b) \div z \in Nat /\ z * ((a * b) \div z) <= b * a
    <3>1. a * b \in Nat /\ a * b = b * a
      OBVIOUS
    <3>2. \A w \in Nat : w \div z \in Nat /\ z * (w \div z) <= w
      BY DEF Positive
    <3> QED BY <3>1, <3>2
  <2> QED BY <2>1
<1>7. ASSUME NEW s \in DOMAIN weights PROVE capped[s] \in Nat
  <2>1. Held(sectors[s]) > SectorCap => Held(sectors[s]) \in Positive
    BY <1>1, <1>4 DEF Positive
  <2>2. SectorCap \in Nat
    BY <1>1 DEF Positive
  <2> QED BY <1>2, <1>5, <1>6, <2>1, <2>2
<1>8. ASSUME NEW x
      PROVE  SumFunctionOnSet(capped, Within(DOMAIN weights, sectors, x)) <= SectorCap
  <2> DEFINE D == Within(DOMAIN weights, sectors, x)
             z == Held(x)
  <2>1. IsFiniteSet(D) /\ D \subseteq DOMAIN weights /\ \A s \in D : sectors[s] = x
    BY <1>3 DEF Within
  <2>2. SumFunctionOnSet(capped, D) \in Int /\ z \in Nat /\ z = SumFunctionOnSet(clipped, D)
    <3>1. \A s \in D : capped[s] \in Int
      BY <1>7, <2>1
    <3> HIDE DEF D
    <3>2. SumFunctionOnSet(capped, D) \in Int
      BY <2>1, <3>1, SumStep
    <3> QED BY <3>2, <1>4 DEF Held, D
  <2>3. CASE z > SectorCap
    <3>1. z \in Positive /\ SectorCap \in Nat
      BY <2>3, <1>1, <2>2 DEF Positive
    <3>2. \A s \in D : capped[s] \in Int /\ clipped[s] \in Int
                       /\ z * capped[s] <= SectorCap * clipped[s] + 0
      <4>1. ASSUME NEW s \in D
            PROVE  capped[s] \in Int /\ clipped[s] \in Int
                   /\ z * capped[s] <= SectorCap * clipped[s] + 0
        <5>1. s \in DOMAIN weights /\ Held(sectors[s]) = z
          BY <2>1
        <5>2. capped[s] = (clipped[s] * SectorCap) \div z
          BY <1>5, <5>1, <2>3
        <5>3. clipped[s] \in Nat
          BY <1>2, <5>1
        <5> HIDE DEF z, D
        <5>4. z * ((clipped[s] * SectorCap) \div z) <= SectorCap * clipped[s]
              /\ (clipped[s] * SectorCap) \div z \in Nat /\ SectorCap * clipped[s] \in Int
          BY <1>6, <3>1, <5>3
        <5>5. \A a \in Int : a + 0 = a
          OBVIOUS
        <5> QED BY <5>2, <5>3, <5>4, <5>5
      <4> QED BY <4>1
    <3>3. z * SumFunctionOnSet(capped, D) <= SectorCap * z
      <4> HIDE DEF z, D
      <4>1. \A m, k, c \in Int : (\A s \in D : m * capped[s] <= k * clipped[s] + c) =>
               m * SumFunctionOnSet(capped, D)
                 <= k * SumFunctionOnSet(clipped, D) + c * Cardinality(D)
        <5>1. \A s \in D : capped[s] \in Int /\ clipped[s] \in Int
          BY <3>2
        <5> QED BY <2>1, <5>1, SumBound
      <4>2. z * SumFunctionOnSet(capped, D) <= SectorCap * z + 0 * Cardinality(D)
        <5>1. z \in Int /\ SectorCap \in Int /\ 0 \in Int
          BY <3>1 DEF Positive
        <5> QED BY <4>1, <5>1, <3>2, <2>2
      <4>3. Cardinality(D) \in Nat /\ SectorCap * z \in Int
        BY <2>1, <2>2, <3>1, FS_CardinalityType
      <4> QED BY <4>2, <4>3
    <3> HIDE DEF z, D
    <3>4. SectorCap * z = z * SectorCap /\ SectorCap \in Int
      BY <2>2, <3>1
    <3> QED BY <3>1, <3>3, <3>4, <2>2, Cancel DEF D, Positive
  <2>4. CASE ~ (z > SectorCap)
    <3>1. \A s \in D : capped[s] = clipped[s]
      BY <1>5, <2>1, <2>4
    <3>2. SumFunctionOnSet(capped, D) = z
      <4> HIDE DEF D
      <4>1. SumFunctionOnSet(capped, D) = SumFunctionOnSet(clipped, D)
        BY <2>1, <3>1, SumSame
      <4> QED BY <4>1, <2>2
    <3> QED BY <3>2, <2>2, <2>4, <1>1 DEF Positive
  <2> QED BY <2>3, <2>4
<1> QED BY <1>7, <1>8 DEF capped

\* A book is within the caps, sector by sector.
LEMMA BookIsCapped ==
    ASSUME NEW score, NEW vol, NEW columns, IsFiniteSet(columns),
           DOMAIN score \subseteq columns, \A s \in DOMAIN score : vol[s] \in Positive
    PROVE  /\ ConstructBook(score, vol, columns) \in [columns -> Nat]
           /\ \A x : SumFunctionOnSet(ConstructBook(score, vol, columns),
                                     Within(columns, sectors, x))
                       <= SectorCap
<1> DEFINE top == SelectTopQuantile(score)
           drawn == InverseVolWeights(vol, top)
           weights == ApplyCaps(drawn)
           book == ConstructBook(score, vol, columns)
<1>1. top \subseteq DOMAIN score /\ top \subseteq columns /\ IsFiniteSet(top)
  <2>1. top \subseteq DOMAIN score
    BY DEF SelectTopQuantile
  <2> HIDE DEF top
  <2> QED BY <2>1, FS_Subset
<1>2. DOMAIN drawn = top /\ DOMAIN weights = top
  BY DEF ApplyCaps, InverseVolWeights
<1>3. /\ \A s \in top : weights[s] \in Nat
      /\ \A x : SumFunctionOnSet(weights, Within(top, sectors, x)) <= SectorCap
  <2>1. \A s \in top : drawn[s] \in Nat
    <3>1. \A s \in top : vol[s] \in Positive
      BY <1>1
    <3> HIDE DEF top
    <3> QED BY <1>1, <3>1, WeightsAreNaturals
  <2> HIDE DEF top, drawn
  <2> QED BY <1>1, <1>2, <2>1, CapsHold
<1>4. book = [s \in columns |-> IF s \in top THEN weights[s] ELSE 0]
  <2> HIDE DEF top
  <2> QED BY <1>2 DEF ConstructBook, top
<1> HIDE DEF top, weights, drawn, book
<1>5. book \in [columns -> Nat]
  BY <1>3, <1>4
<1>6. ASSUME NEW x PROVE SumFunctionOnSet(book, Within(columns, sectors, x)) <= SectorCap
  <2> DEFINE D == Within(columns, sectors, x)
             R == Within(top, sectors, x)
  <2>1. R \in SUBSET D /\ IsFiniteSet(D) /\ IsFiniteSet(R) /\ D \subseteq columns
        /\ R \subseteq top
    <3>1. R \in SUBSET D /\ D \subseteq columns /\ R \subseteq top
      BY <1>1 DEF Within
    <3> QED BY <3>1, <1>1, FS_Subset
  <2>2. (\A s \in D : book[s] \in Int) /\ \A s \in D \ R : book[s] = 0
    <3>1. \A s \in D \ R : s \notin top
      BY DEF Within
    <3> QED BY <3>1, <1>4, <1>5, <2>1
  <2>3. \A s \in R : book[s] = weights[s]
    BY <1>4, <2>1
  <2>4. SumFunctionOnSet(weights, R) <= SectorCap
    BY <1>3
  <2> HIDE DEF D, R
  <2>5. SumFunctionOnSet(book, D) = SumFunctionOnSet(book, R)
    BY <2>1, <2>2, SumOfSome
  <2>6. SumFunctionOnSet(book, R) = SumFunctionOnSet(weights, R)
    BY <2>1, <2>3, SumSame
  <2> QED BY <2>4, <2>5, <2>6 DEF D
<1> QED BY <1>5, <1>6 DEF book

\* A weight that stays is within the band of the one that is wanted.
LEMMA MoveLags ==
    ASSUME NEW want \in Nat, NEW current \in Nat
    PROVE  /\ Move(want, current) \in Nat
           /\ (100 - BandPct) * Move(want, current) <= 100 * want + 0
<1>1. BandPct \in 0 .. 99
  BY DeskAssumption
<1>2. ASSUME NEW x \in Nat PROVE (100 - BandPct) * x = 100 * x - BandPct * x /\ BandPct * x \in Nat
  BY <1>1
<1>3. CASE Move(want, current) = want
  BY <1>2, <1>3
<1>4. CASE Move(want, current) # want
  <2>1. Move(want, current) = current
    BY <1>4 DEF Move
  <2>2. CASE current <= want
    BY <2>1, <2>2, <1>2
  <2>3. CASE current > want
    <3>1. ~ (want > current)
      BY <2>3
    <3>2. ~ (100 * Distance(want, current) > BandPct * current)
      BY <3>1, <1>4 DEF Move
    <3>3. Distance(want, current) = current - want
      BY <2>3 DEF Distance
    <3>4. BandPct * current \in Nat
      BY <1>2
    <3> QED BY <2>1, <3>2, <3>3, <3>4, <1>2
  <2> QED BY <2>2, <2>3
<1> QED BY <1>3, <1>4

\* What is derived is made of numbers, and a book is within the caps.
BooksInv ==
    /\ panel \in Panels /\ day \in FirstDay .. LastDay /\ known \subseteq panel.events
    /\ step \in {"fetch", "load"} => close = Blank
    /\ step \in {"fetch", "load", "share"} => shared = Blank /\ books = Blank
    /\ DOMAIN close \subseteq Names
    /\ \A s \in DOMAIN close : \A i \in 1 .. day : close[s][i] \in Positive \cup {NaN}
    /\ DOMAIN shared \subseteq 1 .. day
    /\ \A t \in DOMAIN shared : \A s \in DOMAIN close : shared[t].vol[s] \in Int \cup {NaN}
    /\ DOMAIN books \subseteq 1 .. day
    /\ \A t \in DOMAIN books :
          /\ books[t] \in [DOMAIN close -> Nat]
          /\ \A x : SumFunctionOnSet(books[t], Within(DOMAIN close, sectors, x)) <= SectorCap

\* What is held of a name is within the band of its weight in the book of that month.
HeldInv ==
    /\ step \in {"fetch", "load", "share"} => held = Blank
    /\ held = [t \in DOMAIN held |-> held[t]] /\ DOMAIN held \subseteq DOMAIN books
    /\ \A t \in DOMAIN held :
          /\ held[t] \in [DOMAIN close -> Nat]
          /\ \A s \in DOMAIN close : (100 - BandPct) * held[t][s] <= 100 * books[t][s] + 0

ExposureInv == BooksInv /\ HeldInv

\* Steps that leave the holdings and what they rest on alone.
LEMMA HoldingsLeftAlone ==
    ASSUME ExposureInv, UNCHANGED <<panel, day, known, close, sectors, shared, books, held>>,
           step' \in {"fetch", "load", "share"} => step' = step
    PROVE  ExposureInv'
BY DEF ExposureInv, BooksInv, HeldInv

\* Adjusted closes are positive.
LEMMA LoadIsPositive ==
    ASSUME ExposureInv, Load
    PROVE  ExposureInv'
<1> DEFINE adjusted == [s \in Names |->
                           Adjusted(Visible(panel.raw)[s], {e \in known : e.name = s})]
<1>1. /\ step = "load" /\ step' = "share" /\ close = Blank /\ shared = Blank
      /\ books = Blank /\ held = Blank
      /\ UNCHANGED <<panel, day, known, shared, books, held>>
      /\ panel \in Panels /\ day \in FirstDay .. LastDay /\ known \subseteq panel.events
      /\ universe' = [t \in MonthEnds(day) |-> Liquid(Visible(panel.value), t)]
      /\ close' = [s \in UNION Range(universe') |-> adjusted[s]]
  BY DEF Load, Idle, ExposureInv, BooksInv, HeldInv
<1>2. UNION Range(universe') \subseteq Names
  <2>1. \A v, t : Liquid(v, t) \subseteq Names
    BY DEF Liquid
  <2> QED BY <1>1, <2>1 DEF Range
<1>3. ASSUME NEW s \in DOMAIN close', NEW i \in 1 .. day
      PROVE  close'[s][i] \in Positive \cup {NaN}
  <2>1. s \in Names /\ s \in DOMAIN panel.raw
    BY <1>1, <1>2, DeskAssumption
  <2>2. Visible(panel.raw)[s] = [t \in 1 .. day |-> panel.raw[s][t]]
    BY <2>1 DEF Visible
  <2>3. close'[s] = Adjusted([t \in 1 .. day |-> panel.raw[s][t]],
                             {e \in known : e.name = s})
    BY <1>1, <2>1, <2>2
  <2>4. {e \in known : e.name = s} \in SUBSET panel.events
    BY <1>1
  <2>5. Adjusted([t \in 1 .. day |-> panel.raw[s][t]], {e \in known : e.name = s})[i]
          \in (Nat \ {0}) \cup {NaN}
    BY <1>1, <2>1, <2>4, PriceAssumption
  <2> QED BY <2>3, <2>5 DEF Positive
<1> HIDE DEF adjusted
<1>4. DOMAIN close' \subseteq Names
  BY <1>1, <1>2
<1>5. /\ DOMAIN shared' = {} /\ DOMAIN books' = {} /\ DOMAIN held' = {}
      /\ held' = [t \in DOMAIN held' |-> held'[t]]
  BY <1>1 DEF Blank
<1>6. /\ panel' \in Panels /\ day' \in FirstDay .. LastDay /\ known' \subseteq panel'.events
      /\ shared' = Blank /\ books' = Blank /\ held' = Blank
      /\ step' \notin {"fetch", "load"}
  BY <1>1
<1>7. \A s \in DOMAIN close' : \A i \in 1 .. day' : close'[s][i] \in Positive \cup {NaN}
  <2>1. day' = day
    BY <1>1
  <2> QED BY ONLY <1>3, <2>1
<1> QED BY <1>4, <1>5, <1>6, <1>7 DEF ExposureInv, BooksInv, HeldInv

\* Volatilities are numbers.
LEMMA ShareIsNumber ==
    ASSUME ExposureInv, Share
    PROVE  ExposureInv'
<1>1. /\ step = "share" /\ step' = "book" /\ books = Blank /\ held = Blank
      /\ UNCHANGED <<panel, day, known, close, books, held>>
      /\ day \in Nat
  BY DeskAssumption DEF Share, Idle, ExposureInv, BooksInv, HeldInv
<1>2. DOMAIN shared' \subseteq 1 .. day
  BY DEF Share, LabelledDates, MonthEnds
<1>3. ASSUME NEW t \in DOMAIN shared', NEW s \in DOMAIN close
      PROVE  shared'[t].vol[s] \in Int \cup {NaN}
  <2>1. t \in 1 .. day /\ shared'[t].vol[s] = Volatility(Returns[s], t)
    BY <1>3 DEF Share, LabelledDates, MonthEnds
  <2>2. Returns[s] = [i \in 1 .. day |-> SimpleReturn(close[s], i)]
    BY <1>3 DEF Returns
  <2>3. \A i \in 1 .. day : close[s][i] \in Positive \cup {NaN}
    BY <1>3 DEF ExposureInv, BooksInv, HeldInv
  <2>4. Volatility(Returns[s], t) \in Int \cup {NaN}
    <3> DEFINE c == close[s]
    <3> HIDE DEF c
    <3>1. Volatility([i \in 1 .. day |-> SimpleReturn(c, i)], t) \in Int \cup {NaN}
      <4>1. day \in Nat /\ t \in 1 .. day
        BY <1>1, <2>1
      <4>2. \A i \in 1 .. day : c[i] \in Positive \cup {NaN}
        BY <2>3 DEF c
      <4> QED BY ONLY <4>1, <4>2, VolatilityIsNumber
    <3> QED BY <2>2, <3>1 DEF c
  <2> QED BY <2>1, <2>4
<1> QED BY <1>1, <1>2, <1>3 DEF ExposureInv, BooksInv, HeldInv, Blank

\* Books are within the caps.
LEMMA BookIsBounded ==
    ASSUME ExposureInv, Book
    PROVE  ExposureInv'
<1>1. /\ UNCHANGED <<panel, day, known, close, sectors, shared>> /\ held' = Blank
      /\ step' \in {"failed", "walk"}
  BY DEF Book, Idle
<1> DEFINE score == [t \in DOMAIN shared |->
                IF arm = "equal" THEN EqualWeight(Neutral(shared[t].factors, sectors))
                ELSE ClusterSelection(Neutral(shared[t].factors, sectors))]
<1>2. \A t \in DOMAIN books' : /\ t \in DOMAIN shared
           /\ books'[t] = ConstructBook([s \in Eligible(t, score[t]) |-> score[t][s]],
                                        shared[t].vol, DOMAIN close)
  BY DEF Book
<1>3. DOMAIN books' \subseteq DOMAIN shared
  BY <1>2
<1> HIDE DEF score
<1>4. IsFiniteSet(DOMAIN close)
  BY SignalsAssumption, FS_Subset DEF ExposureInv, BooksInv, HeldInv
<1>5. ASSUME NEW t \in DOMAIN books'
      PROVE  /\ books'[t] \in [DOMAIN close -> Nat]
             /\ \A x : SumFunctionOnSet(books'[t], Within(DOMAIN close, sectors, x)) <= SectorCap
  <2> DEFINE scored == [q \in Eligible(t, score[t]) |-> score[t][q]]
  <2>1. DOMAIN scored \subseteq DOMAIN close
    BY DEF Eligible
  <2>2. \A s \in DOMAIN scored : shared[t].vol[s] \in Positive
    <3>1. ASSUME NEW s \in Eligible(t, score[t]) PROVE shared[t].vol[s] \in Positive
      <4>1. s \in DOMAIN close /\ shared[t].vol[s] # NaN /\ shared[t].vol[s] > 0
        BY DEF Eligible
      <4>2. shared[t].vol[s] \in Int \cup {NaN}
        BY <1>2, <4>1 DEF ExposureInv, BooksInv, HeldInv
      <4> QED BY <4>1, <4>2 DEF Positive
    <3> QED BY <3>1
  <2>3. books'[t] = ConstructBook(scored, shared[t].vol, DOMAIN close)
    BY <1>2
  <2> HIDE DEF scored
  <2> QED BY <1>4, <2>1, <2>2, <2>3, BookIsCapped
<1>6. held' = [t \in DOMAIN held' |-> held'[t]] /\ DOMAIN held' = {}
  BY <1>1 DEF Blank
<1> QED BY <1>1, <1>3, <1>5, <1>6 DEF ExposureInv, BooksInv, HeldInv

\* A month is rebalanced within the band.
LEMMA RebalanceLags ==
    ASSUME ExposureInv, Rebalance
    PROVE  ExposureInv'
<1> DEFINE t == Min(DOMAIN books \ DOMAIN held)
           before == IF held = Blank THEN [s \in DOMAIN close |-> 0]
                     ELSE held[Max(DOMAIN held)]
           now == [s \in DOMAIN close |-> Move(books[t][s], before[s])]
<1>1. /\ UNCHANGED <<panel, day, known, step, close, sectors, shared, books>>
      /\ step = "walk" /\ DOMAIN held # DOMAIN books
      /\ held' = [d \in DOMAIN held \cup {t} |-> IF d = t THEN now ELSE held[d]]
  BY DEF Rebalance, Idle
<1>2. /\ IsFiniteSet(DOMAIN books) /\ DOMAIN books \subseteq Int
      /\ DOMAIN held \subseteq DOMAIN books
  <2>1. DOMAIN books \subseteq 1 .. day /\ day \in Int
    BY DeskAssumption DEF ExposureInv, BooksInv, HeldInv
  <2> QED BY <2>1, FS_Interval, FS_Subset DEF ExposureInv, BooksInv, HeldInv
<1>3. t \in DOMAIN books
  <2> DEFINE D == DOMAIN books \ DOMAIN held
  <2>1. D # {} /\ D \in SUBSET Int /\ IsFiniteSet(D) /\ D \subseteq DOMAIN books
    BY <1>1, <1>2, FS_Subset
  <2> HIDE DEF D
  <2>2. \E x \in D : \A y \in D : x <= y
    BY <2>1, LeastElement
  <2>3. Min(D) \in D
    BY <2>2 DEF Min
  <2> QED BY <2>1, <2>3 DEF D
<1>4. before \in [DOMAIN close -> Nat]
  <2>1. CASE held = Blank
    BY <2>1
  <2>2. CASE held # Blank
    <3>1. DOMAIN held # {}
      <4>1. SUFFICES ASSUME DOMAIN held = {} PROVE FALSE
        OBVIOUS
      <4>2. held = [d \in DOMAIN held |-> held[d]]
        BY DEF ExposureInv, BooksInv, HeldInv
      <4> QED BY <4>1, <4>2, <2>2 DEF Blank
    <3>2. DOMAIN held \in SUBSET Int /\ IsFiniteSet(DOMAIN held)
      BY <1>2, FS_Subset
    <3> DEFINE D == DOMAIN held
    <3>3. Max(D) \in D
      <4>1. D # {} /\ D \in SUBSET Int /\ IsFiniteSet(D)
        BY <3>1, <3>2
      <4> HIDE DEF D
      <4>2. \E x \in D : \A y \in D : y <= x
        BY <4>1, GreatestElement
      <4>3. \E x \in D : \A y \in D : x >= y
        BY <4>1, <4>2
      <4> QED BY <4>3 DEF Max
    <3> QED BY <2>2, <3>3 DEF ExposureInv, BooksInv, HeldInv
  <2> QED BY <2>1, <2>2
<1>5. books[t] \in [DOMAIN close -> Nat]
  BY <1>3 DEF ExposureInv, BooksInv, HeldInv
<1> HIDE DEF t, before
<1>6. now \in [DOMAIN close -> Nat]
      /\ \A s \in DOMAIN close : (100 - BandPct) * now[s] <= 100 * books[t][s] + 0
  <2>1. \A s \in DOMAIN close : books[t][s] \in Nat /\ before[s] \in Nat
    BY <1>4, <1>5
  <2>2. \A s \in DOMAIN close :
          /\ Move(books[t][s], before[s]) \in Nat
          /\ (100 - BandPct) * Move(books[t][s], before[s]) <= 100 * books[t][s] + 0
    BY <2>1, MoveLags
  <2> QED BY <2>2
<1> HIDE DEF now
<1>7. /\ held' = [d \in DOMAIN held' |-> held'[d]] /\ DOMAIN held' \subseteq DOMAIN books
  BY <1>1, <1>2, <1>3
<1>8. ASSUME NEW d \in DOMAIN held'
      PROVE  /\ held'[d] \in [DOMAIN close -> Nat]
             /\ \A s \in DOMAIN close : (100 - BandPct) * held'[d][s] <= 100 * books[d][s] + 0
  <2>1. CASE d = t
    BY <1>1, <1>6, <2>1
  <2>2. CASE d # t
    BY <1>1, <2>2 DEF ExposureInv, BooksInv, HeldInv
  <2> QED BY <2>1, <2>2
<1>9. BooksInv'
  BY <1>1 DEF ExposureInv, BooksInv
<1>10. HeldInv'
  <2>1. close' = close /\ books' = books /\ step' \notin {"fetch", "load", "share"}
    BY <1>1
  <2>2. \A d \in DOMAIN held' :
          /\ held'[d] \in [DOMAIN close' -> Nat]
          /\ \A s \in DOMAIN close' :
                (100 - BandPct) * held'[d][s] <= 100 * books'[d][s] + 0
    BY <1>8, <2>1, Zenon
  <2>3. held' = [d \in DOMAIN held' |-> held'[d]] /\ DOMAIN held' \subseteq DOMAIN books'
    BY <1>7, <2>1
  <2> QED BY <2>1, <2>2, <2>3 DEF HeldInv
<1> QED BY <1>9, <1>10 DEF ExposureInv

\* What is held of a sector stays within its cap, but for the band.
LEMMA ExposureFollows ==
    ASSUME ExposureInv
    PROVE  ExposureBounded
<1>1. BandPct \in 0 .. 99
  BY DeskAssumption
<1>2. IsFiniteSet(DOMAIN close)
  BY SignalsAssumption, FS_Subset DEF ExposureInv, BooksInv, HeldInv
<1>3. ASSUME NEW t \in DOMAIN held, NEW s \in DOMAIN close, held[t][s] > 0
      PROVE  books[t][s] > 0
  <2>1. /\ held[t][s] \in Nat /\ books[t][s] \in Nat
        /\ (100 - BandPct) * held[t][s] <= 100 * books[t][s] + 0
    BY <1>3 DEF ExposureInv, BooksInv, HeldInv
  <2>2. ASSUME NEW x \in Nat, x > 0 PROVE (100 - BandPct) * x > 0
    BY <1>1, <2>2
  <2>3. (100 - BandPct) * held[t][s] > 0
    BY <1>3, <2>1, <2>2
  <2>4. (100 - BandPct) * held[t][s] \in Int
    BY <1>1, <2>1
  <2> QED BY <2>1, <2>3, <2>4
<1>4. ASSUME NEW t \in DOMAIN held, NEW x
      PROVE  (100 - BandPct) * Total(LAMBDA s : held[t][s],
                                     {s \in DOMAIN close : sectors[s] = x})
               <= 100 * SectorCap
  <2> DEFINE D == Within(DOMAIN close, sectors, x)
             h == [s \in D |-> held[t][s]]
  <2>1. IsFiniteSet(D) /\ D \subseteq DOMAIN close
    BY <1>2, FS_Subset DEF Within
  <2>2. \A s \in D : /\ h[s] \in Int /\ books[t][s] \in Int
                     /\ (100 - BandPct) * h[s] <= 100 * books[t][s] + 0
    BY <2>1 DEF ExposureInv, BooksInv, HeldInv
  <2>3. Total(LAMBDA s : held[t][s], {s \in DOMAIN close : sectors[s] = x})
          = SumFunctionOnSet(h, D)
    BY DEF Total, SumFunction, Within
  <2>4. SumFunctionOnSet(books[t], D) <= SectorCap
    BY DEF ExposureInv, BooksInv, HeldInv
  <2> DEFINE book == books[t]
  <2> HIDE DEF D, h
  <2>5. SumFunctionOnSet(h, D) \in Int /\ SumFunctionOnSet(book, D) \in Int
    BY <2>1, <2>2, SumStep
  <2>6. \A m, k, c \in Int : (\A s \in D : m * h[s] <= k * book[s] + c) =>
           m * SumFunctionOnSet(h, D) <= k * SumFunctionOnSet(book, D) + c * Cardinality(D)
    <3>1. \A s \in D : h[s] \in Int /\ book[s] \in Int
      BY <2>2
    <3> HIDE DEF book
    <3> QED BY <2>1, <3>1, SumBound
  <2>7. \A s \in D : (100 - BandPct) * h[s] <= 100 * book[s] + 0
    BY <2>2
  <2> HIDE DEF book
  <2>8. (100 - BandPct) * SumFunctionOnSet(h, D)
          <= 100 * SumFunctionOnSet(book, D) + 0 * Cardinality(D)
    <3>1. 100 - BandPct \in Int /\ 100 \in Int /\ 0 \in Int
      BY <1>1
    <3> QED BY <2>6, <2>7, <3>1
  <2>9. Cardinality(D) \in Nat /\ SectorCap \in Nat
    BY <2>1, FS_CardinalityType, DeskAssumption
  <2>10. (100 - BandPct) * SumFunctionOnSet(h, D) \in Int
    BY <1>1, <2>5
  <2>11. SumFunctionOnSet(book, D) <= SectorCap
    BY <2>4 DEF book
  <2>12. (100 - BandPct) * SumFunctionOnSet(h, D) <= 100 * SectorCap
    BY <2>5, <2>8, <2>9, <2>10, <2>11
  <2> QED BY <2>3, <2>12
<1> QED BY <1>3, <1>4 DEF ExposureBounded

\* What is held of a sector never outgrows its cap by more than the no-trade band
\* lets a weight lag, and what left the book is sold: held_weights over the books of
\* apply_caps, for every panel, cap, band and number of reruns.
THEOREM ExposureIsBounded == GateSpec => []ExposureBounded
<1>1. GateInit => ExposureInv
  <2> SUFFICES ASSUME GateInit PROVE ExposureInv
    OBVIOUS
  <2>1. day \in FirstDay .. LastDay
    BY DeskAssumption DEF GateInit
  <2> QED BY <2>1 DEF GateInit, ExposureInv, BooksInv, HeldInv, Blank
<1>2. ExposureInv /\ [GateNext]_gateVars => ExposureInv'
  <2> SUFFICES ASSUME ExposureInv, [GateNext]_gateVars PROVE ExposureInv'
    OBVIOUS
  <2>1. CASE FetchCorporateActions
    BY <2>1 DEF FetchCorporateActions, Idle, Results, ExposureInv, BooksInv, HeldInv
  <2>2. CASE Load
    BY <2>2, LoadIsPositive
  <2>3. CASE Share
    BY <2>3, ShareIsNumber
  <2>4. CASE Book
    BY <2>4, BookIsBounded
  <2>5. CASE Rebalance
    BY <2>5, RebalanceLags
  <2>6. CASE Judge \/ JudgeRaises
    BY <2>6, HoldingsLeftAlone DEF Judge, JudgeRaises, Idle, Results
  <2>7. CASE NextArm \/ Log
    BY <2>7, HoldingsLeftAlone DEF NextArm, Log, Results
  <2>8. CASE NextDay
    <3>1. /\ UNCHANGED <<panel, known>> /\ day < LastDay /\ day' = day + 1
          /\ step' = "fetch" /\ close' = Blank /\ shared' = Blank /\ books' = Blank
          /\ held' = Blank
      BY <2>8 DEF NextDay
    <3>2. day' \in FirstDay .. LastDay
      BY <3>1, DeskAssumption DEF ExposureInv, BooksInv, HeldInv
    <3> QED BY <3>1, <3>2 DEF ExposureInv, BooksInv, HeldInv, Blank
  <2>9. CASE UNCHANGED gateVars
    BY <2>9, HoldingsLeftAlone DEF gateVars
  <2> QED BY <2>1, <2>2, <2>3, <2>4, <2>5, <2>6, <2>7, <2>8, <2>9 DEF GateNext
<1>3. ExposureInv => ExposureBounded
  BY ExposureFollows
<1> QED BY <1>1, <1>2, <1>3, PTL DEF GateSpec

------------------------------------------------------------------------------
(* Rows to learn from.  The bars of an archive are in the order of time,   *)
(* and so are the intervals they are gathered into; what had been traded   *)
(* by the close of one is what the bars before some position give.         *)

\* The numbers of a finite set, in order: each is at its rank.
LEMMA AscendingOrder ==
    ASSUME NEW S \in SUBSET Int, IsFiniteSet(S)
    PROVE  /\ Cardinality(S) \in Nat /\ DOMAIN Ascending(S) = 1 .. Cardinality(S)
           /\ \A k \in 1 .. Cardinality(S) :
                /\ Ascending(S)[k] \in S
                /\ Cardinality({j \in S : j < Ascending(S)[k]}) = k - 1
           /\ \A x \in S : \E k \in 1 .. Cardinality(S) : Ascending(S)[k] = x
           /\ \A x, y \in S : Cardinality({j \in S : j < x}) = Cardinality({j \in S : j < y})
                                => x = y
<1> DEFINE R == {p \in S \X S : p[1] < p[2]}
           n == Cardinality(S)
           Less(x) == {j \in S : j < x}
<1>1. n \in Nat
  BY FS_CardinalityType
<1>2. \A x, y \in S : <<x, y>> \in R <=> x < y
  OBVIOUS
<1>3. \A x \in S : {y \in S : <<y, x>> \in R} = Less(x)
  BY <1>2
<1> HIDE DEF R
<1>4. \A x \in S : Rank(S, R, x) = Cardinality(Less(x))
  BY <1>3 DEF Rank
<1>5. /\ \A x \in S : <<x, x>> \notin R
      /\ \A x, y \in S : x # y => <<x, y>> \in R \/ <<y, x>> \in R
      /\ \A x, y, z \in S : <<x, y>> \in R /\ <<y, z>> \in R => <<x, z>> \in R
  <2>1. \A x \in S : x \in Int
    OBVIOUS
  <2> QED BY <1>2, <2>1
<1> HIDE DEF Less
<1>6. /\ \A x \in S : Rank(S, R, x) \in 0 .. n - 1
      /\ \A x, y \in S : Rank(S, R, x) = Rank(S, R, y) => x = y
      /\ \A p \in 0 .. n - 1 : \E x \in S : Rank(S, R, x) = p
  <2>1. IsFiniteSet(S) /\ Cardinality(S) = n
    OBVIOUS
  <2>2. \A x \in S : Rank(S, R, x) \in 0 .. Cardinality(S) - 1
    BY ONLY <2>1, <1>5, Ranks
  <2>3. \A x, y \in S : Rank(S, R, x) = Rank(S, R, y) => x = y
    BY ONLY <2>1, <1>5, Ranks
  <2>4. \A p \in 0 .. Cardinality(S) - 1 : \E x \in S : Rank(S, R, x) = p
    <3>1. IsStrictTotalOrder(S, R)
      BY ONLY <1>5 DEF IsStrictTotalOrder
    <3> QED BY ONLY <2>1, <3>1, EveryRankIsTaken
  <2> HIDE DEF n
  <2> QED BY ONLY <2>1, <2>2, <2>3, <2>4
<1> HIDE DEF n
<1>7. ASSUME NEW k \in 1 .. n
      PROVE  Ascending(S)[k] \in S /\ Cardinality(Less(Ascending(S)[k])) = k - 1
  <2>1. k - 1 \in 0 .. n - 1
    BY <1>1
  <2>2. \E x \in S : Cardinality(Less(x)) = k - 1
    BY <2>1, <1>4, <1>6
  <2>3. Ascending(S)[k] = CHOOSE x \in S : Cardinality(Less(x)) = k - 1
    BY <1>7 DEF Ascending, Less, n
  <2> QED BY <2>2, <2>3
<1>8. DOMAIN Ascending(S) = 1 .. n
  BY DEF Ascending, n
<1>9. ASSUME NEW x \in S PROVE \E k \in 1 .. n : Ascending(S)[k] = x
  <2> DEFINE k == Cardinality(Less(x)) + 1
  <2>1. k \in 1 .. n /\ k - 1 = Cardinality(Less(x))
    BY <1>1, <1>4, <1>6
  <2> HIDE DEF k
  <2>2. Ascending(S)[k] \in S /\ Cardinality(Less(Ascending(S)[k])) = Cardinality(Less(x))
    BY <2>1, <1>7
  <2> QED BY <2>1, <2>2, <1>4, <1>6
<1>10. \A x, y \in S : Cardinality(Less(x)) = Cardinality(Less(y)) => x = y
  BY <1>4, <1>6
<1> QED BY <1>1, <1>7, <1>8, <1>9, <1>10 DEF Less, n

\* A smaller position holds a smaller number.
LEMMA AscendingGrows ==
    ASSUME NEW S \in SUBSET Int, IsFiniteSet(S),
           NEW j \in 1 .. Cardinality(S), NEW k \in 1 .. Cardinality(S), j < k
    PROVE  Ascending(S)[j] < Ascending(S)[k]
<1> DEFINE x == Ascending(S)[j]
           y == Ascending(S)[k]
           Less(z) == {i \in S : i < z}
<1>1. /\ x \in S /\ y \in S /\ x \in Int /\ y \in Int
      /\ Cardinality(Less(x)) = j - 1 /\ Cardinality(Less(y)) = k - 1
  BY AscendingOrder
<1> HIDE DEF x, y
<1>2. SUFFICES ASSUME y <= x PROVE FALSE
  BY <1>1 DEF x, y
<1>3. Less(y) \in SUBSET Less(x) /\ IsFiniteSet(Less(x))
  <2>1. IsFiniteSet(Less(x))
    BY FS_Subset
  <2>2. ASSUME NEW i \in Less(y) PROVE i \in Less(x)
    BY <2>2, <1>1, <1>2
  <2> QED BY <2>1, <2>2
<1> HIDE DEF Less
<1>4. Cardinality(Less(y)) <= Cardinality(Less(x))
  BY <1>3, FS_Subset
<1> QED BY <1>1, <1>4

\* The smallest numbers of a set stand first.
LEMMA AscendingBegins ==
    ASSUME NEW S \in SUBSET Int, IsFiniteSet(S), NEW T \in SUBSET S,
           \A x \in S, y \in T : x < y => x \in T
    PROVE  /\ IsFiniteSet(T) /\ Cardinality(T) \in Nat /\ Cardinality(S) \in Nat
           /\ Cardinality(T) <= Cardinality(S)
           /\ \A k \in 1 .. Cardinality(T) : Ascending(T)[k] = Ascending(S)[k]
<1>1. /\ IsFiniteSet(T) /\ Cardinality(T) <= Cardinality(S)
      /\ Cardinality(T) \in Nat /\ Cardinality(S) \in Nat
  BY FS_Subset, FS_CardinalityType
<1>2. T \in SUBSET Int
  OBVIOUS
<1>3. ASSUME NEW k \in 1 .. Cardinality(T) PROVE Ascending(T)[k] = Ascending(S)[k]
  <2> DEFINE x == Ascending(T)[k]
             y == Ascending(S)[k]
  <2>1. x \in T /\ Cardinality({j \in T : j < x}) = k - 1
    BY <1>1, <1>2, AscendingOrder
  <2>2. k \in 1 .. Cardinality(S)
    BY <1>1
  <2>3. y \in S /\ Cardinality({j \in S : j < y}) = k - 1
    BY <2>2, AscendingOrder
  <2> HIDE DEF x, y
  <2>4. {j \in T : j < x} = {j \in S : j < x}
    BY <2>1
  <2>5. Cardinality({j \in S : j < x}) = Cardinality({j \in S : j < y})
    BY <2>1, <2>3, <2>4
  <2>6. x \in S
    BY <2>1
  <2>7. x = y
    BY <2>3, <2>5, <2>6, AscendingOrder
  <2> QED BY <2>7 DEF x, y
<1> QED BY <1>1, <1>3

\* A function on an initial stretch of the numbers is a sequence.
IsFrame(f, n) == n \in Nat /\ f = [k \in 1 .. n |-> f[k]]

\* Its length is where that stretch ends.
LEMMA FrameLength ==
    ASSUME NEW f, NEW n, IsFrame(f, n)
    PROVE  DOMAIN f = 1 .. n /\ Len(f) = n
<1> DEFINE S == {f[k] : k \in 1 .. n}
<1>1. \A k \in 1 .. n : f[k] \in S
  OBVIOUS
<1> HIDE DEF S
<1>2. f \in [1 .. n -> S]
  BY <1>1 DEF IsFrame
<1>3. f \in Seq(S)
  BY <1>2 DEF IsFrame
<1>4. DOMAIN f = 1 .. Len(f) /\ Len(f) \in Nat
  BY <1>3
<1>5. DOMAIN f = 1 .. n /\ n \in Nat
  BY <1>2 DEF IsFrame
<1>6. ASSUME NEW a \in Nat, NEW b \in Nat, 1 .. a = 1 .. b PROVE ~ (a < b)
  <2>1. a < b => b \in 1 .. b /\ b \notin 1 .. a
    OBVIOUS
  <2> QED BY ONLY <2>1, <1>6
<1>7. \A a, b \in Nat : 1 .. a = 1 .. b => a = b
  BY ONLY <1>6
<1> HIDE DEF IsFrame
<1>8. Len(f) = n
  BY ONLY <1>4, <1>5, <1>7
<1> QED BY ONLY <1>5, <1>8

\* What stands at the first positions.
LEMMA PickFirst ==
    ASSUME NEW seq, NEW m \in Nat
    PROVE  Pick(seq, 1 .. m) = [k \in 1 .. m |-> seq[k]]
<1>1. IsFiniteSet(1 .. m) /\ Cardinality(1 .. m) = m /\ 1 .. m \in SUBSET Int
  BY FS_Interval
<1>2. DOMAIN Ascending(1 .. m) = 1 .. m
  BY <1>1, AscendingOrder
<1>3. ASSUME NEW k \in 1 .. m PROVE Ascending(1 .. m)[k] = k
  <2> DEFINE x == Ascending(1 .. m)[k]
  <2>1. x \in 1 .. m /\ Cardinality({j \in 1 .. m : j < x}) = k - 1
    BY <1>1, AscendingOrder
  <2>2. {j \in 1 .. m : j < k} = 1 .. k - 1 /\ k - 1 \in Int /\ k \in Int
    OBVIOUS
  <2>3. Cardinality({j \in 1 .. m : j < k}) = k - 1
    <3>1. Cardinality(1 .. k - 1) = IF 1 > k - 1 THEN 0 ELSE k - 1 - 1 + 1
      BY <2>2, FS_Interval
    <3>2. k \in Int /\ k >= 1
      OBVIOUS
    <3>3. (IF 1 > k - 1 THEN 0 ELSE k - 1 - 1 + 1) = k - 1
      BY ONLY <3>2
    <3> QED BY ONLY <2>2, <3>1, <3>3
  <2> HIDE DEF x
  <2>4. Cardinality({j \in 1 .. m : j < x}) = Cardinality({j \in 1 .. m : j < k})
    BY <2>1, <2>3
  <2>5. x = k
    <3>1. \A y, z \in 1 .. m :
             Cardinality({j \in 1 .. m : j < y}) = Cardinality({j \in 1 .. m : j < z}) => y = z
      BY ONLY <1>1, AscendingOrder
    <3> QED BY ONLY <2>1, <2>4, <3>1, k \in 1 .. m
  <2> QED BY <2>5 DEF x
<1> QED BY <1>2, <1>3 DEF Pick

------------------------------------------------------------------------------
\* Bars in the order of time.
Timed(b, n) ==
    /\ IsFrame(b, n)
    /\ \A i \in 1 .. n : b[i].t \in Nat
    /\ \A i, j \in 1 .. n : i < j => b[i].t < b[j].t

\* The bars before a moment are the first ones.
Early(b, limit) == {i \in DOMAIN b : b[i].t < limit}

\* What they make up is a stretch of the bars themselves.
LEMMA TradedBefore ==
    ASSUME NEW b, NEW n, Timed(b, n), NEW limit \in Int
    PROVE  \E m \in 0 .. n : /\ Early(b, limit) = 1 .. m
                            /\ IsFrame(Pick(b, Early(b, limit)), m)
                            /\ \A k \in 1 .. m : Pick(b, Early(b, limit))[k] = b[k]
<1> DEFINE T == {i \in 1 .. n : b[i].t < limit}
<1>1. DOMAIN b = 1 .. n /\ n \in Nat
  BY FrameLength DEF Timed, IsFrame
<1>2. T \in SUBSET Int /\ IsFiniteSet(T)
  BY <1>1, FS_Interval, FS_Subset
<1>3. \E m \in 0 .. n : T = 1 .. m
  <2>1. CASE T = {}
    <3>1. T = 1 .. 0 /\ 0 \in 0 .. n
      BY <2>1, <1>1
    <3> QED BY <3>1
  <2>2. CASE T # {}
    <3>1. PICK m \in T : \A y \in T : y <= m
      <4> HIDE DEF T
      <4> QED BY <2>2, <1>2, GreatestElement
    <3>2. m \in 1 .. n /\ b[m].t < limit
      BY <3>1
    <3>3. ASSUME NEW i \in 1 .. m PROVE i \in T
      <4>1. i \in 1 .. n /\ i \in Int /\ m \in Int /\ i <= m
        BY <3>2, <1>1
      <4>2. b[i].t \in Nat /\ b[m].t \in Nat /\ (i < m => b[i].t < b[m].t)
        BY <4>1, <3>2 DEF Timed
      <4>3. b[i].t < limit
        BY <4>1, <4>2, <3>2
      <4> QED BY <4>1, <4>3
    <3>4. \A i \in T : i \in 1 .. m
      BY <3>1, <3>2, <1>1
    <3>5. T = 1 .. m /\ m \in 0 .. n
      BY <3>2, <3>3, <3>4
    <3> QED BY <3>5
  <2> QED BY <2>1, <2>2
<1>4. Early(b, limit) = T
  BY <1>1 DEF Early
<1> HIDE DEF T
<1>5. PICK m \in 0 .. n : T = 1 .. m
  BY <1>3
<1>6. IsFrame(Pick(b, T), m) /\ \A k \in 1 .. m : Pick(b, T)[k] = b[k]
  <2>1. Pick(b, T) = [k \in 1 .. m |-> b[k]]
    BY <1>5, PickFirst
  <2> QED BY <2>1, <1>1 DEF IsFrame
<1> QED BY <1>4, <1>5, <1>6

\* The intervals of later bars are no earlier, and a bar that opens one is in a
\* later interval than all the bars before it.
LEMMA IntervalFacts ==
    ASSUME NEW b, NEW n, Timed(b, n), NEW slots \in Nat \ {0}
    PROVE  /\ DOMAIN b = 1 .. n /\ n \in Nat
           /\ Opens(b, slots) \subseteq 1 .. n /\ Opens(b, slots) \in SUBSET Int
           /\ IsFiniteSet(Opens(b, slots))
           /\ \A i \in 1 .. n : /\ IntervalStart(b[i].t, slots) \in Nat
                                /\ IntervalStart(b[i].t, slots) <= b[i].t
                                /\ b[i].t < IntervalStart(b[i].t, slots) + slots
           /\ \A i, j \in 1 .. n :
                i <= j => IntervalStart(b[i].t, slots) <= IntervalStart(b[j].t, slots)
           /\ \A i, j \in 1 .. n :
                IntervalStart(b[i].t, slots) < IntervalStart(b[j].t, slots) =>
                    IntervalStart(b[i].t, slots) + slots <= IntervalStart(b[j].t, slots)
           /\ \A i \in 1 .. n, o \in Opens(b, slots) :
                i < o => IntervalStart(b[i].t, slots) < IntervalStart(b[o].t, slots)
<1> DEFINE S(i) == IntervalStart(b[i].t, slots)
<1>1. DOMAIN b = 1 .. n /\ n \in Nat /\ \A i \in 1 .. n : i \in Int
  BY FrameLength DEF Timed, IsFrame
<1>2. Opens(b, slots) \subseteq 1 .. n
  BY <1>1 DEF Opens
<1>3. IsFiniteSet(Opens(b, slots)) /\ Opens(b, slots) \in SUBSET Int
  <2>1. IsFiniteSet(1 .. n)
    BY <1>1, FS_Interval
  <2> QED BY <2>1, <1>1, <1>2, FS_Subset
<1>4. ASSUME NEW i \in 1 .. n PROVE S(i) \in Nat /\ S(i) <= b[i].t /\ b[i].t < S(i) + slots
  <2>1. b[i].t \in Nat
    BY DEF Timed
  <2> QED BY <2>1, Division DEF IntervalStart
<1>5. ASSUME NEW i \in 1 .. n, NEW j \in 1 .. n, i <= j PROVE S(i) <= S(j)
  <2>1. b[i].t \in Nat /\ b[j].t \in Nat /\ i \in Int /\ j \in Int
    BY <1>1 DEF Timed
  <2>2. b[i].t <= b[j].t
    <3>1. CASE i = j
      BY <3>1, <2>1
    <3>2. CASE i < j
      BY <3>2, <2>1 DEF Timed
    <3> QED BY <3>1, <3>2, <2>1, <1>5
  <2> QED BY <2>1, <2>2, Division DEF IntervalStart
<1>6. ASSUME NEW i \in 1 .. n, NEW j \in 1 .. n, S(i) < S(j) PROVE S(i) + slots <= S(j)
  <2>1. b[i].t \in Nat /\ b[j].t \in Nat
    BY DEF Timed
  <2> QED BY <2>1, <1>6, Division DEF IntervalStart
<1>7. ASSUME NEW i \in 1 .. n, NEW o \in Opens(b, slots), i < o PROVE S(i) < S(o)
  <2>1. o \in 1 .. n /\ o # 1 /\ o - 1 \in 1 .. n /\ i <= o - 1 /\ o - 1 <= o
    BY <1>1, <1>2, <1>7
  <2>2. S(o) # S(o - 1)
    BY <2>1 DEF Opens
  <2>3. S(i) <= S(o - 1) /\ S(o - 1) <= S(o)
    BY <2>1, <1>5
  <2>4. S(i) \in Nat /\ S(o - 1) \in Nat /\ S(o) \in Nat
    BY <2>1, <1>4
  <2> HIDE DEF S
  <2> QED BY ONLY <2>2, <2>3, <2>4
<1> QED BY <1>1, <1>2, <1>3, <1>4, <1>5, <1>6, <1>7

\* A frame has a bar for each bar that opens an interval, in the order of time.
LEMMA FrameFacts ==
    ASSUME NEW b, NEW n, Timed(b, n), NEW slots \in Nat \ {0}
    PROVE  LET opens == Opens(b, slots)
               frame == Resample(b, slots)
           IN  /\ Timed(frame, Cardinality(opens))
               /\ \A k \in 1 .. Cardinality(opens) :
                    /\ Ascending(opens)[k] \in opens
                    /\ frame[k].t = IntervalStart(b[Ascending(opens)[k]].t, slots)
                    /\ frame[k] = Aggregate(b, slots, frame[k].t)
<1> DEFINE opens == Opens(b, slots)
           frame == Resample(b, slots)
           size == Cardinality(opens)
           S(i) == IntervalStart(b[i].t, slots)
           at == Ascending(opens)
           opening == Pick(b, opens)
<1>1. opens \in SUBSET Int /\ IsFiniteSet(opens) /\ opens \subseteq 1 .. n
      /\ \A i \in 1 .. n : S(i) \in Nat
  BY IntervalFacts
<1>2. size \in Nat /\ DOMAIN at = 1 .. size /\ \A k \in 1 .. size : at[k] \in opens
  <2> HIDE DEF opens
  <2> QED BY <1>1, AscendingOrder
<1>3. DOMAIN opening = 1 .. size /\ \A k \in 1 .. size : opening[k] = b[at[k]]
  BY <1>2 DEF Pick
<1>4. frame = [k \in 1 .. size |-> Aggregate(b, slots, S(at[k]))]
  BY <1>3 DEF Resample
<1>5. \A start : Aggregate(b, slots, start).t = start
  BY DEF Aggregate
<1>6. \A k \in 1 .. size : /\ frame[k] = Aggregate(b, slots, S(at[k]))
                          /\ frame[k].t = S(at[k])
  BY <1>4, <1>5
<1>7. IsFrame(frame, size)
  <2>1. frame = [k \in 1 .. size |-> frame[k]]
    BY <1>4
  <2> QED BY <2>1, <1>2 DEF IsFrame
<1>8. \A k \in 1 .. size : frame[k].t \in Nat
  BY <1>1, <1>2, <1>6
<1>9. ASSUME NEW j \in 1 .. size, NEW k \in 1 .. size, j < k
      PROVE  frame[j].t < frame[k].t
  <2>1. at[j] < at[k]
    <3> HIDE DEF opens
    <3> QED BY <1>1, <1>9, AscendingGrows
  <2>2. at[j] \in 1 .. n /\ at[k] \in opens
    BY <1>1, <1>2
  <2>3. S(at[j]) < S(at[k])
    BY <2>1, <2>2, IntervalFacts
  <2> QED BY <2>3, <1>6
<1>10. Timed(frame, size)
  <2> HIDE DEF frame, size
  <2> QED BY <1>7, <1>8, <1>9 DEF Timed
<1> QED BY <1>2, <1>6, <1>10

\* Finite sets of numbers have a greatest and a least one.
LEMMA Extremes ==
    ASSUME NEW T \in SUBSET Int, IsFiniteSet(T), T # {}
    PROVE  /\ Max(T) \in T /\ \A y \in T : y <= Max(T)
           /\ Min(T) \in T /\ \A y \in T : Min(T) <= y
<1>1. PICK x \in T : \A y \in T : y <= x
  BY GreatestElement
<1>2. \A y \in T : x >= y
  BY <1>1
<1>3. Max(T) \in T /\ \A y \in T : Max(T) >= y
  BY <1>2 DEF Max
<1>4. \E z \in T : \A y \in T : z <= y
  BY LeastElement
<1>5. Min(T) \in T /\ \A y \in T : Min(T) <= y
  BY <1>4 DEF Min
<1>6. \A y \in T : y <= Max(T)
  BY <1>3
<1> QED BY <1>3, <1>5, <1>6

\* What had been traded by the close of a bar of a frame gives the frame up to
\* that bar.
LEMMA TradedFrame ==
    ASSUME NEW b, NEW n, Timed(b, n), NEW slots \in Nat \ {0},
           NEW k \in 1 .. Cardinality(Opens(b, slots)), NEW limit,
           limit = Resample(b, slots)[k].t + slots
    PROVE  Resample(Pick(b, Early(b, limit)), slots)
             = [j \in 1 .. k |-> Resample(b, slots)[j]]
<1> DEFINE opens == Opens(b, slots)
           frame == Resample(b, slots)
           at == Ascending(opens)
           S(i) == IntervalStart(b[i].t, slots)
           traded == Pick(b, Early(b, limit))
           T == Opens(traded, slots)
<1>1. /\ Timed(frame, Cardinality(opens))
      /\ \A j \in 1 .. Cardinality(opens) :
            at[j] \in opens /\ frame[j].t = S(at[j]) /\ frame[j] = Aggregate(b, slots, frame[j].t)
  BY FrameFacts
<1>2. /\ DOMAIN b = 1 .. n /\ n \in Nat
      /\ opens \subseteq 1 .. n /\ opens \in SUBSET Int /\ IsFiniteSet(opens)
      /\ \A i \in 1 .. n : S(i) \in Nat /\ S(i) <= b[i].t /\ b[i].t < S(i) + slots
      /\ \A i, j \in 1 .. n : i <= j => S(i) <= S(j)
      /\ \A i, j \in 1 .. n : S(i) < S(j) => S(i) + slots <= S(j)
      /\ \A i \in 1 .. n, o \in opens : i < o => S(i) < S(o)
  BY IntervalFacts
<1>3. /\ Cardinality(opens) \in Nat /\ k \in Nat /\ k >= 1 /\ k <= Cardinality(opens)
      /\ k \in 1 .. Cardinality(opens) /\ 1 .. k \subseteq 1 .. Cardinality(opens)
      /\ frame[k].t \in Nat /\ limit \in Int
  BY <1>1, <1>2, FS_CardinalityType DEF Timed
<1>4. PICK m \in 0 .. n : /\ Early(b, limit) = 1 .. m
                         /\ IsFrame(traded, m) /\ \A i \in 1 .. m : traded[i] = b[i]
  <2>1. limit \in Int /\ Timed(b, n)
    BY <1>3
  <2> QED BY ONLY <2>1, TradedBefore DEF traded
<1>5. ASSUME NEW i \in 1 .. n PROVE i <= m <=> b[i].t < limit
  <2>1. i \in 1 .. m <=> b[i].t < limit
    BY <1>2, <1>4 DEF Early
  <2> QED BY <2>1, <1>2
<1>6. /\ DOMAIN traded = 1 .. m /\ m \in Nat /\ m <= n /\ 1 .. m \subseteq 1 .. n
      /\ \A i \in 1 .. m : traded[i] = b[i]
  <2>1. DOMAIN traded = 1 .. m /\ \A i \in 1 .. m : traded[i] = b[i]
    BY ONLY <1>4, FrameLength
  <2>2. m \in Nat /\ m <= n /\ 1 .. m \subseteq 1 .. n
    BY ONLY <1>2, m \in 0 .. n
  <2> QED BY ONLY <2>1, <2>2
<1> HIDE DEF traded
<1>7. Timed(traded, m)
  BY <1>4, <1>6 DEF Timed
<1>8. T = {o \in opens : o <= m}
  <2>1. \A i \in 1 .. m : i # 1 => i - 1 \in 1 .. m
    BY <1>6
  <2>2. \A i \in 1 .. m : i \in T <=> i \in opens
    BY <2>1, <1>2, <1>6 DEF Opens
  <2>3. \A i \in T : i \in 1 .. m
    BY <1>6 DEF Opens
  <2>4. \A o \in opens : o <= m <=> o \in 1 .. m
    BY <1>2, <1>6
  <2> HIDE DEF T, opens
  <2> QED BY <2>2, <2>3, <2>4
<1> HIDE DEF opens, at, frame, T, S
<1>9. at[k] \in opens /\ at[k] \in 1 .. n /\ limit = S(at[k]) + slots
  BY <1>1, <1>2, <1>3 DEF frame
<1>10. ASSUME NEW o \in opens PROVE o <= m <=> o <= at[k]
  <2>1. o \in 1 .. n /\ o \in Int /\ at[k] \in Int /\ S(o) \in Nat /\ S(at[k]) \in Nat
        /\ b[o].t \in Nat
    BY <1>2, <1>9 DEF Timed
  <2>2. ASSUME o <= at[k] PROVE b[o].t < limit
    <3>1. S(o) <= S(at[k])
      BY <2>1, <2>2, <1>2, <1>9
    <3>2. b[o].t < S(o) + slots
      BY <2>1, <1>2
    <3> QED BY ONLY <3>1, <3>2, <2>1, <1>9, slots \in Nat
  <2>3. ASSUME at[k] < o PROVE ~ (b[o].t < limit)
    <3>1. S(at[k]) < S(o)
      BY <2>1, <2>3, <1>2, <1>9
    <3>2. S(at[k]) + slots <= S(o)
      BY <2>1, <3>1, <1>2, <1>9
    <3>3. S(o) <= b[o].t
      BY <2>1, <1>2
    <3> QED BY ONLY <3>2, <3>3, <2>1, <1>9, slots \in Nat
  <2> QED BY <2>1, <2>2, <2>3, <1>5
<1>11. T \in SUBSET opens /\ \A x \in opens, y \in T : x < y => x \in T
  <2>1. \A x \in opens : x \in Int
    BY <1>2
  <2> QED BY <2>1, <1>6, <1>8
<1>12. Cardinality(T) = k
  <2> DEFINE less == {o \in opens : o < at[k]}
  <2>1. Cardinality(less) = k - 1 /\ IsFiniteSet(less)
    <3>1. IsFiniteSet(less)
      BY <1>2, FS_Subset
    <3>2. Cardinality(less) = k - 1
      BY <1>2, <1>3, AscendingOrder DEF at
    <3> QED BY <3>1, <3>2
  <2>2. T = less \cup {at[k]} /\ at[k] \notin less
    <3>1. \A o \in opens : o \in Int
      BY <1>2
    <3>2. \A o \in opens : o \in T <=> o \in less \/ o = at[k]
      BY <3>1, <1>8, <1>9, <1>10
    <3>3. at[k] \notin less
      BY <3>1, <1>9
    <3> QED BY <3>2, <3>3, <1>9, <1>11
  <2> HIDE DEF less
  <2>3. Cardinality(T) = k - 1 + 1
    BY <2>1, <2>2, FS_AddElement
  <2> QED BY <2>3, <1>3
<1>13. \A j \in 1 .. k : Ascending(T)[j] = at[j]
  BY <1>2, <1>11, <1>12, AscendingBegins DEF at
<1> DEFINE past == Resample(traded, slots)
<1>14. /\ Timed(past, k)
       /\ \A j \in 1 .. k :
             /\ Ascending(T)[j] \in T
             /\ past[j].t = IntervalStart(traded[Ascending(T)[j]].t, slots)
             /\ past[j] = Aggregate(traded, slots, past[j].t)
  BY <1>7, <1>12, FrameFacts DEF T
<1>15. ASSUME NEW j \in 1 .. k PROVE past[j].t = frame[j].t
  <2>1. j \in 1 .. Cardinality(opens)
    BY <1>3
  <2>2. at[j] \in T /\ at[j] \in opens
    BY <1>13, <1>14, <1>11
  <2>3. at[j] \in 1 .. m
    <3>1. at[j] \in 1 .. n /\ at[j] <= m
      BY <2>2, <1>2, <1>8
    <3> QED BY ONLY <3>1, <1>2, <1>6
  <2>4. traded[at[j]].t = b[at[j]].t
    BY <2>3, <1>6
  <2> QED BY <2>1, <2>4, <1>1, <1>13, <1>14 DEF S
<1>16. ASSUME NEW j \in 1 .. k PROVE past[j] = frame[j]
  <2> DEFINE start == frame[j].t
             W == {i \in 1 .. n : S(i) = start}
  <2>1. j \in 1 .. Cardinality(opens) /\ at[j] \in 1 .. n /\ S(at[j]) = start
    <3>1. j \in 1 .. Cardinality(opens)
      BY <1>3
    <3> QED BY <3>1, <1>1, <1>2
  <2>2. start + slots <= limit
    <3>1. frame[j].t \in Nat /\ (j < k => frame[j].t < frame[k].t)
      BY <2>1, <1>1, <1>3 DEF Timed
    <3>2. frame[j].t <= frame[k].t
      BY <3>1, <1>3
    <3> QED BY <3>1, <3>2, <1>3 DEF frame
  <2>3. ASSUME NEW i \in 1 .. n, S(i) = start PROVE i \in 1 .. m
    <3>1. b[i].t < S(i) + slots /\ b[i].t \in Nat /\ S(i) \in Nat
      BY <1>2 DEF Timed
    <3>2. b[i].t < limit
      BY ONLY <3>1, <2>2, <2>3, <1>3, slots \in Nat
    <3> QED BY <3>2, <1>5, <1>6
  <2>4. ASSUME NEW i \in 1 .. m
        PROVE  i \in 1 .. n /\ IntervalStart(traded[i].t, slots) = S(i)
    BY <1>6 DEF S
  <2>5. {i \in DOMAIN traded : IntervalStart(traded[i].t, slots) = start} = W
    <3> HIDE DEF start
    <3> QED BY <2>3, <2>4, <1>6
  <2>6. {i \in DOMAIN b : IntervalStart(b[i].t, slots) = start} = W
    BY <1>2 DEF S
  <2>7. \A i \in W : traded[i] = b[i]
    BY <2>3, <1>6
  <2>8. Max(W) \in W
    <3>1. W \in SUBSET Int /\ IsFiniteSet(W) /\ W # {}
      <4>1. IsFiniteSet(1 .. n)
        BY <1>2, FS_Interval
      <4>2. W \in SUBSET (1 .. n)
        OBVIOUS
      <4>3. IsFiniteSet(W)
        <5> HIDE DEF W
        <5> QED BY <4>1, <4>2, FS_Subset
      <4>4. at[j] \in W
        BY <2>1
      <4> QED BY <4>2, <4>3, <4>4, <1>2
    <3> HIDE DEF W
    <3> QED BY <3>1, Extremes
  <2> HIDE DEF W, start
  <2>9. /\ {traded[i].high : i \in W} = {b[i].high : i \in W}
        /\ {traded[i].low : i \in W} = {b[i].low : i \in W}
        /\ traded[Max(W)] = b[Max(W)]
        /\ [i \in W |-> traded[i].volume] = [i \in W |-> b[i].volume]
    BY <2>7, <2>8
  <2>10. Aggregate(traded, slots, start) = Aggregate(b, slots, start)
    BY ONLY <2>5, <2>6, <2>9 DEF Aggregate, SumOver
  <2> QED BY <2>1, <2>10, <1>1, <1>14, <1>15 DEF start
<1>17. past = [j \in 1 .. k |-> past[j]]
  BY <1>14 DEF Timed, IsFrame
<1> HIDE DEF past
<1>18. past = [j \in 1 .. k |-> frame[j]]
  BY <1>16, <1>17
<1> QED BY <1>18 DEF past, traded, frame

------------------------------------------------------------------------------
\* Every feature looks back: it is the same on the bars up to its own.
LEMMA FeaturesLookBack ==
    ASSUME NEW f, NEW k \in Nat \ {0}, NEW g,
           \A j \in 1 .. k : g[j] = f[j],
           NEW n \in Nat, DOMAIN f = 1 .. n, k <= n, DOMAIN g = 1 .. k
    PROVE  FeatureRow(g, k) = FeatureRow(f, k)
<1>1. /\ Window \in Nat /\ Window >= 2 /\ Lookback \in Nat /\ Lookback >= 2
  BY FeatureAssumption
<1>2. ASSUME NEW i \in 2 .. k PROVE LogReturn(g, i) = LogReturn(f, i)
  <2>1. i \in 1 .. k /\ i - 1 \in 1 .. k
    OBVIOUS
  <2> QED BY <2>1 DEF LogReturn
<1>3. ASSUME NEW j \in Int, j <= k PROVE RealizedVolatility(g, j) = RealizedVolatility(f, j)
  <2>1. CASE j <= Window
    BY <2>1 DEF RealizedVolatility
  <2>2. CASE ~ (j <= Window)
    <3> DEFINE S == Trailing(j, Window)
    <3>1. \A i \in S : i \in 2 .. k
      BY <1>1, <1>3, <2>2 DEF Trailing
    <3> HIDE DEF S
    <3>2. /\ [i \in S |-> LogReturn(g, i)] = [i \in S |-> LogReturn(f, i)]
          /\ [i \in S |-> LogReturn(g, i) * LogReturn(g, i)]
               = [i \in S |-> LogReturn(f, i) * LogReturn(f, i)]
      BY <3>1, <1>2
    <3>3. \A h : RealizedVolatility(h, j)
                  = Cardinality(S) * SumFunction([i \in S |-> LogReturn(h, i) * LogReturn(h, i)])
                     - SumFunction([i \in S |-> LogReturn(h, i)])
                         * SumFunction([i \in S |-> LogReturn(h, i)])
      BY <2>2 DEF RealizedVolatility, Dispersion, SumOver, S
    <3> QED BY <3>2, <3>3
  <2> QED BY <2>1, <2>2
<1>4. Atr(g, k) = Atr(f, k)
  <2>1. CASE k < Window
    BY <2>1 DEF Atr
  <2>2. CASE ~ (k < Window)
    <3> DEFINE S == Trailing(k, Window)
               Range_(h, i) == Max({h[i].high - h[i].low} \cup
                UNION {{h[i].high - h[j].close, h[j].close - h[i].low}
                         : j \in {i - 1} \cap DOMAIN h})
    <3>1. \A i \in S : i \in 1 .. k
      BY <1>1, <2>2 DEF Trailing
    <3>2. ASSUME NEW i \in 1 .. k PROVE Range_(g, i) = Range_(f, i)
      <4>1. {i - 1} \cap DOMAIN g = {i - 1} \cap DOMAIN f
        BY i - 1 \in DOMAIN f <=> i - 1 \in DOMAIN g
      <4>2. g[i] = f[i] /\ \A j \in {i - 1} \cap DOMAIN f : g[j] = f[j]
        BY <4>1
      <4>3. {{g[i].high - g[j].close, g[j].close - g[i].low} : j \in {i - 1} \cap DOMAIN g}
          = {{f[i].high - f[j].close, f[j].close - f[i].low} : j \in {i - 1} \cap DOMAIN f}
        BY <4>1, <4>2
      <4> QED BY <4>2, <4>3
    <3> HIDE DEF S, Range_
    <3>3. [i \in S |-> Range_(g, i)] = [i \in S |-> Range_(f, i)]
      BY <3>1, <3>2
    <3>4. \A h : Atr(h, k) = SumFunction([i \in S |-> Range_(h, i)])
      BY <2>2 DEF Atr, SumOver, S, Range_
    <3> QED BY <3>3, <3>4
  <2> QED BY <2>1, <2>2
<1>5. ParkinsonVolatility(g, k) = ParkinsonVolatility(f, k)
  <2>1. CASE k < Window
    BY <2>1 DEF ParkinsonVolatility
  <2>2. CASE ~ (k < Window)
    <3> DEFINE S == Trailing(k, Window)
               Square(h, i) == (h[i].high - h[i].low) * (h[i].high - h[i].low)
    <3>1. \A i \in S : i \in 1 .. k
      BY <1>1, <2>2 DEF Trailing
    <3>2. [i \in S |-> Square(g, i)] = [i \in S |-> Square(f, i)]
      <4> HIDE DEF S
      <4> QED BY <3>1
    <3> HIDE DEF S
    <3>3. \A h : ParkinsonVolatility(h, k) = SumFunction([i \in S |-> Square(h, i)])
      BY <2>2 DEF ParkinsonVolatility, SumOver, S
    <3> QED BY <3>2, <3>3
  <2> QED BY <2>1, <2>2
<1>6. VwapDeviation(g, k) = VwapDeviation(f, k)
  <2> DEFINE today(h) == {i \in 1 .. k : Day(h[i].t) = Day(h[k].t)}
             volume(h) == SumFunction([i \in today(h) |-> h[i].volume])
             value(h) == SumFunction([i \in today(h) |->
                                        (h[i].high + h[i].low + h[i].close) * h[i].volume])
  <2>1. k \in 1 .. k
    OBVIOUS
  <2>2. today(g) = today(f)
    BY <2>1
  <2>3. volume(g) = volume(f) /\ value(g) = value(f)
    <3>1. \A i \in today(f) : g[i] = f[i]
      OBVIOUS
    <3> DEFINE T == today(f)
    <3> HIDE DEF today, T
    <3>2. /\ [i \in T |-> g[i].volume] = [i \in T |-> f[i].volume]
          /\ [i \in T |-> (g[i].high + g[i].low + g[i].close) * g[i].volume]
              = [i \in T |-> (f[i].high + f[i].low + f[i].close) * f[i].volume]
      BY <3>1 DEF T
    <3> QED BY <2>2, <3>2 DEF T
  <2>4. \A h : VwapDeviation(h, k) = IF volume(h) = 0 THEN None
                  ELSE [over |-> 3 * h[k].close * volume(h) - value(h), vwap |-> value(h)]
    BY DEF VwapDeviation, SumOver
  <2> HIDE DEF volume, value
  <2> QED BY <2>1, <2>3, <2>4
<1>7. VolatilityRegime(g, k) = VolatilityRegime(f, k)
  <2> DEFINE past(h) == [i \in 1 .. Lookback |-> RealizedVolatility(h, k - Lookback + i)]
  <2>1. past(g) = past(f)
    <3>1. \A i \in 1 .. Lookback : k - Lookback + i \in Int /\ k - Lookback + i <= k
      BY <1>1
    <3>2. \A i \in 1 .. Lookback :
             RealizedVolatility(g, k - Lookback + i) = RealizedVolatility(f, k - Lookback + i)
      BY <1>3, <3>1
    <3> QED BY <3>2
  <2>2. RealizedVolatility(g, k) = RealizedVolatility(f, k)
    BY <1>3
  <2> DEFINE middle(p) == {SortSeq(p, <)[(Lookback + 1) \div 2],
                           SortSeq(p, <)[(Lookback \div 2) + 1]}
  <2>3. \A h : VolatilityRegime(h, k)
                = IF k < Lookback + Window THEN None
                  ELSE IF middle(past(h)) = {0} THEN None
                  ELSE [volatility |-> RealizedVolatility(h, k), median |-> middle(past(h))]
    BY DEF VolatilityRegime
  <2> HIDE DEF past, middle
  <2> QED BY <2>1, <2>2, <2>3
<1>8. TrendStrength(g, k) = TrendStrength(f, k)
  <2>1. CASE k < Window
    BY <2>1 DEF TrendStrength
  <2>2. CASE ~ (k < Window)
    <3> DEFINE S == Trailing(k, Window)
               sum(h) == SumFunction([i \in S |-> h[i].close])
               squares(h) == SumFunction([i \in S |-> h[i].close * h[i].close])
               spread(h) == Cardinality(S) * squares(h) - sum(h) * sum(h)
    <3>1. \A i \in S : i \in 1 .. k
      BY <1>1, <2>2 DEF Trailing
    <3> HIDE DEF S
    <3>2. sum(g) = sum(f) /\ squares(g) = squares(f)
      <4>1. /\ [i \in S |-> g[i].close] = [i \in S |-> f[i].close]
            /\ [i \in S |-> g[i].close * g[i].close] = [i \in S |-> f[i].close * f[i].close]
        BY <3>1
      <4> QED BY <4>1
    <3>3. \A h : TrendStrength(h, k)
                  = IF spread(h) = 0 THEN None
                    ELSE [over |-> Window * h[k].close - sum(h), spread |-> spread(h)]
      BY <2>2 DEF TrendStrength, Dispersion, SumOver, S
    <3>4. g[k].close = f[k].close
      OBVIOUS
    <3> HIDE DEF sum, squares
    <3> QED BY <3>2, <3>3, <3>4
  <2> QED BY <2>1, <2>2
<1>9. (IF k = 1 THEN None ELSE LogReturn(g, k)) = (IF k = 1 THEN None ELSE LogReturn(f, k))
  BY <1>2
<1>10. RealizedVolatility(g, k) = RealizedVolatility(f, k)
  BY <1>3
<1> QED BY ONLY <1>4, <1>5, <1>6, <1>7, <1>8, <1>9, <1>10 DEF FeatureRow

------------------------------------------------------------------------------
\* The filter takes its bars one by one.
Quiet == [up |-> 0, down |-> 0, events |-> {}]
Summed(f, s, k) ==
    LET up   == Max({0, s.up + LogReturn(f, k)})
        down == Min({0, s.down + LogReturn(f, k)})
        rises == up >= Threshold
        falls == ~ rises /\ down <= - Threshold
    IN  [up |-> IF rises THEN 0 ELSE up,
         down |-> IF falls THEN 0 ELSE down,
         events |-> s.events \cup {i \in {k} : rises \/ falls}]
After(f, run, k) == IF k = 1 THEN Quiet ELSE Summed(f, run[k - 1], k)
IsRun(f, run, m) == IsFrame(run, m) /\ \A k \in 1 .. m : run[k] = After(f, run, k)

\* It gets through every frame.
LEMMA RunExists ==
    ASSUME NEW f, NEW n \in Nat
    PROVE  \E run : IsRun(f, run, n)
<1> DEFINE Without == {m \in 0 .. n : ~ \E run : IsRun(f, run, m)}
<1>1. SUFFICES Without = {}
  BY n \in 0 .. n
<1>2. SUFFICES ASSUME Without # {} PROVE FALSE
  OBVIOUS
<1>3. IsFiniteSet(Without) /\ Without \in SUBSET Int
  <2>1. IsFiniteSet(0 .. n)
    BY FS_Interval
  <2>2. Without \in SUBSET (0 .. n) /\ Without \in SUBSET Int
    OBVIOUS
  <2> HIDE DEF Without
  <2> QED BY <2>1, <2>2, FS_Subset
<1>4. PICK m \in Without : \A y \in Without : m <= y
  <2> HIDE DEF Without
  <2> QED BY <1>2, <1>3, LeastElement
<1>5. m \in 0 .. n /\ ~ \E run : IsRun(f, run, m)
  OBVIOUS
<1>6. m # 0
  <2> DEFINE none == [k \in 1 .. 0 |-> Quiet]
  <2>1. IsRun(f, none, 0)
    BY DEF IsRun, IsFrame
  <2> QED BY <2>1, <1>5
<1>7. m - 1 \in 0 .. n /\ ~ (m <= m - 1) /\ m \in Nat
  BY <1>5, <1>6
<1>8. PICK old : IsRun(f, old, m - 1)
  <2>1. m - 1 \notin Without
    BY <1>4, <1>7
  <2> QED BY <2>1, <1>7
<1> HIDE DEF Without
<1> DEFINE run == [k \in 1 .. m |-> IF k = m THEN After(f, old, k) ELSE old[k]]
<1>9. ASSUME NEW k \in 1 .. m PROVE run[k] = After(f, run, k)
  <2>1. k # 1 => k - 1 \in 1 .. m /\ k - 1 # m
    BY <1>7
  <2>2. k # 1 => run[k - 1] = old[k - 1]
    BY <2>1
  <2>3. After(f, run, k) = After(f, old, k)
    BY <2>2 DEF After
  <2>4. k # m => k \in 1 .. m - 1
    BY <1>7
  <2>5. k # m => old[k] = After(f, old, k)
    BY <2>4, <1>8 DEF IsRun
  <2> QED BY <2>3, <2>5
<1>10. IsFrame(run, m)
  BY <1>7 DEF IsFrame
<1> HIDE DEF run
<1>11. IsRun(f, run, m)
  BY <1>9, <1>10 DEF IsRun
<1> QED BY <1>5, <1>11

\* ... and asks for what the last of its sums holds.
LEMMA EventsRun ==
    ASSUME NEW f, NEW n, IsFrame(f, n)
    PROVE  \E run : /\ IsRun(f, run, n)
                    /\ CusumEvents(f) = IF n = 0 THEN {} ELSE run[n].events
<1> DEFINE sums == CHOOSE run : run = [k \in 1 .. n |-> After(f, run, k)]
<1>1. n \in Nat /\ Len(f) = n /\ DOMAIN f = 1 .. n /\ (f = << >> <=> n = 0)
  <2>1. n \in Nat /\ Len(f) = n /\ DOMAIN f = 1 .. n
    BY FrameLength DEF IsFrame
  <2>2. n = 0 => f = << >>
    <3>1. n = 0 => DOMAIN f = {}
      BY <2>1
    <3> QED BY <3>1 DEF IsFrame
  <2>3. f = << >> => n = 0
    BY <2>1
  <2> QED BY <2>1, <2>2, <2>3
<1>2. CusumEvents(f) = IF f = << >> THEN {} ELSE sums[n].events
  BY ONLY <1>1 DEF CusumEvents, After, Quiet, Summed
<1>3. \E run : run = [k \in 1 .. n |-> After(f, run, k)]
  <2>1. PICK run : IsRun(f, run, n)
    BY <1>1, RunExists
  <2>2. run = [k \in 1 .. n |-> After(f, run, k)]
    BY <2>1 DEF IsRun, IsFrame
  <2> QED BY <2>2
<1>4. sums = [k \in 1 .. n |-> After(f, sums, k)]
  BY <1>3
<1> HIDE DEF sums
<1>5. \A k \in 1 .. n : sums[k] = After(f, sums, k)
  BY <1>4
<1>6. IsFrame(sums, n)
  BY <1>1, <1>4, <1>5 DEF IsFrame
<1>7. IsRun(f, sums, n)
  BY <1>5, <1>6 DEF IsRun
<1> QED BY <1>1, <1>2, <1>7

\* A bar is asked about when it is taken, and not after.
LEMMA EventsGrow ==
    ASSUME NEW f, NEW run, NEW n \in Nat, IsRun(f, run, n), NEW k \in 0 .. n, NEW i \in 1 .. n, k <= i
    PROVE  /\ k = 0 => run[i].events \subseteq 1 .. i
           /\ k > 0 => \A x \in 1 .. k : x \in run[i].events <=> x \in run[k].events
<1> DEFINE Fine(m) == /\ k = 0 => run[m].events \subseteq 1 .. m
                      /\ k > 0 => \A x \in 1 .. k : x \in run[m].events <=> x \in run[k].events
           Odd == {m \in 1 .. n : k <= m /\ ~ Fine(m)}
<1>1. SUFFICES ASSUME Odd # {} PROVE FALSE
  OBVIOUS
<1>2. IsFiniteSet(Odd) /\ Odd \in SUBSET Int
  <2>1. IsFiniteSet(1 .. n)
    BY FS_Interval
  <2>2. Odd \in SUBSET (1 .. n) /\ Odd \in SUBSET Int
    OBVIOUS
  <2> HIDE DEF Odd
  <2> QED BY <2>1, <2>2, FS_Subset
<1>3. PICK m \in Odd : \A y \in Odd : m <= y
  <2> HIDE DEF Odd
  <2> QED BY <1>1, <1>2, LeastElement
<1>4. m \in 1 .. n /\ m \in Int /\ k \in Int /\ k <= m /\ ~ Fine(m)
  OBVIOUS
<1>5. run[m] = After(f, run, m)
  BY <1>4 DEF IsRun
<1>6. m # k
  BY <1>4
<1>7. CASE m = 1
  <2>1. k = 0
    BY <1>4, <1>6, <1>7
  <2>2. run[m].events = {}
    BY <1>5, <1>7 DEF After, Quiet
  <2> QED BY <1>4, <2>1, <2>2
<1>8. CASE m # 1
  <2>1. m - 1 \in 1 .. n /\ ~ (m <= m - 1) /\ k <= m - 1
    BY <1>4, <1>6, <1>8
  <2>2. Fine(m - 1)
    BY <2>1, <1>3
  <2>3. /\ run[m].events \subseteq run[m - 1].events \cup {m}
        /\ run[m - 1].events \subseteq run[m].events
    BY <1>5, <1>8 DEF After, Summed
  <2>4. 1 .. m - 1 \subseteq 1 .. m /\ m \in 1 .. m /\ m \notin 1 .. k
    BY <1>4, <2>1
  <2> HIDE DEF Odd
  <2> QED BY <1>4, <2>2, <2>3, <2>4
<1> QED BY <1>7, <1>8

\* It asks only about bars it has been given.
LEMMA EventsAreBars ==
    ASSUME NEW f, NEW n, IsFrame(f, n)
    PROVE  CusumEvents(f) \subseteq 1 .. n
<1>1. PICK run : IsRun(f, run, n) /\ CusumEvents(f) = IF n = 0 THEN {} ELSE run[n].events
  BY EventsRun
<1>2. n \in Nat /\ 0 \in 0 .. n /\ (n # 0 => n \in 1 .. n /\ 0 <= n)
  BY DEF IsFrame
<1> QED BY <1>1, <1>2, EventsGrow

\* And what it asks of a bar depends on the bars up to it.
LEMMA EventsLookBack ==
    ASSUME NEW f, NEW n, IsFrame(f, n), NEW g, NEW m, IsFrame(g, m), NEW p \in Nat, p <= n, p <= m,
           \A j \in 1 .. p : f[j] = g[j], NEW k \in 1 .. p
    PROVE  k \in CusumEvents(f) <=> k \in CusumEvents(g)
<1>1. PICK r : IsRun(f, r, n) /\ CusumEvents(f) = IF n = 0 THEN {} ELSE r[n].events
  BY EventsRun
<1>2. PICK q : IsRun(g, q, m) /\ CusumEvents(g) = IF m = 0 THEN {} ELSE q[m].events
  BY EventsRun
<1>3. /\ n \in Nat /\ m \in Nat /\ n # 0 /\ m # 0 /\ k \in Nat /\ k # 0 /\ k > 0
      /\ 1 .. p \subseteq 1 .. n /\ 1 .. p \subseteq 1 .. m
      /\ k \in 0 .. n /\ k \in 0 .. m /\ n \in 1 .. n /\ m \in 1 .. m /\ k <= n /\ k <= m
      /\ k \in 1 .. k
  BY DEF IsFrame
<1>4. k \in CusumEvents(f) <=> k \in r[k].events
  BY <1>1, <1>3, EventsGrow
<1>5. k \in CusumEvents(g) <=> k \in q[k].events
  BY <1>2, <1>3, EventsGrow
<1> DEFINE Odd == {j \in 1 .. p : r[j] # q[j]}
<1>6. Odd = {}
  <2>1. SUFFICES ASSUME Odd # {} PROVE FALSE
    OBVIOUS
  <2>2. IsFiniteSet(Odd) /\ Odd \in SUBSET Int
    <3>1. IsFiniteSet(1 .. p) /\ Odd \in SUBSET (1 .. p) /\ Odd \in SUBSET Int
      BY FS_Interval
    <3> HIDE DEF Odd
    <3> QED BY <3>1, FS_Subset
  <2>3. PICK j \in Odd : \A y \in Odd : j <= y
    <3> HIDE DEF Odd
    <3> QED BY <2>1, <2>2, LeastElement
  <2>4. j \in 1 .. p /\ r[j] # q[j]
    OBVIOUS
  <2>5. r[j] = After(f, r, j) /\ q[j] = After(g, q, j)
    BY <2>4, <1>1, <1>2, <1>3 DEF IsRun
  <2>6. CASE j = 1
    BY <2>4, <2>5, <2>6 DEF After
  <2>7. CASE j # 1
    <3>1. j - 1 \in 1 .. p /\ ~ (j <= j - 1)
      BY <2>4, <2>7
    <3>2. r[j - 1] = q[j - 1]
      BY <3>1, <2>3
    <3>3. LogReturn(f, j) = LogReturn(g, j)
      BY <2>4, <3>1 DEF LogReturn
    <3> QED BY <2>4, <2>5, <2>7, <3>2, <3>3 DEF After, Summed
  <2> QED BY <2>6, <2>7
<1>7. r[k] = q[k]
  BY <1>6
<1> QED BY <1>4, <1>5, <1>7

------------------------------------------------------------------------------
\* What is touched first comes before the vertical barrier, and whoever wins the
\* tie has not been reached on the way to the other.
LEMMA FirstTouchFacts ==
    ASSUME NEW f, NEW k \in Int, NEW vertical \in Int, NEW up, NEW down, NEW tie \in BOOLEAN,
           NEW touch, touch = FirstTouch(f, k, vertical, up, down, tie)
    PROVE  /\ touch.touched \in {"vertical", "high", "low"}
           /\ touch.touched = "vertical" => touch.at = vertical
           /\ touch.touched # "vertical" => touch.at \in (k + 1) .. vertical
           /\ touch.touched = "high" /\ tie =>
                \A i \in (k + 1) .. touch.at : ~ HitsLow(f, k, i, down)
           /\ touch.touched = "low" /\ ~ tie =>
                \A i \in (k + 1) .. touch.at : ~ HitsHigh(f, k, i, up)
<1> DEFINE highs == {i \in (k + 1) .. vertical : HitsHigh(f, k, i, up)}
           lows == {i \in (k + 1) .. vertical : HitsLow(f, k, i, down)}
           at == Min(highs \cup lows)
<1>1. CASE highs \cup lows = {}
  <2>1. touch = [touched |-> "vertical", at |-> vertical]
    BY <1>1 DEF FirstTouch
  <2> QED BY <2>1
<1>2. CASE highs \cup lows # {}
  <2>1. touch = [touched |-> IF at \in lows /\ (tie \/ at \notin highs) THEN "low" ELSE "high",
                 at |-> at]
    BY <1>2 DEF FirstTouch
  <2>2. at \in highs \cup lows /\ \A i \in highs \cup lows : at <= i
    <3>1. IsFiniteSet((k + 1) .. vertical) /\ highs \cup lows \in SUBSET ((k + 1) .. vertical)
      BY FS_Interval
    <3>2. IsFiniteSet(highs \cup lows) /\ highs \cup lows \in SUBSET Int
      <4> DEFINE touched == highs \cup lows
      <4>1. touched \in SUBSET ((k + 1) .. vertical)
        OBVIOUS
      <4>2. touched \in SUBSET Int
        OBVIOUS
      <4> HIDE DEF touched
      <4>3. IsFiniteSet(touched)
        BY <3>1, <4>1, FS_Subset
      <4> QED BY <4>2, <4>3 DEF touched
    <3> HIDE DEF highs, lows
    <3> QED BY <1>2, <3>2, Extremes
  <2>3. at \in (k + 1) .. vertical
    BY <2>2
  <2>4. ASSUME NEW i \in (k + 1) .. at, i # at PROVE i \notin highs /\ i \notin lows
    <3>1. ~ (at <= i)
      BY <2>3, <2>4
    <3> HIDE DEF highs, lows
    <3> QED BY <3>1, <2>2
  <2>5. ASSUME NEW i \in (k + 1) .. at PROVE i \in (k + 1) .. vertical
    BY <2>3
  <2>6. ASSUME touch.touched = "high", tie, NEW i \in (k + 1) .. at PROVE i \notin lows
    BY <2>1, <2>4, <2>6
  <2>7. ASSUME touch.touched = "low", ~ tie, NEW i \in (k + 1) .. at PROVE i \notin highs
    BY <2>1, <2>4, <2>7
  <2>8. touch.at = at /\ touch.touched \in {"high", "low"}
    BY <2>1
  <2>9. ASSUME touch.touched = "high", tie, NEW i \in (k + 1) .. at
        PROVE  ~ HitsLow(f, k, i, down)
    BY <2>5, <2>6, <2>9
  <2>10. ASSUME touch.touched = "low", ~ tie, NEW i \in (k + 1) .. at
         PROVE  ~ HitsHigh(f, k, i, up)
    BY <2>5, <2>7, <2>10
  <2> HIDE DEF at
  <2> QED BY <2>3, <2>8, <2>9, <2>10
<1> QED BY <1>1, <1>2

\* Later bars are on no earlier days.
LEMMA DaysGrow ==
    ASSUME NEW f, NEW n, Timed(f, n), NEW i \in 1 .. n, NEW j \in 1 .. n, i <= j
    PROVE  Day(f[i].t) \in Nat /\ Day(f[j].t) \in Nat /\ Day(f[i].t) <= Day(f[j].t)
<1>1. f[i].t \in Nat /\ f[j].t \in Nat /\ (i < j => f[i].t < f[j].t)
  BY DEF Timed
<1>2. i = j \/ i < j
  BY DEF Timed, IsFrame
<1>3. f[i].t <= f[j].t
  BY ONLY <1>1, <1>2
<1> QED BY <1>1, <1>3, FeatureAssumption, Division DEF Day

\* Where a position is closed at the latest.
LEMMA AnchorFacts ==
    ASSUME NEW f, NEW n, Timed(f, n), NEW k \in 1 .. n, NEW mode \in {"mis", "cnc"}
    PROVE  /\ Anchor(f, k, mode) \in 1 .. n
           /\ mode = "cnc" => Anchor(f, k, mode) = n
           /\ mode = "mis" =>
                /\ Day(f[Anchor(f, k, mode)].t) = Day(f[k].t)
                /\ \A i \in 1 .. n : Day(f[i].t) = Day(f[k].t) => i <= Anchor(f, k, mode)
           /\ VerticalPosition(f, k, mode) \in Int
           /\ VerticalPosition(f, k, mode)
                = IF MaxHold = 0 \/ Anchor(f, k, mode) <= k + MaxHold
                    THEN Anchor(f, k, mode) ELSE k + MaxHold
<1> DEFINE same == {i \in DOMAIN f : Day(f[i].t) = Day(f[k].t)}
           anchor == Anchor(f, k, mode)
<1>1. DOMAIN f = 1 .. n /\ Len(f) = n /\ n \in Nat /\ k \in Int /\ n \in 1 .. n
  BY FrameLength DEF Timed, IsFrame
<1>2. Max(same) \in same /\ \A i \in same : i <= Max(same)
  <2>1. IsFiniteSet(1 .. n) /\ same \in SUBSET (1 .. n)
    BY <1>1, FS_Interval
  <2>2. same \in SUBSET Int /\ k \in same
    BY <1>1
  <2> HIDE DEF same
  <2>3. IsFiniteSet(same)
    BY <2>1, FS_Subset
  <2> QED BY <2>2, <2>3, Extremes
<1>3. anchor = IF mode = "cnc" THEN n ELSE Max(same)
  BY <1>1 DEF Anchor
<1>4. \A i \in 1 .. n : i \in same <=> Day(f[i].t) = Day(f[k].t)
  BY <1>1
<1>5. \A i \in same : i \in 1 .. n
  BY <1>1
<1> HIDE DEF anchor, same
<1>6. /\ anchor \in 1 .. n
      /\ mode = "cnc" => anchor = n
      /\ mode = "mis" => /\ Day(f[anchor].t) = Day(f[k].t)
                         /\ \A i \in 1 .. n : Day(f[i].t) = Day(f[k].t) => i <= anchor
  BY <1>1, <1>2, <1>3, <1>4, <1>5
<1>7. MaxHold \in Nat /\ anchor \in Int /\ k + MaxHold \in Int
  BY <1>1, <1>6, LabellingAssumption
<1>8. VerticalPosition(f, k, mode)
        = IF MaxHold > 0 THEN Min({anchor, k + MaxHold}) ELSE anchor
  BY DEF VerticalPosition, anchor
<1>9. Min({anchor, k + MaxHold}) = IF anchor <= k + MaxHold THEN anchor ELSE k + MaxHold
  <2> DEFINE ends == {anchor, k + MaxHold}
  <2>1. ends \in SUBSET Int /\ ends # {} /\ anchor \in ends /\ k + MaxHold \in ends
    BY <1>7
  <2>2. IsFiniteSet(ends)
    <3>1. IsFiniteSet({anchor}) /\ ends = {anchor} \cup {k + MaxHold}
      BY FS_Singleton
    <3> QED BY <3>1, FS_AddElement
  <2>3. \A x \in ends : x = anchor \/ x = k + MaxHold
    OBVIOUS
  <2> HIDE DEF ends
  <2>4. Min(ends) \in ends /\ Min(ends) <= anchor /\ Min(ends) <= k + MaxHold
    BY <2>1, <2>2, Extremes
  <2>5. Min(ends) = anchor \/ Min(ends) = k + MaxHold
    BY ONLY <2>3, <2>4
  <2>6. Min(ends) = IF anchor <= k + MaxHold THEN anchor ELSE k + MaxHold
    BY ONLY <2>4, <2>5, <1>7
  <2> QED BY ONLY <2>6 DEF ends
<1>10. VerticalPosition(f, k, mode)
         = IF MaxHold = 0 \/ anchor <= k + MaxHold THEN anchor ELSE k + MaxHold
  BY ONLY <1>7, <1>8, <1>9
<1>11. VerticalPosition(f, k, mode) \in Int
  BY ONLY <1>7, <1>10
<1> QED BY ONLY <1>6, <1>10, <1>11 DEF anchor

\* The vertical barrier is a bar of the data, of the same session if positions are
\* not carried overnight.
LEMMA VerticalFacts ==
    ASSUME NEW f, NEW n, Timed(f, n), NEW k \in 1 .. n, NEW mode \in {"mis", "cnc"},
           ~ (VerticalPosition(f, k, mode) <= k)
    PROVE  /\ VerticalPosition(f, k, mode) \in 1 .. n
           /\ mode = "mis" => \A i \in k .. VerticalPosition(f, k, mode) :
                                  Day(f[i].t) = Day(f[k].t)
<1> DEFINE anchor == Anchor(f, k, mode)
           vertical == VerticalPosition(f, k, mode)
<1>1. n \in Nat /\ k \in Int /\ k >= 1 /\ k <= n /\ MaxHold \in Nat
  BY LabellingAssumption DEF Timed, IsFrame
<1>2. /\ anchor \in 1 .. n /\ vertical \in Int
      /\ mode = "mis" => Day(f[anchor].t) = Day(f[k].t)
      /\ vertical = IF MaxHold = 0 \/ anchor <= k + MaxHold THEN anchor ELSE k + MaxHold
  BY AnchorFacts
<1>3. ~ (vertical <= k)
  OBVIOUS
<1> HIDE DEF anchor, vertical
<1>4. vertical <= anchor /\ anchor \in Int /\ k < vertical
  BY ONLY <1>1, <1>2, <1>3
<1>5. vertical \in 1 .. n
  BY ONLY <1>1, <1>2, <1>4
<1>6. ASSUME mode = "mis", NEW i \in k .. vertical PROVE Day(f[i].t) = Day(f[k].t)
  <2>1. i \in 1 .. n /\ k <= i /\ i <= anchor
    BY ONLY <1>1, <1>2, <1>4, i \in k .. vertical
  <2>2. /\ Day(f[k].t) \in Nat /\ Day(f[i].t) \in Nat /\ Day(f[anchor].t) \in Nat
        /\ Day(f[k].t) <= Day(f[i].t) /\ Day(f[i].t) <= Day(f[anchor].t)
    BY <2>1, <1>2, DaysGrow
  <2> QED BY ONLY <2>2, <1>2, <1>6
<1> QED BY <1>5, <1>6 DEF vertical

\* What decides a bet: whoever wins the tie has not been reached before, and an
\* intraday position is closed within its session.
IsFairTouch(f, k, mode, up, down, tie, touch) ==
    /\ touch.touched \in {"vertical", "high", "low"}
    /\ touch.touched = "vertical" => touch.at = VerticalPosition(f, k, mode)
    /\ touch.touched = "high" /\ tie =>
         \A i \in (k + 1) .. touch.at : ~ HitsLow(f, k, i, down)
    /\ touch.touched = "low" /\ ~ tie =>
         \A i \in (k + 1) .. touch.at : ~ HitsHigh(f, k, i, up)
    /\ mode = "mis" => Day(f[k].t) = Day(f[touch.at].t)

\* Where a frame is in the order of time, no win hides a stop.
LEMMA NoHiddenStop ==
    ASSUME NEW f, NEW n, Timed(f, n), NEW mode \in {"mis", "cnc"}
    PROVE  /\ \A l \in Labels(f, mode) :
                /\ l.barrier = "upper" =>
                      \A i \in (l.at + 1) .. l.exit : ~ HitsLow(f, l.at, i, Lower)
                /\ mode = "mis" => Day(f[l.at].t) = Day(f[l.exit].t)
           /\ \A l \in MetaLabels(f, mode) :
                /\ l.barrier = "profit" =>
                      \A i \in (l.at + 1) .. l.exit :
                         ~ (IF l.side > 0 THEN HitsLow(f, l.at, i, Lower)
                                          ELSE HitsHigh(f, l.at, i, Lower))
                /\ mode = "mis" => Day(f[l.at].t) = Day(f[l.exit].t)
<1>1. CusumEvents(f) \subseteq 1 .. n /\ n \in Nat
  BY EventsAreBars DEF Timed, IsFrame
<1>2. ASSUME NEW k \in CusumEvents(f), ~ IsSkipped(f, k, mode), NEW up, NEW down,
             NEW tie \in BOOLEAN, NEW touch,
             touch = FirstTouch(f, k, VerticalPosition(f, k, mode), up, down, tie)
      PROVE  IsFairTouch(f, k, mode, up, down, tie, touch)
  <2> DEFINE vertical == VerticalPosition(f, k, mode)
  <2>1. k \in 1 .. n /\ k \in Int
    BY <1>1
  <2>2. vertical \in 1 .. n /\ (mode = "mis" => \A i \in k .. vertical : Day(f[i].t) = Day(f[k].t))
    <3>1. ~ (vertical <= k)
      BY <1>2 DEF IsSkipped
    <3> QED BY <2>1, <3>1, VerticalFacts
  <2>3. vertical \in Int /\ k < vertical
    <3>1. ~ (vertical <= k)
      BY <1>2 DEF IsSkipped
    <3> HIDE DEF vertical
    <3> QED BY <2>1, <2>2, <3>1, <1>1
  <2> HIDE DEF vertical
  <2>4. /\ touch.touched \in {"vertical", "high", "low"}
        /\ touch.touched = "vertical" => touch.at = vertical
        /\ touch.touched # "vertical" => touch.at \in (k + 1) .. vertical
        /\ touch.touched = "high" /\ tie =>
              \A i \in (k + 1) .. touch.at : ~ HitsLow(f, k, i, down)
        /\ touch.touched = "low" /\ ~ tie =>
              \A i \in (k + 1) .. touch.at : ~ HitsHigh(f, k, i, up)
    BY <2>1, <2>3, <1>2, FirstTouchFacts DEF vertical
  <2>5. touch.at \in k .. vertical
    BY <2>1, <2>3, <2>4
  <2>6. mode = "mis" => Day(f[k].t) = Day(f[touch.at].t)
    BY <2>2, <2>5
  <2> QED BY ONLY <2>4, <2>6 DEF IsFairTouch, vertical
<1>3. ASSUME NEW l \in Labels(f, mode)
      PROVE  /\ l.barrier = "upper" =>
                  \A i \in (l.at + 1) .. l.exit : ~ HitsLow(f, l.at, i, Lower)
             /\ mode = "mis" => Day(f[l.at].t) = Day(f[l.exit].t)
  <2>1. PICK k \in CusumEvents(f) : ~ IsSkipped(f, k, mode) /\ l = TripleBarrier(f, k, mode)
    BY DEF Labels
  <2> DEFINE touch == FirstTouch(f, k, VerticalPosition(f, k, mode), Upper, Lower, TRUE)
  <2>2. /\ touch.touched \in {"vertical", "high", "low"}
        /\ touch.touched = "vertical" => touch.at = VerticalPosition(f, k, mode)
        /\ touch.touched = "high" =>
             \A i \in (k + 1) .. touch.at : ~ HitsLow(f, k, i, Lower)
        /\ mode = "mis" => Day(f[k].t) = Day(f[touch.at].t)
    <3>1. touch = FirstTouch(f, k, VerticalPosition(f, k, mode), Upper, Lower, TRUE)
      OBVIOUS
    <3> HIDE DEF touch
    <3>2. TRUE \in BOOLEAN /\ k \in CusumEvents(f) /\ ~ IsSkipped(f, k, mode)
      BY ONLY <2>1
    <3>3. IsFairTouch(f, k, mode, Upper, Lower, TRUE, touch)
      BY ONLY <3>1, <3>2, <1>2
    <3> QED BY ONLY <3>3 DEF IsFairTouch
  <2>3. l = CASE touch.touched = "high" ->
                   [at |-> k, exit |-> touch.at, label |-> 1, barrier |-> "upper",
                    size |-> RealizedVolatility(f, k)]
              [] touch.touched = "low" ->
                   [at |-> k, exit |-> touch.at, label |-> -1, barrier |-> "lower",
                    size |-> RealizedVolatility(f, k)]
              [] OTHER ->
                   [at |-> k, exit |-> VerticalPosition(f, k, mode),
                    label |-> Sign(f[VerticalPosition(f, k, mode)].close - f[k].close),
                    barrier |-> "vertical",
                    size |-> f[VerticalPosition(f, k, mode)].close - f[k].close]
    BY <2>1 DEF TripleBarrier
  <2> HIDE DEF touch
  <2>4. l.at = k /\ l.exit = touch.at /\ (l.barrier = "upper" => touch.touched = "high")
    <3>1. CASE touch.touched = "high"
      BY <2>3, <3>1
    <3>2. CASE touch.touched = "low"
      BY <2>3, <3>2
    <3>3. CASE touch.touched = "vertical"
      BY <2>2, <2>3, <3>3
    <3> QED BY <2>2, <3>1, <3>2, <3>3
  <2> QED BY <2>2, <2>4
<1>4. ASSUME NEW l \in MetaLabels(f, mode)
      PROVE  /\ l.barrier = "profit" =>
                   \A i \in (l.at + 1) .. l.exit :
                      ~ (IF l.side > 0 THEN HitsLow(f, l.at, i, Lower)
                                       ELSE HitsHigh(f, l.at, i, Lower))
             /\ mode = "mis" => Day(f[l.at].t) = Day(f[l.exit].t)
  <2>1. PICK k \in CusumEvents(f) :
           ~ IsSkipped(f, k, mode) /\ l = MetaLabel(f, k, MomentumSide(f, k), mode)
    BY DEF MetaLabels
  <2> DEFINE side == MomentumSide(f, k)
             vertical == VerticalPosition(f, k, mode)
             touch == IF side > 0 THEN FirstTouch(f, k, vertical, Upper, Lower, StopIsLow(side))
                      ELSE FirstTouch(f, k, vertical, Lower, Upper, StopIsLow(side))
             gained == side * (f[vertical].close - f[k].close)
             pays == (touch.touched = "high") = (side > 0)
  <2>2. (side > 0) \in BOOLEAN /\ StopIsLow(side) = (side > 0)
    BY DEF StopIsLow
  <2>3. /\ touch.touched \in {"vertical", "high", "low"}
        /\ touch.touched = "vertical" => touch.at = vertical
        /\ touch.touched = "high" /\ side > 0 =>
             \A i \in (k + 1) .. touch.at : ~ HitsLow(f, k, i, Lower)
        /\ touch.touched = "low" /\ ~ (side > 0) =>
             \A i \in (k + 1) .. touch.at : ~ HitsHigh(f, k, i, Lower)
        /\ mode = "mis" => Day(f[k].t) = Day(f[touch.at].t)
    <3> HIDE DEF side
    <3>1. CASE side > 0
      <4>1. touch = FirstTouch(f, k, VerticalPosition(f, k, mode), Upper, Lower, TRUE)
        BY <3>1, <2>2
      <4> HIDE DEF touch
      <4>2. TRUE \in BOOLEAN /\ k \in CusumEvents(f) /\ ~ IsSkipped(f, k, mode)
        BY ONLY <2>1
      <4>3. IsFairTouch(f, k, mode, Upper, Lower, TRUE, touch)
        BY ONLY <4>1, <4>2, <1>2
      <4> QED BY ONLY <4>3, <3>1 DEF IsFairTouch, vertical
    <3>2. CASE ~ (side > 0)
      <4>1. touch = FirstTouch(f, k, VerticalPosition(f, k, mode), Lower, Upper, FALSE)
        BY <3>2, <2>2
      <4> HIDE DEF touch
      <4>2. FALSE \in BOOLEAN /\ k \in CusumEvents(f) /\ ~ IsSkipped(f, k, mode)
        BY ONLY <2>1
      <4>3. IsFairTouch(f, k, mode, Lower, Upper, FALSE, touch)
        BY ONLY <4>1, <4>2, <1>2
      <4> QED BY ONLY <4>3, <3>2 DEF IsFairTouch, vertical
    <3> QED BY <3>1, <3>2
  <2>4. l = IF touch.touched = "vertical"
              THEN [at |-> k, exit |-> vertical, side |-> side, barrier |-> "vertical",
                    label |-> IF gained > 0 THEN 1 ELSE 0]
              ELSE [at |-> k, exit |-> touch.at, side |-> side,
                    barrier |-> IF pays THEN "profit" ELSE "stop",
                    label |-> IF pays THEN 1 ELSE 0]
    BY <2>1 DEF MetaLabel
  <2> HIDE DEF touch, side, vertical, gained
  <2>5. /\ l.at = k /\ l.exit = touch.at /\ l.side = side
        /\ l.barrier = "profit" => touch.touched # "vertical" /\ pays
    <3>1. CASE touch.touched = "vertical"
      BY <2>3, <2>4, <3>1
    <3>2. CASE touch.touched # "vertical"
      BY <2>4, <3>2
    <3> QED BY <3>1, <3>2
  <2>6. l.barrier = "profit" =>
          \/ touch.touched = "high" /\ side > 0
          \/ touch.touched = "low" /\ ~ (side > 0)
    BY <2>2, <2>3, <2>5
  <2> QED BY <2>3, <2>5, <2>6
<1> QED BY <1>3, <1>4

------------------------------------------------------------------------------
\* The archive returns bars in the order of time, however they arrive, and the
\* rows are those of the bars.
RowsInv ==
    /\ config \in Configs /\ bars \in Seq(Traded) /\ bars # << >>
    /\ Timed(bars, Len(bars))
    /\ rows = Dataset(bars, config)

\* The archive starts in order.
LEMMA RowsInitInv == RowsInit => RowsInv
<1> SUFFICES ASSUME RowsInit PROVE RowsInv
  OBVIOUS
<1>1. bars \in Seq(Traded) /\ bars # << >> /\ \A i, j \in DOMAIN bars : i < j => bars[i].t < bars[j].t
  BY ArchiveAssumption DEF RowsInit
<1>2. /\ Len(bars) \in Nat /\ DOMAIN bars = 1 .. Len(bars)
      /\ bars = [k \in 1 .. Len(bars) |-> bars[k]]
      /\ \A i \in 1 .. Len(bars) : bars[i].t \in Nat
  <2>1. /\ Len(bars) \in Nat /\ DOMAIN bars = 1 .. Len(bars)
        /\ bars = [k \in 1 .. Len(bars) |-> bars[k]]
        /\ \A i \in 1 .. Len(bars) : bars[i] \in Traded
    BY <1>1
  <2> QED BY <2>1 DEF Traded
<1>3. Timed(bars, Len(bars))
  BY <1>1, <1>2 DEF Timed, IsFrame
<1> QED BY <1>1, <1>3 DEF RowsInit, RowsInv

\* A bar that arrives is later than the last one.
LEMMA RowsStep == RowsInv /\ [RowsNext]_rowVars => RowsInv'
<1> SUFFICES ASSUME RowsInv, [RowsNext]_rowVars PROVE RowsInv'
  OBVIOUS
<1>1. CASE UNCHANGED rowVars
  <2>1. UNCHANGED <<config, bars, rows>>
    BY <1>1 DEF rowVars
  <2>2. Dataset(bars, config)' = Dataset(bars, config)
    BY <2>1
  <2> QED BY <2>1, <2>2 DEF RowsInv
<1>2. CASE RowsNext
  <2> DEFINE n == Len(bars)
  <2>1. PICK shape \in Shapes, wait \in {1, 2} :
           /\ bars' = Append(bars, [t |-> Last(bars).t + wait,
                                    high |-> Last(bars).close + shape.high,
                                    low |-> Last(bars).close + shape.low,
                                    close |-> Last(bars).close + shape.close,
                                    volume |-> shape.volume])
           /\ rows' = Dataset(bars', config) /\ UNCHANGED config
    BY <1>2 DEF RowsNext, Arrive
  <2> DEFINE new == [t |-> Last(bars).t + wait, high |-> Last(bars).close + shape.high,
                     low |-> Last(bars).close + shape.low,
                     close |-> Last(bars).close + shape.close, volume |-> shape.volume]
  <2>2. /\ bars \in Seq(Traded) /\ bars # << >> /\ n \in Nat /\ n >= 1
        /\ Last(bars) = bars[n] /\ Last(bars) \in Traded
    <3>1. bars \in Seq(Traded) /\ bars # << >>
      BY DEF RowsInv
    <3>2. n \in Nat /\ n >= 1
      BY <3>1
    <3> QED BY <3>1, <3>2 DEF Last
  <2>3. new \in Traded /\ new.t > Last(bars).t
    <3>1. shape \in [high : Int, low : Int, close : Int, volume : Nat]
      BY ArchiveAssumption
    <3>2. /\ shape.high \in Int /\ shape.low \in Int /\ shape.close \in Int
          /\ shape.volume \in Nat /\ wait \in Nat /\ wait >= 1
      BY <3>1
    <3>3. Last(bars).t \in Nat /\ Last(bars).close \in Int
      BY <2>2 DEF Traded
    <3>4. /\ Last(bars).t + wait \in Nat /\ Last(bars).t + wait > Last(bars).t
          /\ Last(bars).close + shape.high \in Int /\ Last(bars).close + shape.low \in Int
          /\ Last(bars).close + shape.close \in Int
      BY ONLY <3>2, <3>3
    <3> QED BY <3>2, <3>4 DEF Traded
  <2> HIDE DEF new
  <2>4. bars' = Append(bars, new)
    BY <2>1 DEF new
  <2>5. /\ bars' \in Seq(Traded) /\ bars' # << >> /\ Len(bars') = n + 1
        /\ \A i \in 1 .. n : bars'[i] = bars[i]
        /\ bars'[n + 1] = new
    BY <2>2, <2>3, <2>4
  <2>6. bars' = [k \in 1 .. Len(bars') |-> bars'[k]] /\ Len(bars') \in Nat
    BY <2>5
  <2>7. \A i \in 1 .. n + 1 : bars'[i].t \in Nat
    <3>1. \A i \in 1 .. n + 1 : bars'[i] \in Traded
      BY <2>5
    <3> QED BY <3>1 DEF Traded
  <2>8. ASSUME NEW i \in 1 .. n + 1, NEW j \in 1 .. n + 1, i < j
        PROVE  bars'[i].t < bars'[j].t
    <3>1. i \in 1 .. n /\ (j \in 1 .. n \/ j = n + 1) /\ n \in 1 .. n
      BY <2>2, <2>8
    <3>2. CASE j \in 1 .. n
      BY <3>1, <3>2, <2>5, <2>8 DEF RowsInv, Timed
    <3>3. CASE j = n + 1
      <4>1. bars[i].t <= bars[n].t /\ bars[i].t \in Nat /\ bars[n].t \in Nat
        <5>1. i = n \/ i < n
          BY <3>1, <2>2
        <5>2. bars[i].t \in Nat /\ bars[n].t \in Nat /\ (i < n => bars[i].t < bars[n].t)
          BY <3>1 DEF RowsInv, Timed
        <5> QED BY <5>1, <5>2
      <4>2. bars'[j] = new /\ bars'[i] = bars[i] /\ new.t > bars[n].t /\ new.t \in Nat
        BY <3>1, <3>3, <2>2, <2>3, <2>5 DEF Traded
      <4> QED BY <4>1, <4>2
    <3> QED BY <3>1, <3>2, <3>3
  <2>9. Timed(bars, Len(bars))'
    BY <2>5, <2>6, <2>7, <2>8 DEF Timed, IsFrame
  <2>10. config' \in Configs /\ rows' = Dataset(bars, config)'
    BY <2>1 DEF RowsInv
  <2> QED BY <2>5, <2>9, <2>10 DEF RowsInv
<1> QED BY <1>1, <1>2

\* The bars of an archive stay in the order of time, and the rows are always those
\* of the bars there are.
THEOREM RowsInvariance == RowsSpec => []RowsInv
  BY RowsInitInv, RowsStep, PTL DEF RowsSpec

\* What is known of the bar lengths and the holding mode.
LEMMA InOrderConfigs ==
    ASSUME RowsInv
    PROVE  /\ config.decision \in Nat \ {0} /\ config.fine \in Nat \ {0}
           /\ config.mode \in {"mis", "cnc"}
  BY ArchiveAssumption DEF RowsInv

\* A win never hides a stop, whatever bars arrive: a label or a bet that takes its
\* profit had reached no stop on the way, and an intraday position is closed within
\* its session.
THEOREM WinsHideNoStop == RowsSpec => []StopIsNotHidden
<1>1. RowsInv => StopIsNotHidden
  <2> SUFFICES ASSUME RowsInv PROVE StopIsNotHidden
    OBVIOUS
  <2> DEFINE f == Frame(bars, config)
             n == Cardinality(Opens(bars, config.decision))
  <2>1. Timed(f, n)
    BY InOrderConfigs, FrameFacts DEF RowsInv, Frame
  <2>2. config.mode \in {"mis", "cnc"}
    BY InOrderConfigs
  <2> HIDE DEF f, n
  <2>3. /\ \A l \in Labels(f, config.mode) :
            /\ l.barrier = "upper" =>
                  \A i \in (l.at + 1) .. l.exit : ~ HitsLow(f, l.at, i, Lower)
            /\ config.mode = "mis" => Day(f[l.at].t) = Day(f[l.exit].t)
        /\ \A l \in MetaLabels(f, config.mode) :
            /\ l.barrier = "profit" =>
                  \A i \in (l.at + 1) .. l.exit :
                     ~ (IF l.side > 0 THEN HitsLow(f, l.at, i, Lower)
                                      ELSE HitsHigh(f, l.at, i, Lower))
            /\ config.mode = "mis" => Day(f[l.at].t) = Day(f[l.exit].t)
    BY <2>1, <2>2, NoHiddenStop
  <2> QED BY <2>3 DEF StopIsNotHidden, f
<1> QED BY <1>1, RowsInvariance, PTL

\* What a row is given is what the bars traded by the close of its decision bar
\* give.
LEMMA LiveFeatures ==
    ASSUME NEW b, NEW n, Timed(b, n), NEW c \in Configs, NEW t \in Nat, NEW row \in Features(b, c, t)
    PROVE  row = FeaturesAsOf(FineFrame(Pick(b, Early(b, t + c.decision)), c), t + c.decision)
<1> DEFINE slots == c.fine
           limit == t + c.decision
           frame == Resample(b, slots)
           size == Cardinality(Opens(b, slots))
           informed == Resample(Pick(b, Early(b, limit)), slots)
<1>1. slots \in Nat \ {0} /\ c.decision \in Nat /\ limit \in Nat
  BY ArchiveAssumption
<1> HIDE DEF slots
<1>2. Timed(frame, size)
  BY <1>1, FrameFacts
<1>3. DOMAIN frame = 1 .. size /\ size \in Nat
  <2> HIDE DEF frame, size
  <2> QED BY <1>2, FrameLength DEF Timed, IsFrame
<1>4. PICK k \in DOMAIN frame : frame[k].t = t + (c.decision - c.fine) /\ row = FeatureRow(frame, k)
  BY DEF Features, FineFrame, LastFineBar, slots
<1>5. k \in 1 .. size /\ k \in Nat \ {0} /\ k <= size
  BY <1>3
<1>6. limit = frame[k].t + slots
  BY <1>1, <1>4 DEF slots
<1>7. informed = [j \in 1 .. k |-> frame[j]]
  BY <1>1, <1>5, <1>6, TradedFrame
<1> HIDE DEF limit, frame, size, informed
<1>8. {j \in DOMAIN informed : informed[j].t <= limit} = 1 .. k
  <2>1. ASSUME NEW j \in 1 .. k PROVE frame[j].t <= limit
    <3>1. j \in 1 .. size /\ (j = k \/ j < k)
      BY <1>3, <1>5
    <3>2. frame[j].t \in Nat /\ frame[k].t \in Nat /\ (j < k => frame[j].t < frame[k].t)
      BY <3>1, <1>2, <1>5 DEF Timed
    <3> QED BY <3>1, <3>2, <1>1, <1>6
  <2> QED BY <2>1, <1>7
<1> DEFINE history == Pick(informed, 1 .. k)
<1>9. history = [j \in 1 .. k |-> informed[j]]
  BY <1>5, PickFirst
<1>10. DOMAIN history = 1 .. k /\ \A j \in 1 .. k : history[j] = frame[j]
  BY <1>7, <1>9
<1> HIDE DEF history
<1>11. Len(history) = k
  <2>1. IsFrame(history, k)
    BY <1>5, <1>9, <1>10 DEF IsFrame
  <2> QED BY <2>1, FrameLength
<1>12. FeatureRow(history, k) = FeatureRow(frame, k)
  BY <1>3, <1>5, <1>10, FeaturesLookBack
<1>13. FeaturesAsOf(informed, limit) = FeatureRow(history, k)
  BY <1>8, <1>11 DEF FeaturesAsOf, history
<1> QED BY <1>4, <1>12, <1>13 DEF informed, limit, FineFrame, slots

\* What is learnt from could have been known: the features of every row, computed in
\* one batch from all bars, are those of the bars traded by the close of its bar.
THEOREM RowsAreLive == RowsSpec => []LiveIsBatch
<1>1. RowsInv => LiveIsBatch
  <2> SUFFICES ASSUME RowsInv, NEW r \in rows
               PROVE  r.features = FeaturesAsOf(
                        FineFrame(Pick(bars, Early(bars, r.t0 + config.decision)), config),
                        r.t0 + config.decision)
    BY DEF LiveIsBatch, Early
  <2> DEFINE frame == Frame(bars, config)
             n == Cardinality(Opens(bars, config.decision))
  <2>1. rows = Dataset(bars, config) /\ Timed(bars, Len(bars)) /\ config \in Configs
    BY DEF RowsInv
  <2>2. Timed(frame, n)
    BY <2>1, InOrderConfigs, FrameFacts DEF Frame
  <2>3. PICK l \in Valid(bars, config, Labels(frame, config.mode)) :
           /\ r.t0 = frame[l.at].t
           /\ r.features = CHOOSE row \in Features(bars, config, frame[l.at].t) : TRUE
    BY <2>1 DEF Dataset
  <2>4. /\ l \in Labels(frame, config.mode)
        /\ \E row \in Features(bars, config, frame[l.at].t) : TRUE
    BY <2>3 DEF Valid
  <2>5. r.features \in Features(bars, config, frame[l.at].t)
    BY <2>3, <2>4
  <2> HIDE DEF frame, n
  <2>6. l.at \in 1 .. n
    <3>1. PICK k \in CusumEvents(frame) : l = TripleBarrier(frame, k, config.mode)
      BY <2>4 DEF Labels
    <3>2. l.at = k
      BY <3>1 DEF TripleBarrier
    <3> QED BY <3>1, <3>2, <2>2, EventsAreBars DEF Timed
  <2>7. frame[l.at].t \in Nat
    BY <2>2, <2>6 DEF Timed
  <2> QED BY <2>1, <2>3, <2>5, <2>7, LiveFeatures
<1> QED BY <1>1, RowsInvariance, PTL

------------------------------------------------------------------------------
(* What a bar that arrives leaves as it was: all of a frame but its last    *)
(* bar, hence the features, and of the trades those over before it.        *)

\* Two frames that agree on the bars before one position, and on the time of that.
Alike(f, n, g, m, p) ==
    /\ Timed(f, n) /\ Timed(g, m)
    /\ p \in 1 .. n /\ p \in 1 .. m
    /\ \A j \in 1 .. p - 1 : f[j] = g[j]
    /\ f[p].t = g[p].t

\* A row of features is the same on frames that agree up to its bar.
LEMMA SameRow ==
    ASSUME NEW f, NEW n, Timed(f, n), NEW g, NEW m, Timed(g, m),
           NEW k \in 1 .. n, k \in 1 .. m, \A j \in 1 .. k : f[j] = g[j]
    PROVE  /\ FeatureRow(f, k) = FeatureRow(g, k)
           /\ RealizedVolatility(f, k) = RealizedVolatility(g, k)
<1> DEFINE h == [j \in 1 .. k |-> f[j]]
<1>1. DOMAIN h = 1 .. k /\ (\A j \in 1 .. k : h[j] = f[j]) /\ \A j \in 1 .. k : h[j] = g[j]
  OBVIOUS
<1>2. DOMAIN f = 1 .. n /\ n \in Nat /\ DOMAIN g = 1 .. m /\ m \in Nat
  BY FrameLength DEF Timed, IsFrame
<1>3. k \in Nat \ {0} /\ k <= n /\ k <= m
  BY <1>2
<1> HIDE DEF h
<1>4. FeatureRow(h, k) = FeatureRow(f, k)
  BY <1>1, <1>2, <1>3, FeaturesLookBack
<1>5. FeatureRow(h, k) = FeatureRow(g, k)
  BY <1>1, <1>2, <1>3, FeaturesLookBack
<1>6. \A frame : FeatureRow(frame, k).rvol = RealizedVolatility(frame, k)
  BY DEF FeatureRow
<1>7. RealizedVolatility(f, k) = RealizedVolatility(g, k)
  BY ONLY <1>4, <1>5, <1>6
<1> QED BY ONLY <1>4, <1>5, <1>7

\* A trade that must be over before that position must be over there in both.
LEMMA VerticalAlike ==
    ASSUME NEW f, NEW n, NEW g, NEW m, NEW p, Alike(f, n, g, m, p),
           NEW k \in 1 .. p - 1, NEW mode \in {"mis", "cnc"}
    PROVE  /\ VerticalPosition(f, k, mode) < p =>
                VerticalPosition(g, k, mode) = VerticalPosition(f, k, mode)
           /\ VerticalPosition(f, k, mode) \in Int /\ VerticalPosition(g, k, mode) \in Int
           /\ ~ (VerticalPosition(f, k, mode) < p) => ~ (VerticalPosition(g, k, mode) < p)
<1> DEFINE a == Anchor(f, k, mode)
           z == Anchor(g, k, mode)
<1>1. /\ p \in Int /\ k \in Int /\ k < p /\ k \in 1 .. n /\ k \in 1 .. m
      /\ n \in Nat /\ m \in Nat /\ p \in 1 .. n /\ p \in 1 .. m
      /\ Timed(f, n) /\ Timed(g, m)
  <2>1. n \in Nat /\ m \in Nat /\ p \in 1 .. n /\ p \in 1 .. m
    BY DEF Alike, Timed, IsFrame
  <2>2. p \in Int /\ k \in Int /\ k < p /\ k >= 1
    BY ONLY <2>1, k \in 1 .. p - 1
  <2>3. k \in 1 .. n /\ k \in 1 .. m
    BY ONLY <2>1, <2>2
  <2>4. Timed(f, n) /\ Timed(g, m)
    BY DEF Alike
  <2> QED BY ONLY <2>1, <2>2, <2>3, <2>4
<1>2. f[k] = g[k] /\ f[p].t = g[p].t /\ \A i \in 1 .. p - 1 : f[i] = g[i]
  BY DEF Alike
<1>3. /\ a \in 1 .. n
      /\ mode = "cnc" => a = n
      /\ mode = "mis" => /\ Day(f[a].t) = Day(f[k].t)
                         /\ \A i \in 1 .. n : Day(f[i].t) = Day(f[k].t) => i <= a
      /\ VerticalPosition(f, k, mode) \in Int
      /\ VerticalPosition(f, k, mode)
           = IF MaxHold = 0 \/ a <= k + MaxHold THEN a ELSE k + MaxHold
  BY ONLY <1>1, mode \in {"mis", "cnc"}, AnchorFacts
<1>4. /\ z \in 1 .. m
      /\ mode = "cnc" => z = m
      /\ mode = "mis" => /\ Day(g[z].t) = Day(g[k].t)
                         /\ \A i \in 1 .. m : Day(g[i].t) = Day(g[k].t) => i <= z
      /\ VerticalPosition(g, k, mode) \in Int
      /\ VerticalPosition(g, k, mode)
           = IF MaxHold = 0 \/ z <= k + MaxHold THEN z ELSE k + MaxHold
  BY ONLY <1>1, mode \in {"mis", "cnc"}, AnchorFacts
<1> HIDE DEF a, z
<1>5. a \in Int /\ z \in Int /\ MaxHold \in Nat
  BY <1>1, <1>3, <1>4, LabellingAssumption
<1>6. (a < p => z = a) /\ (~ (a < p) => ~ (z < p))
  <2>1. CASE mode = "cnc"
    BY ONLY <2>1, <1>1, <1>3, <1>4, <1>5
  <2>2. CASE mode = "mis"
    <3>1. ASSUME a < p PROVE z = a
      <4>1. a \in 1 .. p - 1
        BY ONLY <3>1, <1>1, <1>3, <1>5
      <4>2. Day(g[p].t) # Day(g[k].t)
        <5>1. ~ (p <= a)
          BY ONLY <3>1, <1>1, <1>5
        <5>2. Day(f[p].t) # Day(f[k].t)
          BY ONLY <5>1, <1>1, <1>3, <2>2
        <5> QED BY ONLY <5>2, <1>2
      <4>3. z < p
        <5>0. p \in Int /\ z \in Int
          BY ONLY <1>1, <1>5
        <5>1. SUFFICES ASSUME p <= z PROVE FALSE
          BY <5>0
        <5>2. k <= p
          BY ONLY <1>1
        <5>3. /\ Day(g[k].t) \in Nat /\ Day(g[p].t) \in Nat /\ Day(g[z].t) \in Nat
              /\ Day(g[k].t) <= Day(g[p].t) /\ Day(g[p].t) <= Day(g[z].t)
          BY ONLY <5>1, <5>2, <1>1, <1>4, DaysGrow
        <5> QED BY ONLY <5>3, <4>2, <1>4, <2>2
      <4>4. z \in 1 .. p - 1
        BY ONLY <4>3, <1>1, <1>4, <1>5
      <4>5. z <= a
        <5>1. Day(f[z].t) = Day(f[k].t) /\ z \in 1 .. n
          BY ONLY <4>4, <1>1, <1>2, <1>4, <2>2
        <5> QED BY ONLY <5>1, <1>3, <2>2
      <4>6. a <= z
        <5>1. Day(g[a].t) = Day(g[k].t) /\ a \in 1 .. m
          BY ONLY <4>1, <1>1, <1>2, <1>3, <2>2
        <5> QED BY ONLY <5>1, <1>4, <2>2
      <4> QED BY ONLY <4>5, <4>6, <1>5
    <3>2. ASSUME ~ (a < p) PROVE ~ (z < p)
      <4>1. k <= p /\ p <= a
        BY ONLY <3>2, <1>1, <1>5
      <4>2. /\ Day(f[k].t) \in Nat /\ Day(f[p].t) \in Nat /\ Day(f[a].t) \in Nat
            /\ Day(f[k].t) <= Day(f[p].t) /\ Day(f[p].t) <= Day(f[a].t)
        BY ONLY <4>1, <1>1, <1>3, DaysGrow
      <4>3. Day(f[p].t) = Day(f[k].t)
        BY ONLY <4>2, <1>3, <2>2
      <4>4. p <= z
        BY ONLY <4>3, <1>1, <1>2, <1>4, <2>2
      <4> QED BY ONLY <4>4, <1>1, <1>5
    <3> QED BY <3>1, <3>2
  <2> QED BY <2>1, <2>2
<1>7. /\ VerticalPosition(f, k, mode) < p =>
            VerticalPosition(g, k, mode) = VerticalPosition(f, k, mode)
      /\ ~ (VerticalPosition(f, k, mode) < p) => ~ (VerticalPosition(g, k, mode) < p)
  BY ONLY <1>1, <1>3, <1>4, <1>5, <1>6
<1> QED BY ONLY <1>3, <1>4, <1>7

\* What decides a label: both barriers may be reached in one bar, the stop counts.
LabelTouch(f, k, vertical) == FirstTouch(f, k, vertical, Upper, Lower, TRUE)

\* What is touched before that position is touched in both.
TouchedAlike(f, g, k, p) ==
    \A i \in (k + 1) .. (p - 1) : /\ HitsHigh(f, k, i, Upper) <=> HitsHigh(g, k, i, Upper)
                                  /\ HitsLow(f, k, i, Lower) <=> HitsLow(g, k, i, Lower)

\* A touch before that position is the same touch.
LEMMA TouchAlike ==
    ASSUME NEW f, NEW g, NEW p \in Int, NEW k \in Int, NEW v \in Int, NEW w \in Int,
           TouchedAlike(f, g, k, p),
           v < p => w = v, ~ (v < p) => ~ (w < p),
           LabelTouch(f, k, v).at < p
    PROVE  LabelTouch(g, k, w) = LabelTouch(f, k, v)
<1> DEFINE H(frame, until) == {i \in (k + 1) .. until : HitsHigh(frame, k, i, Upper)}
           L(frame, until) == {i \in (k + 1) .. until : HitsLow(frame, k, i, Lower)}
           T(frame, until) == H(frame, until) \cup L(frame, until)
<1>1. \A frame, until : LabelTouch(frame, k, until)
        = IF T(frame, until) = {} THEN [touched |-> "vertical", at |-> until]
          ELSE [touched |-> IF Min(T(frame, until)) \in L(frame, until) THEN "low" ELSE "high",
                at |-> Min(T(frame, until))]
  BY DEF LabelTouch, FirstTouch
<1>2. \A i \in Int : i < p => (i \in H(f, v) <=> i \in H(g, w)) /\ (i \in L(f, v) <=> i \in L(g, w))
  <2>1. ASSUME NEW i \in Int, i < p
        PROVE  (i \in H(f, v) <=> i \in H(g, w)) /\ (i \in L(f, v) <=> i \in L(g, w))
    <3>1. i \in (k + 1) .. v <=> i \in (k + 1) .. w
      BY <2>1
    <3>2. i \in (k + 1) .. v => i \in (k + 1) .. (p - 1)
      BY <2>1
    <3> QED BY <3>1, <3>2 DEF TouchedAlike
  <2> QED BY <2>1
<1>3. \A frame : \A until \in Int : T(frame, until) # {} =>
         /\ Min(T(frame, until)) \in T(frame, until) /\ Min(T(frame, until)) \in Int
         /\ \A y \in T(frame, until) : y \in Int /\ Min(T(frame, until)) <= y
  <2>1. ASSUME NEW frame, NEW until \in Int, T(frame, until) # {}
        PROVE  /\ Min(T(frame, until)) \in T(frame, until) /\ Min(T(frame, until)) \in Int
               /\ \A y \in T(frame, until) : y \in Int /\ Min(T(frame, until)) <= y
    <3> DEFINE S == T(frame, until)
    <3>1. IsFiniteSet((k + 1) .. until) /\ S \in SUBSET ((k + 1) .. until)
      <4>1. IsFiniteSet((k + 1) .. until)
        <5>1. k + 1 \in Int /\ until \in Int
          OBVIOUS
        <5> QED BY ONLY <5>1, FS_Interval
      <4>2. S \in SUBSET ((k + 1) .. until)
        OBVIOUS
      <4> QED BY ONLY <4>1, <4>2
    <3>2. S \in SUBSET Int
      OBVIOUS
    <3>3. S # {}
      BY <2>1
    <3> HIDE DEF S
    <3>4. IsFiniteSet(S)
      BY <3>1, FS_Subset
    <3>5. Min(S) \in S /\ \A y \in S : Min(S) <= y
      BY ONLY <3>2, <3>3, <3>4, Extremes
    <3>6. Min(S) \in S /\ Min(S) \in Int /\ \A y \in S : y \in Int /\ Min(S) <= y
      BY ONLY <3>2, <3>5
    <3> QED BY ONLY <3>6 DEF S
  <2> QED BY <2>1
<1> HIDE DEF H, L
<1> DEFINE here == LabelTouch(f, k, v)
           there == LabelTouch(g, k, w)
<1>6. /\ T(f, v) = {} => here = [touched |-> "vertical", at |-> v]
      /\ T(f, v) # {} => here = [touched |-> IF Min(T(f, v)) \in L(f, v) THEN "low" ELSE "high",
                                at |-> Min(T(f, v))]
  <2> HIDE DEF T
  <2> QED BY ONLY <1>1
<1>7. /\ T(g, w) = {} => there = [touched |-> "vertical", at |-> w]
      /\ T(g, w) # {} => there = [touched |-> IF Min(T(g, w)) \in L(g, w) THEN "low" ELSE "high",
                                at |-> Min(T(g, w))]
  <2> HIDE DEF T
  <2> QED BY ONLY <1>1
<1>8. here.at < p
  OBVIOUS
<1> HIDE DEF here, there
<1>4. CASE T(f, v) = {}
  <2>1. v < p /\ w = v
    <3> HIDE DEF T
    <3>1. here.at = v
      BY ONLY <1>4, <1>6
    <3>2. v < p
      BY ONLY <3>1, <1>8
    <3> QED BY <3>2
  <2>2. T(g, w) = {}
    <3>1. SUFFICES ASSUME T(g, w) # {} PROVE FALSE
      OBVIOUS
    <3>2. PICK i \in T(g, w) : TRUE
      BY <3>1
    <3>3. i \in (k + 1) .. w
      BY <3>2 DEF H, L
    <3>4. i \in Int /\ i < p
      BY <2>1, <3>3
    <3>5. i \in T(f, v)
      BY <1>2, <3>2, <3>4
    <3> QED BY <3>5, <1>4
  <2> HIDE DEF T
  <2> QED BY ONLY <1>4, <1>6, <1>7, <2>1, <2>2 DEF here, there
<1>5. CASE T(f, v) # {}
  <2> DEFINE x == Min(T(f, v))
             y == Min(T(g, w))
  <2>1. x < p /\ x \in Int /\ x \in T(f, v) /\ \A i \in T(f, v) : i \in Int /\ x <= i
    <3>1. x < p
      <4> HIDE DEF T
      <4>1. here.at = Min(T(f, v))
        BY ONLY <1>5, <1>6
      <4> QED BY ONLY <4>1, <1>8
    <3> QED BY <3>1, <1>3, <1>5
  <2>2. x \in T(g, w)
    <3> HIDE DEF x
    <3> QED BY <1>2, <2>1
  <2>3. T(g, w) # {}
    BY <2>2
  <2>4. y \in Int /\ y \in T(g, w) /\ \A i \in T(g, w) : i \in Int /\ y <= i
    BY <1>3, <2>3
  <2> HIDE DEF x, y
  <2>5. y <= x
    BY <2>2, <2>4
  <2>6. y < p
    BY ONLY <2>1, <2>4, <2>5, p \in Int
  <2>7. y \in T(f, v)
    BY <1>2, <2>4, <2>6
  <2>8. x = y
    BY ONLY <2>1, <2>4, <2>5, <2>7
  <2>9. x \in L(f, v) <=> y \in L(g, w)
    BY <1>2, <2>1, <2>8
  <2>10. here = [touched |-> IF x \in L(f, v) THEN "low" ELSE "high", at |-> x]
    <3> HIDE DEF T
    <3> QED BY ONLY <1>5, <1>6 DEF x
  <2>11. there = [touched |-> IF y \in L(g, w) THEN "low" ELSE "high", at |-> y]
    <3> HIDE DEF T
    <3> QED BY ONLY <2>3, <1>7 DEF y
  <2>12. (IF x \in L(f, v) THEN "low" ELSE "high") = (IF y \in L(g, w) THEN "low" ELSE "high")
    BY ONLY <2>9
  <2>13. here = there
    BY ONLY <2>8, <2>10, <2>11, <2>12
  <2> QED BY <2>13 DEF here, there
<1> QED BY <1>4, <1>5

\* A label, of what decided it.
Outcome(k, touch, vertical, gain, risk) ==
    CASE touch.touched = "high" ->
           [at |-> k, exit |-> touch.at, label |-> 1, barrier |-> "upper", size |-> risk]
      [] touch.touched = "low" ->
           [at |-> k, exit |-> touch.at, label |-> -1, barrier |-> "lower", size |-> risk]
      [] OTHER ->
           [at |-> k, exit |-> vertical, label |-> Sign(gain), barrier |-> "vertical", size |-> gain]

\* A label is the outcome of its touch.
LEMMA OutcomeOf ==
    ASSUME NEW f, NEW k, NEW mode, NEW vertical, vertical = VerticalPosition(f, k, mode)
    PROVE  TripleBarrier(f, k, mode)
             = Outcome(k, LabelTouch(f, k, vertical), vertical,
                       f[vertical].close - f[k].close, RealizedVolatility(f, k))
  BY DEF TripleBarrier, Outcome, LabelTouch

\* It ends where the touch is, and what the vertical barrier would have given matters
\* only when nothing was touched.
LEMMA OutcomeFacts ==
    ASSUME NEW k, NEW touch, touch.touched \in {"vertical", "high", "low"}, NEW vertical,
           touch.touched = "vertical" => touch.at = vertical, NEW gain, NEW risk,
           NEW other, NEW result, touch.touched = "vertical" => other = vertical /\ result = gain
    PROVE  /\ Outcome(k, touch, vertical, gain, risk).at = k
           /\ Outcome(k, touch, vertical, gain, risk).exit = touch.at
           /\ Outcome(k, touch, other, result, risk) = Outcome(k, touch, vertical, gain, risk)
<1>1. CASE touch.touched = "high"
  BY <1>1 DEF Outcome
<1>2. CASE touch.touched = "low"
  BY <1>2 DEF Outcome
<1>3. CASE touch.touched = "vertical"
  <2>1. /\ touch.at = vertical /\ other = vertical /\ result = gain
        /\ touch.touched # "high" /\ touch.touched # "low"
    BY <1>3
  <2>2. \A v, x : Outcome(k, touch, v, x, risk)
                  = [at |-> k, exit |-> v, label |-> Sign(x), barrier |-> "vertical", size |-> x]
    BY ONLY <2>1 DEF Outcome
  <2> QED BY ONLY <2>1, <2>2
<1> QED BY <1>1, <1>2, <1>3

\* A trade that is over before that position is the same on both frames.
LEMMA TradeAlike ==
    ASSUME NEW f, NEW n, NEW g, NEW m, NEW p, Alike(f, n, g, m, p), NEW mode \in {"mis", "cnc"},
           NEW k \in CusumEvents(f), ~ IsSkipped(f, k, mode), TripleBarrier(f, k, mode).exit < p
    PROVE  /\ k \in CusumEvents(g) /\ ~ IsSkipped(g, k, mode)
           /\ TripleBarrier(g, k, mode) = TripleBarrier(f, k, mode)
           /\ TripleBarrier(f, k, mode).at = k
           /\ k \in 1 .. p - 1 /\ TripleBarrier(f, k, mode).exit \in 1 .. p - 1
<1> DEFINE v == VerticalPosition(f, k, mode)
           w == VerticalPosition(g, k, mode)
           touch == LabelTouch(f, k, v)
<1>1. /\ Timed(f, n) /\ Timed(g, m) /\ IsFrame(f, n) /\ IsFrame(g, m)
      /\ p \in 1 .. n /\ p \in 1 .. m /\ n \in Nat /\ m \in Nat /\ p \in Int
      /\ \A i \in 1 .. p - 1 : f[i] = g[i]
  <2>1. /\ Timed(f, n) /\ Timed(g, m) /\ p \in 1 .. n /\ p \in 1 .. m
        /\ \A i \in 1 .. p - 1 : f[i] = g[i]
    BY DEF Alike
  <2>2. IsFrame(f, n) /\ IsFrame(g, m) /\ n \in Nat /\ m \in Nat
    BY ONLY <2>1 DEF Timed, IsFrame
  <2> QED BY ONLY <2>1, <2>2
<1>2. k \in 1 .. n /\ k \in Int
  BY <1>1, EventsAreBars
<1>3. v \in 1 .. n /\ v \in Int /\ k < v /\ RealizedVolatility(f, k) # None
  <2>1. ~ (v <= k) /\ RealizedVolatility(f, k) # None
    BY DEF IsSkipped
  <2>2. v \in 1 .. n
    BY ONLY <2>1, <1>1, <1>2, mode \in {"mis", "cnc"}, VerticalFacts
  <2> HIDE DEF v
  <2> QED BY <2>1, <2>2, <1>1, <1>2
<1> HIDE DEF v, w
<1>4. /\ touch.touched \in {"vertical", "high", "low"}
      /\ touch.touched = "vertical" => touch.at = v
      /\ touch.touched # "vertical" => touch.at \in (k + 1) .. v
  <2>1. ASSUME NEW tie \in BOOLEAN, NEW x, x = FirstTouch(f, k, v, Upper, Lower, tie)
        PROVE  /\ x.touched \in {"vertical", "high", "low"}
               /\ x.touched = "vertical" => x.at = v
               /\ x.touched # "vertical" => x.at \in (k + 1) .. v
    BY ONLY <2>1, tie \in BOOLEAN, <1>2, <1>3, FirstTouchFacts
  <2>2. TRUE \in BOOLEAN /\ touch = FirstTouch(f, k, v, Upper, Lower, TRUE)
    BY DEF LabelTouch
  <2> HIDE DEF touch
  <2> QED BY ONLY <2>1, <2>2
<1> DEFINE gain == f[v].close - f[k].close
           risk == RealizedVolatility(f, k)
<1>5. TripleBarrier(f, k, mode) = Outcome(k, touch, v, gain, risk)
  BY OutcomeOf DEF v
<1>6. TripleBarrier(f, k, mode).at = k /\ TripleBarrier(f, k, mode).exit = touch.at
  <2> HIDE DEF touch, gain, risk
  <2> QED BY ONLY <1>4, <1>5, OutcomeFacts
<1>7. touch.at < p
  BY ONLY <1>6, TripleBarrier(f, k, mode).exit < p
<1>8. touch.at \in Int /\ k < touch.at
  <2> HIDE DEF touch
  <2> QED BY ONLY <1>2, <1>3, <1>4
<1>9. k \in 1 .. p - 1 /\ touch.at \in 1 .. p - 1 /\ p - 1 \in Nat
  <2> HIDE DEF touch
  <2> QED BY ONLY <1>1, <1>2, <1>7, <1>8
<1>10. k \in CusumEvents(g)
  <2>1. p - 1 <= n /\ p - 1 <= m /\ \A j \in 1 .. p - 1 : f[j] = g[j]
    BY ONLY <1>1
  <2>2. k \in CusumEvents(f) <=> k \in CusumEvents(g)
    BY ONLY <1>1, <1>9, <2>1, EventsLookBack
  <2> QED BY <2>2
<1>11. f[k] = g[k] /\ RealizedVolatility(f, k) = RealizedVolatility(g, k)
  <2>1. k \in 1 .. m /\ \A j \in 1 .. k : f[j] = g[j]
    BY ONLY <1>1, <1>9
  <2>2. RealizedVolatility(f, k) = RealizedVolatility(g, k)
    BY ONLY <1>1, <1>2, <2>1, SameRow
  <2> QED BY ONLY <1>1, <1>9, <2>2
<1>12. (v < p => w = v) /\ w \in Int /\ (~ (v < p) => ~ (w < p))
  <2>1. Alike(f, n, g, m, p) /\ mode \in {"mis", "cnc"}
    OBVIOUS
  <2> QED BY ONLY <2>1, <1>9, VerticalAlike DEF v, w
<1>13. ~ IsSkipped(g, k, mode)
  <2>1. ~ (w <= k)
    <3>1. k < p /\ k \in Int /\ p \in Int /\ v \in Int /\ w \in Int
      BY ONLY <1>1, <1>3, <1>9, <1>12
    <3> QED BY ONLY <3>1, <1>3, <1>12
  <2> QED BY ONLY <2>1, <1>3, <1>11 DEF IsSkipped, w
<1>14. ASSUME NEW i \in (k + 1) .. (p - 1)
       PROVE  /\ HitsHigh(f, k, i, Upper) <=> HitsHigh(g, k, i, Upper)
              /\ HitsLow(f, k, i, Lower) <=> HitsLow(g, k, i, Lower)
  <2>1. f[i] = g[i]
    BY <1>1, <1>9
  <2> QED BY ONLY <2>1, <1>11 DEF HitsHigh, HitsLow
<1>15. LabelTouch(g, k, w) = touch
  <2>1. TouchedAlike(f, g, k, p)
    BY ONLY <1>14 DEF TouchedAlike
  <2>2. p \in Int /\ k \in Int /\ v \in Int /\ w \in Int
    BY ONLY <1>1, <1>2, <1>3, <1>12
  <2>3. (v < p => w = v) /\ (~ (v < p) => ~ (w < p))
    BY ONLY <1>12
  <2> QED BY ONLY <2>1, <2>2, <2>3, <1>7, TouchAlike
<1>16. touch.touched = "vertical" => w = v /\ g[w].close - g[k].close = gain
  <2>1. ASSUME touch.touched = "vertical" PROVE w = v /\ v \in 1 .. p - 1
    <3> HIDE DEF touch
    <3> QED BY ONLY <2>1, <1>4, <1>7, <1>9, <1>12
  <2>2. v \in 1 .. p - 1 => f[v] = g[v]
    BY ONLY <1>1
  <2> HIDE DEF touch
  <2> QED BY ONLY <2>1, <2>2, <1>11 DEF gain
<1>17. TripleBarrier(g, k, mode)
         = Outcome(k, touch, w, g[w].close - g[k].close, risk)
  <2>1. TripleBarrier(g, k, mode)
          = Outcome(k, LabelTouch(g, k, w), w,
                    g[w].close - g[k].close, RealizedVolatility(g, k))
    BY OutcomeOf DEF w
  <2> HIDE DEF touch
  <2> QED BY ONLY <2>1, <1>11, <1>15 DEF risk
<1>18. TripleBarrier(g, k, mode) = TripleBarrier(f, k, mode)
  <2> DEFINE result == g[w].close - g[k].close
  <2>1. /\ touch.touched = "vertical" => w = v /\ result = gain
        /\ TripleBarrier(g, k, mode) = Outcome(k, touch, w, result, risk)
    BY ONLY <1>16, <1>17 DEF result
  <2> HIDE DEF touch, gain, risk, result
  <2> QED BY ONLY <2>1, <1>4, <1>5, OutcomeFacts
<1> QED BY ONLY <1>6, <1>9, <1>10, <1>13, <1>18

------------------------------------------------------------------------------
\* Bars and one more.
Longer(b, n, longer) ==
    /\ n \in Nat \ {0} /\ Timed(b, n) /\ Timed(longer, n + 1)
    /\ \A i \in 1 .. n : longer[i] = b[i]

\* What had been traded before the last bar had been traded without it.
LEMMA TradedAlike ==
    ASSUME NEW b, NEW n, NEW z, Longer(b, n, z), NEW limit \in Int, limit <= z[n + 1].t
    PROVE  Pick(b, Early(b, limit)) = Pick(z, Early(z, limit))
<1>1. /\ n \in Nat /\ Timed(b, n) /\ Timed(z, n + 1) /\ \A i \in 1 .. n : z[i] = b[i]
      /\ DOMAIN b = 1 .. n /\ DOMAIN z = 1 .. n + 1
  <2>1. n \in Nat /\ Timed(b, n) /\ Timed(z, n + 1) /\ \A i \in 1 .. n : z[i] = b[i]
    BY DEF Longer
  <2>2. DOMAIN b = 1 .. n /\ DOMAIN z = 1 .. n + 1
    BY <2>1, FrameLength DEF Timed
  <2> QED BY <2>1, <2>2
<1>2. Early(b, limit) = Early(z, limit)
  <2>1. z[n + 1].t \in Nat
    BY <1>1 DEF Timed
  <2>2. ~ (z[n + 1].t < limit)
    BY <2>1
  <2>3. \A i \in 1 .. n + 1 : i \in 1 .. n \/ i = n + 1
    BY <1>1
  <2>4. \A i \in 1 .. n : i \in 1 .. n + 1
    BY <1>1
  <2> QED BY ONLY <1>1, <2>2, <2>3, <2>4 DEF Early
<1>3. PICK m \in 0 .. n : Early(b, limit) = 1 .. m
  BY <1>1, TradedBefore
<1>4. m \in Nat /\ \A k \in 1 .. m : b[k] = z[k]
  BY <1>1
<1>5. Pick(b, 1 .. m) = [k \in 1 .. m |-> b[k]] /\ Pick(z, 1 .. m) = [k \in 1 .. m |-> z[k]]
  BY <1>4, PickFirst
<1>6. [k \in 1 .. m |-> b[k]] = [k \in 1 .. m |-> z[k]]
  BY <1>4
<1> QED BY ONLY <1>2, <1>3, <1>5, <1>6

\* A bar of a frame is over before the next begins.
LEMMA FrameSpacing ==
    ASSUME NEW b, NEW n, Timed(b, n), NEW slots \in Nat \ {0},
           NEW j \in 1 .. Cardinality(Opens(b, slots)), NEW k \in 1 .. Cardinality(Opens(b, slots)), j < k
    PROVE  Resample(b, slots)[j].t + slots <= Resample(b, slots)[k].t
<1> DEFINE opens == Opens(b, slots)
           frame == Resample(b, slots)
           at == Ascending(opens)
<1>1. /\ frame[j].t = IntervalStart(b[at[j]].t, slots) /\ frame[k].t = IntervalStart(b[at[k]].t, slots)
      /\ at[j] \in opens /\ at[k] \in opens /\ frame[j].t < frame[k].t
  <2>1. Timed(frame, Cardinality(opens))
    BY FrameFacts
  <2>2. /\ frame[j].t = IntervalStart(b[at[j]].t, slots) /\ frame[k].t = IntervalStart(b[at[k]].t, slots)
        /\ at[j] \in opens /\ at[k] \in opens
    BY FrameFacts
  <2>3. frame[j].t < frame[k].t
    BY <2>1 DEF Timed
  <2> QED BY <2>2, <2>3
<1>2. at[j] \in 1 .. n /\ at[k] \in 1 .. n
  BY <1>1, IntervalFacts
<1>3. \A x, y \in 1 .. n :
         IntervalStart(b[x].t, slots) < IntervalStart(b[y].t, slots) =>
            IntervalStart(b[x].t, slots) + slots <= IntervalStart(b[y].t, slots)
  BY IntervalFacts
<1> HIDE DEF at, frame
<1>4. frame[j].t + slots <= frame[k].t
  BY ONLY <1>1, <1>2, <1>3
<1> QED BY <1>4 DEF frame

\* One more bar of the archive adds to the last bar of a frame, or a bar behind it.
LEMMA FramesGrow ==
    ASSUME NEW b, NEW n, NEW z, Longer(b, n, z), NEW slots \in Nat \ {0},
           NEW f, f = Resample(b, slots), NEW g, g = Resample(z, slots),
           NEW p, p = Cardinality(Opens(b, slots)), NEW q, q = Cardinality(Opens(z, slots))
    PROVE  /\ Timed(f, p) /\ Timed(g, q) /\ p \in Nat \ {0} /\ q \in Nat /\ p <= q
           /\ \A j \in 1 .. p : f[j].t = g[j].t
           /\ f[p].t < z[n + 1].t
           /\ \A k \in 1 .. q : g[k].t + slots <= z[n + 1].t =>
                 k <= p /\ \A j \in 1 .. k : f[j] = g[j]
<1> DEFINE opens == Opens(b, slots)
           later == Opens(z, slots)
           at == Ascending(opens)
           on == Ascending(later)
           S(i) == IntervalStart(z[i].t, slots)
<1>1. /\ n \in Nat /\ n >= 1 /\ n + 1 \in Nat /\ Timed(b, n) /\ Timed(z, n + 1)
      /\ \A i \in 1 .. n : z[i] = b[i]
  BY DEF Longer
<1>2. /\ DOMAIN b = 1 .. n /\ opens \subseteq 1 .. n /\ opens \in SUBSET Int /\ IsFiniteSet(opens)
  BY <1>1, IntervalFacts
<1>3. /\ DOMAIN z = 1 .. n + 1 /\ later \subseteq 1 .. n + 1 /\ later \in SUBSET Int
      /\ IsFiniteSet(later)
      /\ \A i \in 1 .. n + 1 : S(i) \in Nat /\ S(i) <= z[i].t /\ z[i].t < S(i) + slots
  BY <1>1, IntervalFacts
<1>4. /\ Timed(f, p)
      /\ \A k \in 1 .. p : at[k] \in opens /\ f[k].t = IntervalStart(b[at[k]].t, slots)
  BY <1>1, FrameFacts
<1>5. /\ Timed(g, q)
      /\ \A k \in 1 .. q : on[k] \in later /\ g[k].t = S(on[k])
  BY <1>1, FrameFacts
<1>6. \A i \in 1 .. n : i \in 1 .. n + 1 /\ (i # 1 => i - 1 \in 1 .. n)
  BY <1>1
<1>7. \A i \in 1 .. n : i \in opens <=> i \in later
  BY ONLY <1>1, <1>2, <1>3, <1>6 DEF Opens
<1>8. 1 \in opens
  <2>1. 1 \in 1 .. n
    BY <1>1
  <2> QED BY <2>1, <1>2 DEF Opens
<1> HIDE DEF opens, later, S
<1>9. opens \in SUBSET later /\ \A x \in later, y \in opens : x < y => x \in opens
  <2>1. ASSUME NEW x \in later, NEW y \in opens, x < y PROVE x \in opens
    <3>1. x \in 1 .. n + 1 /\ y \in 1 .. n
      BY <1>2, <1>3
    <3>2. x \in 1 .. n
      BY ONLY <3>1, <2>1, <1>1
    <3> QED BY <3>2, <1>7
  <2>2. opens \in SUBSET later
    BY <1>2, <1>7
  <2> QED BY <2>1, <2>2
<1>10. /\ p \in Nat /\ q \in Nat /\ p <= q /\ \A k \in 1 .. p : at[k] = on[k]
  BY ONLY <1>3, <1>9, p = Cardinality(Opens(b, slots)), q = Cardinality(Opens(z, slots)), AscendingBegins
     DEF opens, later
<1>11. p # 0
  <2>1. p = Cardinality(opens)
    BY DEF opens
  <2>2. opens # {}
    BY <1>8
  <2> QED BY ONLY <1>2, <2>1, <2>2, FS_EmptySet
<1> HIDE DEF at, on
<1>12. ASSUME NEW j \in 1 .. p PROVE f[j].t = g[j].t
  <2>1. j \in 1 .. q
    BY ONLY <1>10
  <2>2. at[j] \in 1 .. n /\ at[j] = on[j]
    BY ONLY <1>2, <1>4, <1>10
  <2>3. z[at[j]] = b[at[j]]
    BY ONLY <2>2, <1>1
  <2>4. f[j].t = IntervalStart(b[at[j]].t, slots) /\ g[j].t = IntervalStart(z[on[j]].t, slots)
    BY ONLY <1>4, <1>5, <2>1, j \in 1 .. p DEF S
  <2> QED BY ONLY <2>2, <2>3, <2>4
<1>13. f[p].t < z[n + 1].t
  <2>1. p \in 1 .. p /\ p \in 1 .. q
    BY ONLY <1>10, <1>11
  <2>2. on[p] \in 1 .. n /\ f[p].t = S(on[p])
    BY ONLY <2>1, <1>2, <1>4, <1>5, <1>10, <1>12
  <2>3. on[p] \in 1 .. n + 1 /\ n + 1 \in 1 .. n + 1 /\ on[p] < n + 1
    BY ONLY <2>2, <1>1
  <2>4. z[on[p]].t < z[n + 1].t /\ z[on[p]].t \in Nat /\ z[n + 1].t \in Nat
    BY ONLY <2>3, <1>1 DEF Timed
  <2>5. S(on[p]) \in Nat /\ S(on[p]) <= z[on[p]].t
    BY ONLY <2>3, <1>3
  <2> QED BY ONLY <2>2, <2>4, <2>5
<1>14. ASSUME NEW k \in 1 .. q, g[k].t + slots <= z[n + 1].t
       PROVE  k <= p /\ \A j \in 1 .. k : f[j] = g[j]
  <2>1. on[k] \in later /\ on[k] \in 1 .. n + 1 /\ g[k].t = S(on[k])
    BY ONLY <1>3, <1>5, k \in 1 .. q
  <2>2. on[k] # n + 1
    <3>1. n + 1 \in 1 .. n + 1
      BY <1>1
    <3>2. z[n + 1].t \in Nat /\ S(n + 1) \in Nat /\ z[n + 1].t < S(n + 1) + slots
      BY <3>1, <1>1, <1>3 DEF Timed
    <3> QED BY ONLY <3>2, <2>1, <1>14, slots \in Nat \ {0}
  <2>3. on[k] \in opens
    <3>1. on[k] \in 1 .. n
      BY ONLY <2>1, <2>2, <1>1
    <3> QED BY ONLY <3>1, <2>1, <1>7
  <2>4. PICK j \in 1 .. p : at[j] = on[k]
    <3>1. p = Cardinality(opens)
      BY DEF opens
    <3> QED BY ONLY <2>3, <3>1, <1>2, AscendingOrder DEF at
  <2>5. on[j] = on[k] /\ j \in 1 .. q
    BY ONLY <2>4, <1>10
  <2>6. j = k
    <3>1. q = Cardinality(later)
      BY DEF later
    <3>2. \A x, y \in 1 .. q : x < y => on[x] < on[y] /\ on[x] \in Int /\ on[y] \in Int
      BY ONLY <3>1, <1>3, AscendingGrows, AscendingOrder DEF on
    <3>3. j \in Int /\ k \in Int
      BY ONLY <1>10, j \in 1 .. p, k \in 1 .. q
    <3> QED BY ONLY <2>5, <3>2, <3>3, k \in 1 .. q
  <2>7. k \in 1 .. p /\ k <= p
    BY ONLY <2>4, <2>6, <1>10
  <2> DEFINE limit == g[k].t + slots
  <2>8. limit \in Int /\ limit = f[k].t + slots /\ limit <= z[n + 1].t
    <3>1. g[k].t \in Nat /\ f[k].t = g[k].t
      BY <2>7, <1>5, <1>12 DEF Timed
    <3> QED BY <3>1, <1>14
  <2>9. Resample(Pick(b, Early(b, limit)), slots) = [i \in 1 .. k |-> Resample(b, slots)[i]]
    <3>1. /\ k \in 1 .. Cardinality(Opens(b, slots)) /\ Timed(b, n)
          /\ limit = Resample(b, slots)[k].t + slots
      BY <2>7, <2>8, <1>1
    <3> HIDE DEF limit
    <3> QED BY ONLY <3>1, slots \in Nat \ {0}, TradedFrame
  <2>10. Resample(Pick(z, Early(z, limit)), slots) = [i \in 1 .. k |-> Resample(z, slots)[i]]
    <3>1. /\ k \in 1 .. Cardinality(Opens(z, slots)) /\ Timed(z, n + 1)
          /\ limit = Resample(z, slots)[k].t + slots
      BY <1>1
    <3> HIDE DEF limit
    <3> QED BY ONLY <3>1, slots \in Nat \ {0}, TradedFrame
  <2>11. Pick(b, Early(b, limit)) = Pick(z, Early(z, limit))
    <3> HIDE DEF limit
    <3> QED BY <2>8, TradedAlike
  <2> HIDE DEF limit
  <2>12. [i \in 1 .. k |-> f[i]] = [i \in 1 .. k |-> g[i]]
    BY <2>9, <2>10, <2>11
  <2>13. \A i \in 1 .. k : [j_ \in 1 .. k |-> f[j_]][i] = [j_ \in 1 .. k |-> g[j_]][i]
    BY ONLY <2>12
  <2>14. \A i \in 1 .. k : f[i] = g[i]
    BY ONLY <2>13
  <2> QED BY ONLY <2>7, <2>14
<1> QED BY ONLY <1>4, <1>5, <1>10, <1>11, <1>12, <1>13, <1>14

\* The features of a decision bar that is over stay as they are.
LEMMA FeaturesKept ==
    ASSUME NEW b, NEW n, NEW z, Longer(b, n, z), NEW c \in Configs, NEW t \in Nat,
           t + c.decision <= z[n + 1].t
    PROVE  Features(b, c, t) = Features(z, c, t)
<1> DEFINE slots == c.fine
           f == Resample(b, slots)
           g == Resample(z, slots)
           p == Cardinality(Opens(b, slots))
           q == Cardinality(Opens(z, slots))
           start == t + (c.decision - slots)
           here == {k \in DOMAIN f : f[k].t = start}
           there == {k \in DOMAIN g : g[k].t = start}
<1>1. slots \in Nat \ {0} /\ c.decision \in Nat
  BY ArchiveAssumption
<1>2. /\ Features(b, c, t) = {FeatureRow(f, k) : k \in here}
      /\ Features(z, c, t) = {FeatureRow(g, k) : k \in there}
  BY DEF Features, FineFrame, LastFineBar
<1> HIDE DEF slots
<1>3. /\ Timed(f, p) /\ Timed(g, q) /\ p \in Nat \ {0} /\ q \in Nat /\ p <= q
      /\ \A j \in 1 .. p : f[j].t = g[j].t
      /\ \A k \in 1 .. q : g[k].t + slots <= z[n + 1].t =>
            k <= p /\ \A j \in 1 .. k : f[j] = g[j]
  <2>1. /\ f = Resample(b, slots) /\ g = Resample(z, slots)
        /\ p = Cardinality(Opens(b, slots)) /\ q = Cardinality(Opens(z, slots))
    OBVIOUS
  <2> HIDE DEF f, g, p, q
  <2> QED BY ONLY <2>1, <1>1, Longer(b, n, z), FramesGrow
<1> HIDE DEF f, g, p, q
<1>4. DOMAIN f = 1 .. p /\ DOMAIN g = 1 .. q
  BY <1>3, FrameLength DEF Timed
<1>5. start + slots <= z[n + 1].t
  <2>1. start + slots = t + c.decision
    BY <1>1
  <2> QED BY <2>1
<1> HIDE DEF start
<1>6. ASSUME NEW k \in there PROVE k \in here /\ FeatureRow(f, k) = FeatureRow(g, k)
  <2>1. k \in 1 .. q /\ g[k].t = start
    BY <1>4
  <2>2. k <= p /\ \A j \in 1 .. k : f[j] = g[j]
    BY ONLY <2>1, <1>3, <1>5
  <2>3. k \in 1 .. p
    BY ONLY <2>1, <2>2, <1>3
  <2>4. f[k].t = start
    BY ONLY <2>1, <2>3, <1>3
  <2>5. FeatureRow(f, k) = FeatureRow(g, k)
    BY ONLY <1>3, <2>1, <2>2, <2>3, SameRow
  <2> QED BY <2>3, <2>4, <2>5, <1>4
<1>7. ASSUME NEW k \in here PROVE k \in there
  <2>1. k \in 1 .. p /\ k \in 1 .. q
    BY <1>3, <1>4
  <2> QED BY <2>1, <1>3, <1>4
<1>8. here = there
  BY <1>6, <1>7
<1> HIDE DEF here, there
<1>9. {FeatureRow(f, k) : k \in here} = {FeatureRow(g, k) : k \in there}
  BY ONLY <1>6, <1>8
<1> QED BY <1>2, <1>9

\* A label is about two bars of its frame.
LEMMA LabelsAreBars ==
    ASSUME NEW f, NEW n, Timed(f, n), NEW mode \in {"mis", "cnc"},
           NEW k \in CusumEvents(f), ~ IsSkipped(f, k, mode)
    PROVE  /\ TripleBarrier(f, k, mode).at = k /\ k \in 1 .. n
           /\ TripleBarrier(f, k, mode).exit \in 1 .. n
<1> DEFINE v == VerticalPosition(f, k, mode)
           touch == LabelTouch(f, k, v)
<1>1. IsFrame(f, n) /\ n \in Nat
  BY DEF Timed, IsFrame
<1>2. k \in 1 .. n /\ k \in Int
  BY <1>1, EventsAreBars
<1>3. v \in 1 .. n /\ v \in Int
  <2>1. ~ (v <= k)
    BY DEF IsSkipped
  <2>2. v \in 1 .. n
    BY ONLY <2>1, <1>2, Timed(f, n), mode \in {"mis", "cnc"}, VerticalFacts
  <2> HIDE DEF v
  <2> QED BY <2>2, <1>1
<1> HIDE DEF v
<1>4. /\ touch.touched \in {"vertical", "high", "low"}
      /\ touch.touched = "vertical" => touch.at = v
      /\ touch.touched # "vertical" => touch.at \in (k + 1) .. v
  <2>1. ASSUME NEW tie \in BOOLEAN, NEW x, x = FirstTouch(f, k, v, Upper, Lower, tie)
        PROVE  /\ x.touched \in {"vertical", "high", "low"}
               /\ x.touched = "vertical" => x.at = v
               /\ x.touched # "vertical" => x.at \in (k + 1) .. v
    BY ONLY <2>1, tie \in BOOLEAN, <1>2, <1>3, FirstTouchFacts
  <2>2. TRUE \in BOOLEAN /\ touch = FirstTouch(f, k, v, Upper, Lower, TRUE)
    BY DEF LabelTouch
  <2> HIDE DEF touch
  <2> QED BY ONLY <2>1, <2>2
<1>5. TripleBarrier(f, k, mode)
        = Outcome(k, touch, v, f[v].close - f[k].close, RealizedVolatility(f, k))
  BY OutcomeOf DEF v
<1> HIDE DEF touch
<1>6. TripleBarrier(f, k, mode).at = k /\ TripleBarrier(f, k, mode).exit = touch.at
  BY ONLY <1>4, <1>5, OutcomeFacts
<1>7. touch.at \in 1 .. n
  <2>1. touch.touched = "vertical" => touch.at \in 1 .. n
    BY ONLY <1>3, <1>4
  <2>2. touch.touched # "vertical" => touch.at \in 1 .. n
    BY ONLY <1>1, <1>2, <1>3, <1>4
  <2> QED BY ONLY <2>1, <2>2
<1> QED BY ONLY <1>2, <1>6, <1>7

\* Two rows that say the same of one trade.
SaysTheSame(r, s) ==
    /\ r.t0 = s.t0 /\ r.t1 = s.t1 /\ r.long = s.long
    /\ r.barrier = s.barrier /\ r.size = s.size /\ r.features = s.features

\* A row whose trade is over before a time up to which two archives agree is a row
\* of both.
LEMMA RowsAlike ==
    ASSUME NEW b, NEW nb, Timed(b, nb), NEW z, NEW c \in Configs,
           NEW f, f = Frame(b, c), NEW g, g = Frame(z, c),
           NEW n, n = Cardinality(Opens(b, c.decision)), NEW m, NEW p, Alike(f, n, g, m, p),
           \A t \in Nat : t + c.decision <= f[p].t => Features(b, c, t) = Features(z, c, t),
           NEW r \in Dataset(b, c), r.t1 < f[p].t
    PROVE  \E s \in Dataset(z, c) : SaysTheSame(r, s)
<1> DEFINE mode == c.mode
           Row(x, frame, l) ==
               [t0 |-> frame[l.at].t, t1 |-> frame[l.exit].t, long |-> l.label > 0,
                barrier |-> l.barrier, size |-> l.size,
                features |-> CHOOSE row \in Features(x, c, frame[l.at].t) : TRUE,
                weight |-> [total |-> Uniqueness(Weighed(x, c), l), bars |-> l.exit - l.at + 1]]
<1>1. mode \in {"mis", "cnc"} /\ c.decision \in Nat \ {0}
  BY ArchiveAssumption
<1>2. /\ Dataset(b, c) = {Row(b, f, l) : l \in Valid(b, c, Labels(f, mode))}
      /\ Dataset(z, c) = {Row(z, g, l) : l \in Valid(z, c, Labels(g, mode))}
  BY DEF Dataset
<1>3. PICK l \in Valid(b, c, Labels(f, mode)) : r = Row(b, f, l)
  BY <1>2
<1>4. /\ l \in Labels(f, mode)
      /\ \E row \in Features(b, c, f[l.at].t) : IsComplete(row)
  BY <1>3 DEF Valid
<1>5. PICK k \in CusumEvents(f) : ~ IsSkipped(f, k, mode) /\ l = TripleBarrier(f, k, mode)
  BY <1>4 DEF Labels
<1>6. Timed(f, n) /\ Timed(g, m) /\ p \in 1 .. n /\ \A j \in 1 .. p - 1 : f[j] = g[j]
  BY DEF Alike
<1>7. l.at = k /\ k \in 1 .. n /\ l.exit \in 1 .. n
  BY ONLY <1>1, <1>5, <1>6, LabelsAreBars
<1>8. r.t1 = f[l.exit].t
  BY <1>3
<1> HIDE DEF mode
<1>9. l.exit < p
  <2>1. n \in Nat /\ p \in Int /\ l.exit \in Int
    BY <1>6, <1>7 DEF Timed, IsFrame
  <2>2. SUFFICES ASSUME p <= l.exit PROVE FALSE
    BY <2>1
  <2>3. /\ f[p].t \in Nat /\ f[l.exit].t \in Nat /\ (p < l.exit => f[p].t < f[l.exit].t)
    BY <1>6, <1>7 DEF Timed
  <2>4. p = l.exit \/ p < l.exit
    BY <2>1, <2>2
  <2> QED BY ONLY <2>3, <2>4, <1>8, r.t1 < f[p].t
<1>10. /\ k \in CusumEvents(g) /\ ~ IsSkipped(g, k, mode)
       /\ TripleBarrier(g, k, mode) = l
       /\ k \in 1 .. p - 1 /\ l.exit \in 1 .. p - 1
  <2>1. TripleBarrier(f, k, mode).exit < p
    BY ONLY <1>5, <1>9
  <2> QED BY ONLY <2>1, <1>1, <1>5, Alike(f, n, g, m, p), TradeAlike DEF mode
<1>11. l \in Labels(g, mode) /\ f[l.at] = g[l.at] /\ f[l.exit] = g[l.exit]
  <2>1. l \in Labels(g, mode)
    BY <1>10 DEF Labels
  <2> QED BY ONLY <2>1, <1>6, <1>7, <1>10
<1>12. f[k].t \in Nat /\ f[k].t + c.decision <= f[p].t
  <2>1. f[k].t \in Nat
    BY <1>6, <1>7 DEF Timed
  <2>2. k < p /\ k \in 1 .. n
    BY ONLY <1>6, <1>7, <1>10
  <2>3. f = Resample(b, c.decision)
    BY DEF Frame
  <2> QED BY ONLY <2>1, <2>2, <2>3, <1>1, <1>6, Timed(b, nb),
             n = Cardinality(Opens(b, c.decision)), FrameSpacing
<1>13. Features(b, c, f[l.at].t) = Features(z, c, g[l.at].t)
  <2>1. Features(b, c, f[k].t) = Features(z, c, f[k].t)
    BY <1>12
  <2> QED BY ONLY <2>1, <1>7, <1>11
<1>14. l \in Valid(z, c, Labels(g, mode))
  <2>1. \E row \in Features(z, c, g[l.at].t) : IsComplete(row)
    BY ONLY <1>4, <1>13
  <2>2. \E row \in Features(z, c, Frame(z, c)[l.at].t) : IsComplete(row)
    BY <2>1
  <2> QED BY ONLY <2>2, <1>11 DEF Valid
<1>15. Row(z, g, l) \in Dataset(z, c)
  BY <1>2, <1>14 DEF mode
<1>16. SaysTheSame(Row(b, f, l), Row(z, g, l))
  BY ONLY <1>11, <1>13 DEF SaysTheSame
<1> HIDE DEF Row
<1> QED BY ONLY <1>3, <1>15, <1>16

\* A row ends at a bar of its frame.
LEMMA RowsEnd ==
    ASSUME NEW b, NEW n, Timed(b, n), NEW c \in Configs, NEW r \in Dataset(b, c)
    PROVE  r.t1 \in Nat
<1> DEFINE f == Frame(b, c)
           size == Cardinality(Opens(b, c.decision))
<1>1. c.mode \in {"mis", "cnc"} /\ c.decision \in Nat \ {0}
  BY ArchiveAssumption
<1>2. Timed(f, size)
  BY <1>1, FrameFacts DEF Frame
<1>3. PICK l \in Valid(b, c, Labels(f, c.mode)) : r.t1 = f[l.exit].t
  BY DEF Dataset
<1> HIDE DEF f, size
<1>4. PICK k \in CusumEvents(f) : ~ IsSkipped(f, k, c.mode) /\ l = TripleBarrier(f, k, c.mode)
  BY <1>3 DEF Valid, Labels
<1>5. l.exit \in 1 .. size
  BY ONLY <1>1, <1>2, <1>4, LabelsAreBars
<1> QED BY ONLY <1>2, <1>3, <1>5 DEF Timed

\* The past is not rewritten: no bar that arrives changes, drops or adds to a row
\* whose trade ended before the last bar.
THEOREM PastStaysFixed == RowsSpec => PastIsFixed
<1> DEFINE was == Settled(rows, Now(bars, config))
           is == Settled(rows', Now(bars', config))
<1>1. ASSUME RowsInv, RowsInv', Arrive
      PROVE  was \subseteq is /\ \A r \in is \ was : r[2] >= Now(bars, config)
  <2> DEFINE slots == config.decision
             n == Len(bars)
             f == Frame(bars, config)
             g == Frame(bars', config)
             p == Cardinality(Opens(bars, slots))
             q == Cardinality(Opens(bars', slots))
  <2>1. /\ Timed(bars, n) /\ bars \in Seq(Traded) /\ bars # << >>
        /\ config \in Configs /\ rows = Dataset(bars, config)
    BY <1>1 DEF RowsInv
  <2>2. /\ Timed(bars', Len(bars')) /\ rows' = Dataset(bars', config)
    <3>1. (Timed(bars, Len(bars)))' /\ rows' = Dataset(bars', config') /\ config' = config
      BY <1>1 DEF RowsInv, Arrive
    <3> QED BY <3>1 DEF Timed, IsFrame
  <2>3. \E x : bars' = Append(bars, x)
    BY <1>1 DEF Arrive
  <2>4. n \in Nat \ {0} /\ Len(bars') = n + 1 /\ \A i \in 1 .. n : bars'[i] = bars[i]
    BY ONLY <2>1, <2>3
  <2>5. Longer(bars, n, bars')
    BY ONLY <2>1, <2>2, <2>4 DEF Longer
  <2>6. slots \in Nat \ {0}
    BY <2>1, ArchiveAssumption
  <2> HIDE DEF n, slots
  <2>7. /\ Timed(f, p) /\ Timed(g, q) /\ p \in Nat \ {0} /\ q \in Nat /\ p <= q
        /\ \A j \in 1 .. p : f[j].t = g[j].t
        /\ f[p].t < bars'[n + 1].t
        /\ \A k \in 1 .. q : g[k].t + slots <= bars'[n + 1].t =>
              k <= p /\ \A j \in 1 .. k : f[j] = g[j]
    <3>1. /\ f = Resample(bars, slots) /\ g = Resample(bars', slots)
          /\ p = Cardinality(Opens(bars, slots)) /\ q = Cardinality(Opens(bars', slots))
      BY DEF Frame, slots
    <3> HIDE DEF f, g, p, q
    <3> QED BY ONLY <3>1, <2>5, <2>6, FramesGrow
  <2>8. ASSUME NEW j \in 1 .. p, NEW k \in 1 .. p, j < k PROVE f[j].t + slots <= f[k].t
    BY ONLY <2>1, <2>6, <2>8, FrameSpacing DEF Frame, slots, p, f
  <2>9. /\ f = Frame(bars, config) /\ p = Cardinality(Opens(bars, config.decision))
        /\ g = Frame(bars', config) /\ q = Cardinality(Opens(bars', config.decision))
    BY DEF slots
  <2> HIDE DEF f, g, p, q
  <2>10. p \in 1 .. p /\ p \in 1 .. q /\ q \in 1 .. q
    BY ONLY <2>7
  <2>11. ASSUME NEW j \in 1 .. p - 1 PROVE f[j] = g[j]
    <3>1. j \in 1 .. p /\ j < p /\ j \in 1 .. q /\ j \in 1 .. j
      BY ONLY <2>7, <2>11
    <3>2. f[j].t + slots <= f[p].t /\ f[j].t = g[j].t
      BY ONLY <3>1, <2>7, <2>8, <2>10
    <3>3. f[j].t \in Nat /\ f[p].t \in Nat /\ bars'[n + 1].t \in Nat
      <4>1. n + 1 \in 1 .. n + 1
        BY ONLY <2>4
      <4> QED BY ONLY <4>1, <3>1, <2>7, <2>10, <2>5 DEF Timed, Longer
    <3>4. g[j].t + slots <= bars'[n + 1].t
      BY ONLY <3>2, <3>3, <2>6, <2>7
    <3> QED BY ONLY <3>1, <3>4, <2>7
  <2>12. Alike(f, p, g, q, p) /\ Alike(g, q, f, p, p)
    <3>1. \A j \in 1 .. p - 1 : f[j] = g[j] /\ g[j] = f[j]
      BY ONLY <2>11
    <3>2. f[p].t = g[p].t
      BY ONLY <2>7, <2>10
    <3> QED BY ONLY <3>1, <3>2, <2>7, <2>10 DEF Alike
  <2>13. ASSUME NEW t \in Nat, t + config.decision <= f[p].t
         PROVE  Features(bars, config, t) = Features(bars', config, t)
    <3>1. f[p].t \in Nat /\ bars'[n + 1].t \in Nat /\ t + config.decision \in Nat
      <4>1. n + 1 \in 1 .. n + 1
        BY ONLY <2>4
      <4>2. f[p].t \in Nat /\ bars'[n + 1].t \in Nat
        BY ONLY <4>1, <2>7, <2>10, <2>5 DEF Timed, Longer
      <4> QED BY ONLY <4>2, <2>6, t \in Nat DEF slots
    <3>2. t + config.decision <= bars'[n + 1].t
      BY ONLY <3>1, <2>7, <2>13
    <3> QED BY ONLY <3>2, <2>1, <2>5, t \in Nat, FeaturesKept
  <2>14. Now(bars, config) = f[p].t /\ Now(bars', config) = g[q].t
    <3>1. Len(f) = p /\ Len(g) = q
      BY ONLY <2>7, FrameLength DEF Timed
    <3> QED BY ONLY <3>1, <2>9 DEF Now, Last
  <2>15. f[p].t <= g[q].t /\ f[p].t \in Nat /\ g[q].t \in Nat /\ g[p].t = f[p].t
    <3>1. f[p].t = g[p].t /\ g[p].t \in Nat /\ g[q].t \in Nat /\ (p < q => g[p].t < g[q].t)
      BY ONLY <2>7, <2>10 DEF Timed
    <3>2. p = q \/ p < q
      BY ONLY <2>7
    <3> QED BY ONLY <3>1, <3>2
  <2>16. ASSUME NEW r \in rows, r.t1 < f[p].t
         PROVE  \E s \in rows' : SaysTheSame(r, s)
    <3>1. \A t \in Nat : t + config.decision <= f[p].t =>
             Features(bars, config, t) = Features(bars', config, t)
      BY ONLY <2>13
    <3> QED BY ONLY <3>1, <2>1, <2>2, <2>9, <2>12, <2>16, RowsAlike
  <2>17. ASSUME NEW r \in rows', r.t1 < f[p].t
         PROVE  \E s \in rows : SaysTheSame(r, s)
    <3>1. \A t \in Nat : t + config.decision <= g[p].t =>
             Features(bars', config, t) = Features(bars, config, t)
      BY ONLY <2>13, <2>15
    <3>2. r.t1 < g[p].t
      BY ONLY <2>15, <2>17
    <3> QED BY ONLY <3>1, <3>2, <2>1, <2>2, <2>9, <2>12, RowsAlike
  <2>18. ASSUME NEW R, NEW z, NEW e
         PROVE  e \in Settled(R, z) <=>
                  \E r \in R : r.t1 < z /\ e = <<r.t0, r.t1, r.long, r.barrier, r.size, r.features>>
    BY DEF Settled
  <2>19. ASSUME NEW r, NEW s, SaysTheSame(r, s)
         PROVE  <<r.t0, r.t1, r.long, r.barrier, r.size, r.features>>
                  = <<s.t0, s.t1, s.long, s.barrier, s.size, s.features>>
    BY ONLY <2>19 DEF SaysTheSame
  <2>20. /\ \A r \in rows : r.t1 \in Nat
         /\ \A r \in rows' : r.t1 \in Nat
    <3>1. \A r \in Dataset(bars, config) : r.t1 \in Nat
      BY ONLY <2>1, RowsEnd
    <3>2. \A r \in Dataset(bars', config) : r.t1 \in Nat
      BY ONLY <2>1, <2>2, RowsEnd
    <3> QED BY ONLY <3>1, <3>2, <2>1, <2>2
  <2>21. ASSUME NEW e \in was PROVE e \in is
    <3>1. PICK r \in rows : r.t1 < f[p].t /\ e = <<r.t0, r.t1, r.long, r.barrier, r.size, r.features>>
      BY ONLY <2>14, <2>18, <2>21
    <3>2. PICK s \in rows' : SaysTheSame(r, s)
      BY ONLY <3>1, <2>16
    <3>3. e = <<s.t0, s.t1, s.long, s.barrier, s.size, s.features>>
      BY ONLY <3>1, <3>2, <2>19
    <3>4. s.t1 < g[q].t
      <4>1. s.t1 = r.t1
        BY ONLY <3>2 DEF SaysTheSame
      <4> QED BY ONLY <4>1, <3>1, <2>15, <2>20
    <3> QED BY ONLY <3>3, <3>4, <2>14, <2>18
  <2>22. ASSUME NEW e \in is, e \notin was PROVE e[2] >= Now(bars, config)
    <3>1. PICK r \in rows' : e = <<r.t0, r.t1, r.long, r.barrier, r.size, r.features>>
      BY ONLY <2>14, <2>18, <2>22
    <3>2. e[2] = r.t1
      BY ONLY <3>1
    <3>3. ~ (r.t1 < f[p].t)
      <4>1. SUFFICES ASSUME r.t1 < f[p].t PROVE FALSE
        OBVIOUS
      <4>2. PICK s \in rows : SaysTheSame(r, s)
        BY <4>1, <2>17
      <4>3. e = <<s.t0, s.t1, s.long, s.barrier, s.size, s.features>>
        BY ONLY <3>1, <4>2, <2>19
      <4>4. s.t1 < f[p].t
        <5>1. s.t1 = r.t1
          BY ONLY <4>2 DEF SaysTheSame
        <5> QED BY <5>1, <4>1
      <4> QED BY ONLY <4>3, <4>4, <2>14, <2>18, <2>22
    <3> QED BY ONLY <3>2, <3>3, <2>14, <2>15, <2>20
  <2> QED BY ONLY <2>21, <2>22
<1> HIDE DEF was, is
<1>2. RowsInv /\ RowsInv' /\ [RowsNext]_rowVars =>
        [was \subseteq is /\ \A r \in is \ was : r[2] >= Now(bars, config)]_rowVars
  BY <1>1 DEF RowsNext
<1>3. RowsInv /\ RowsInv' /\ [RowsNext]_rowVars =>
        [LET old == Settled(rows, Now(bars, config))
             new == Settled(rows', Now(bars', config))
         IN  old \subseteq new /\ \A r \in new \ old : r[2] >= Now(bars, config)]_rowVars
  BY ONLY <1>2 DEF was, is
<1> QED BY <1>3, RowsInvariance, PTL DEF RowsSpec, PastIsFixed

------------------------------------------------------------------------------
(* The synthetic clock.  A symbol has a bar a day, so between two of its    *)
(* events lie no fewer days than events; and the symbols are laid one after *)
(* the other, each behind the last label of those before it.                *)

\* A bar is judged by those kept before it; a symbol is laid behind those before it.
Admitted(raw, before, k) ==
    LET jumps == before # {} /\ Jumps(raw[k], raw[Max(before)].close)
    IN  before \cup {i \in {k} : ~ IsBroken(raw[k]) /\ ~ jumps}
EndOf(events) == Max({events[n].s1 : n \in DOMAIN events})
EpochAfter(events) == IF events = << >> THEN 0 ELSE EndOf(events) + PoolGap
Behind(which, before, k) ==
    IF Universe[k] \notin DOMAIN usable THEN before
    ELSE before \o PooledSymbol(Universe[k], which, EpochAfter(before))

\* A turn of the filter over its bars, or of the pool over the symbols.
Origin(of) == IF of = "bars" THEN {} ELSE << >>
Turn(of, data, before, k) ==
    IF of = "bars" THEN Admitted(data, before, k) ELSE Behind(data, before, k)
Stage(of, data, turns, k) ==
    IF k = 0 THEN Origin(of) ELSE Turn(of, data, turns[k - 1], k)
IsCourse(of, data, turns, m) == turns = [k \in 0 .. m |-> Stage(of, data, turns, k)]

\* Either gets through everything it is given.
LEMMA CourseExists ==
    ASSUME NEW of, NEW data, NEW n \in Nat
    PROVE  \E turns : IsCourse(of, data, turns, n)
<1> DEFINE Without == {m \in 0 .. n : ~ \E turns : IsCourse(of, data, turns, m)}
<1>1. SUFFICES ASSUME Without # {} PROVE FALSE
  BY n \in 0 .. n
<1>2. IsFiniteSet(Without) /\ Without \in SUBSET Int
  <2>1. IsFiniteSet(0 .. n)
    BY FS_Interval
  <2>2. Without \in SUBSET (0 .. n) /\ Without \in SUBSET Int
    OBVIOUS
  <2> HIDE DEF Without
  <2> QED BY <2>1, <2>2, FS_Subset
<1>3. PICK m \in Without : \A y \in Without : m <= y
  <2> HIDE DEF Without
  <2> QED BY <1>1, <1>2, LeastElement
<1>4. m \in 0 .. n /\ m \in Nat /\ ~ \E turns : IsCourse(of, data, turns, m)
  OBVIOUS
<1>5. m # 0
  <2> DEFINE alone == [k \in 0 .. 0 |-> Origin(of)]
  <2>1. \A k \in 0 .. 0 : Stage(of, data, alone, k) = Origin(of)
    BY DEF Stage
  <2>2. IsCourse(of, data, alone, 0)
    BY <2>1 DEF IsCourse
  <2> QED BY <2>2, <1>4
<1>6. m - 1 \in 0 .. n /\ ~ (m <= m - 1) /\ m - 1 \in Nat
  BY <1>4, <1>5
<1>7. PICK old : IsCourse(of, data, old, m - 1)
  <2>1. m - 1 \notin Without
    BY <1>3, <1>6
  <2> QED BY <2>1, <1>6
<1> HIDE DEF Without
<1> DEFINE turns == [k \in 0 .. m |-> IF k = m THEN Stage(of, data, old, k) ELSE old[k]]
<1>8. ASSUME NEW k \in 0 .. m PROVE turns[k] = Stage(of, data, turns, k)
  <2>1. k # 0 => k - 1 \in 0 .. m /\ k - 1 # m
    BY <1>4
  <2>2. k # 0 => turns[k - 1] = old[k - 1]
    BY <2>1
  <2>3. Stage(of, data, turns, k) = Stage(of, data, old, k)
    BY <2>2 DEF Stage
  <2>4. k # m => k \in 0 .. m - 1
    BY <1>4
  <2>5. k # m => old[k] = Stage(of, data, old, k)
    BY <2>4, <1>7 DEF IsCourse
  <2> QED BY <2>3, <2>5
<1>9. turns = [k \in 0 .. m |-> turns[k]]
  OBVIOUS
<1> HIDE DEF turns
<1>10. IsCourse(of, data, turns, m)
  BY <1>8, <1>9 DEF IsCourse
<1> QED BY <1>4, <1>10

\* The filter keeps what its last turn holds.
LEMMA FilteredBy ==
    ASSUME NEW raw, Len(raw) \in Nat
    PROVE  \E turns : /\ IsCourse("bars", raw, turns, Len(raw))
                      /\ Filtered(raw) = Pick(raw, turns[Len(raw)])
<1> DEFINE n == Len(raw)
           kept == CHOOSE turns : turns = [k \in 0 .. n |->
                       IF k = 0 THEN {} ELSE Admitted(raw, turns[k - 1], k)]
<1>1. Filtered(raw) = Pick(raw, kept[n])
  BY DEF Filtered, Admitted
<1>2. \A turns : [k \in 0 .. n |-> IF k = 0 THEN {} ELSE Admitted(raw, turns[k - 1], k)]
                   = [k \in 0 .. n |-> Stage("bars", raw, turns, k)]
  BY DEF Stage, Origin, Turn
<1>3. \E turns : turns = [k \in 0 .. n |-> IF k = 0 THEN {} ELSE Admitted(raw, turns[k - 1], k)]
  <2>1. PICK turns : IsCourse("bars", raw, turns, n)
    BY CourseExists
  <2> QED BY <2>1, <1>2 DEF IsCourse
<1>4. kept = [k \in 0 .. n |-> IF k = 0 THEN {} ELSE Admitted(raw, kept[k - 1], k)]
  BY <1>3
<1> HIDE DEF kept
<1>5. IsCourse("bars", raw, kept, n)
  BY <1>2, <1>4 DEF IsCourse
<1> QED BY <1>1, <1>5

\* The pool is what its last turn has laid.
LEMMA PooledBy ==
    ASSUME NEW which, Len(Universe) \in Nat
    PROVE  \E turns : /\ IsCourse("symbols", which, turns, Len(Universe))
                      /\ Pooled(which) = turns[Len(Universe)]
<1> DEFINE n == Len(Universe)
           laid == CHOOSE turns : turns = [k \in 0 .. n |->
                       IF k = 0 THEN << >> ELSE Behind(which, turns[k - 1], k)]
<1>1. Pooled(which) = laid[n]
  BY DEF Pooled, Behind, EpochAfter, EndOf
<1>2. \A turns : [k \in 0 .. n |-> IF k = 0 THEN << >> ELSE Behind(which, turns[k - 1], k)]
                   = [k \in 0 .. n |-> Stage("symbols", which, turns, k)]
  BY DEF Stage, Origin, Turn
<1>3. \E turns : turns = [k \in 0 .. n |-> IF k = 0 THEN << >> ELSE Behind(which, turns[k - 1], k)]
  <2>1. PICK turns : IsCourse("symbols", which, turns, n)
    BY CourseExists
  <2> QED BY <2>1, <1>2 DEF IsCourse
<1>4. laid = [k \in 0 .. n |-> IF k = 0 THEN << >> ELSE Behind(which, laid[k - 1], k)]
  BY <1>3
<1> HIDE DEF laid
<1>5. IsCourse("symbols", which, laid, n)
  BY <1>2, <1>4 DEF IsCourse
<1> QED BY <1>1, <1>5
------------------------------------------------------------------------------
\* What is kept are positions of bars that have been looked at.
LEMMA KeptAreBars ==
    ASSUME NEW raw, NEW turns, NEW n \in Nat, IsCourse("bars", raw, turns, n)
    PROVE  \A k \in 0 .. n : turns[k] \subseteq 1 .. k
<1> DEFINE Odd == {k \in 0 .. n : ~ (turns[k] \subseteq 1 .. k)}
<1>1. SUFFICES ASSUME Odd # {} PROVE FALSE
  OBVIOUS
<1>2. IsFiniteSet(Odd) /\ Odd \in SUBSET Int
  <2>1. IsFiniteSet(0 .. n)
    BY FS_Interval
  <2>2. Odd \in SUBSET (0 .. n) /\ Odd \in SUBSET Int
    OBVIOUS
  <2> HIDE DEF Odd
  <2> QED BY <2>1, <2>2, FS_Subset
<1>3. PICK m \in Odd : \A y \in Odd : m <= y
  <2> HIDE DEF Odd
  <2> QED BY <1>1, <1>2, LeastElement
<1>4. m \in 0 .. n /\ m \in Nat /\ ~ (turns[m] \subseteq 1 .. m)
  OBVIOUS
<1>5. \A k \in 0 .. n : turns[k] = Stage("bars", raw, turns, k)
  <2>1. turns = [k \in 0 .. n |-> Stage("bars", raw, turns, k)]
    BY DEF IsCourse
  <2> QED BY <2>1
<1>6. m # 0
  BY <1>4, <1>5 DEF Stage, Origin
<1>7. m - 1 \in 0 .. n /\ ~ (m <= m - 1)
  BY <1>4, <1>6
<1>8. turns[m - 1] \subseteq 1 .. m - 1
  BY <1>3, <1>7
<1>9. turns[m] \subseteq turns[m - 1] \cup {m}
  BY <1>4, <1>5, <1>6 DEF Stage, Turn, Admitted
<1>10. 1 .. m - 1 \subseteq 1 .. m /\ m \in 1 .. m
  BY <1>4, <1>6
<1> QED BY <1>4, <1>8, <1>9, <1>10

\* Bars picked from bars in the order of time are in that order.
LEMMA PickedInTime ==
    ASSUME NEW raw, NEW n, Timed(raw, n), NEW S \in SUBSET (1 .. n)
    PROVE  Timed(Pick(raw, S), Cardinality(S))
<1> DEFINE size == Cardinality(S)
           order == Ascending(S)
           picked == Pick(raw, S)
<1>1. n \in Nat
  BY DEF Timed, IsFrame
<1>2. S \in SUBSET Int /\ IsFiniteSet(S)
  <2>1. IsFiniteSet(1 .. n)
    BY <1>1, FS_Interval
  <2>2. S \in SUBSET Int
    OBVIOUS
  <2> QED BY <2>1, <2>2, FS_Subset
<1>3. /\ size \in Nat /\ DOMAIN order = 1 .. size
      /\ \A k \in 1 .. size : order[k] \in 1 .. n
  BY <1>2, AscendingOrder
<1>4. \A j, k \in 1 .. size : j < k => order[j] < order[k]
  BY <1>2, AscendingGrows
<1>5. picked = [k \in 1 .. size |-> raw[order[k]]]
  BY <1>3 DEF Pick
<1>6. picked = [k \in 1 .. size |-> picked[k]] /\ \A k \in 1 .. size : picked[k] = raw[order[k]]
  BY <1>5
<1> HIDE DEF picked, order, size
<1>7. IsFrame(picked, size)
  BY <1>3, <1>6 DEF IsFrame
<1>8. \A k \in 1 .. size : picked[k].t \in Nat
  BY <1>3, <1>6 DEF Timed
<1>9. \A j, k \in 1 .. size : j < k => picked[j].t < picked[k].t
  BY <1>3, <1>4, <1>6 DEF Timed
<1>10. Timed(picked, size)
  BY <1>7, <1>8, <1>9 DEF Timed
<1> QED BY <1>10 DEF picked, size

\* The bars of a source are in the order of time.
LEMMA SourceInTime ==
    ASSUME NEW raw, InTime(raw)
    PROVE  Len(raw) \in Nat /\ Timed(raw, Len(raw))
<1>1. raw \in Seq(RawBar)
  BY DEF InTime
<1>2. /\ Len(raw) \in Nat /\ DOMAIN raw = 1 .. Len(raw)
      /\ \A k \in 1 .. Len(raw) : raw[k] \in RawBar
      /\ raw = [k \in 1 .. Len(raw) |-> raw[k]]
  BY <1>1
<1>3. \A k \in 1 .. Len(raw) : raw[k].t \in Nat
  BY <1>2 DEF RawBar
<1>4. \A i, j \in 1 .. Len(raw) : i < j => raw[i].t < raw[j].t
  BY <1>2 DEF InTime
<1>5. IsFrame(raw, Len(raw))
  BY <1>2 DEF IsFrame
<1> QED BY <1>2, <1>3, <1>4, <1>5 DEF Timed

\* A day's slots later it is another day.
LEMMA NextDayIsLater ==
    ASSUME NEW slots \in Nat \ {0}, NEW t \in Nat
    PROVE  t \div slots < (t + slots) \div slots
<1> DEFINE q == t \div slots
           r == (t + slots) \div slots
<1>1. /\ q \in Nat /\ slots * q \in Nat /\ slots * q <= t
      /\ r \in Nat /\ slots * r \in Nat /\ t + slots < slots * r + slots
  <2>1. t + slots \in Nat
    OBVIOUS
  <2> QED BY <2>1, Division
<1> HIDE DEF q, r
<1>2. SUFFICES ASSUME r <= q PROVE FALSE
  BY <1>1 DEF q, r
<1>3. r * slots <= q * slots /\ r * slots = slots * r /\ q * slots = slots * q
  BY <1>1, <1>2, TimesGrows
<1> QED BY <1>1, <1>3

\* A frame with a bar a day.
OneADay(f, n) ==
    /\ Timed(f, n)
    /\ \A i, j \in 1 .. n : i < j => Day(f[i].t) < Day(f[j].t)

\* Either arm has a bar a day.
LEMMA LoadedIsDaily ==
    ASSUME source \in Sources, NEW feed \in {"validated", "yfinance"}, NEW s \in Range(Universe)
    PROVE  \E n : OneADay(Loaded(feed, s), n)
<1>1. /\ InTime(source["validated"][s]) /\ InTime(source["yfinance"][s])
      /\ \A i, j \in DOMAIN source["yfinance"][s] :
           i < j => Day(source["yfinance"][s][i].t) < Day(source["yfinance"][s][j].t)
  BY PipelineAssumption
<1>2. CASE feed = "validated"
  <2> DEFINE raw == source["validated"][s]
             clean == Filtered(raw)
             frame == Resample(clean, DaySlots)
  <2>1. Loaded(feed, s) = frame
    BY <1>2 DEF Loaded
  <2>2. Len(raw) \in Nat /\ Timed(raw, Len(raw))
    BY <1>1, SourceInTime
  <2>3. \E n : Timed(clean, n)
    <3>1. PICK turns : /\ IsCourse("bars", raw, turns, Len(raw))
                       /\ Filtered(raw) = Pick(raw, turns[Len(raw)])
      BY <2>2, FilteredBy
    <3>2. turns[Len(raw)] \subseteq 1 .. Len(raw)
      BY <2>2, <3>1, KeptAreBars
    <3> HIDE DEF raw
    <3> QED BY <2>2, <3>1, <3>2, PickedInTime
  <2>4. PICK n : Timed(clean, n)
    BY <2>3
  <2> HIDE DEF clean
  <2> DEFINE size == Cardinality(Opens(clean, DaySlots))
  <2>5. DaySlots \in Nat \ {0}
    BY FeatureAssumption
  <2>6. Timed(frame, size)
    BY <2>4, <2>5, FrameFacts
  <2>7. ASSUME NEW i \in 1 .. size, NEW j \in 1 .. size, i < j
        PROVE  Day(frame[i].t) < Day(frame[j].t)
    <3>1. frame[i].t + DaySlots <= frame[j].t
      BY <2>4, <2>5, <2>7, FrameSpacing
    <3>2. frame[i].t \in Nat /\ frame[j].t \in Nat
      BY <2>6 DEF Timed
    <3> HIDE DEF frame
    <3>3. frame[i].t + DaySlots \in Nat
      BY <2>5, <3>2
    <3>4. (frame[i].t + DaySlots) \div DaySlots <= frame[j].t \div DaySlots
      BY <2>5, <3>1, <3>2, <3>3, Division
    <3>5. /\ frame[i].t \div DaySlots \in Nat /\ frame[j].t \div DaySlots \in Nat
          /\ (frame[i].t + DaySlots) \div DaySlots \in Nat
      BY <2>5, <3>2, <3>3, Division
    <3>6. frame[i].t \div DaySlots < (frame[i].t + DaySlots) \div DaySlots
      BY <2>5, <3>2, NextDayIsLater
    <3> QED BY ONLY <3>4, <3>5, <3>6 DEF Day
  <2> HIDE DEF frame, size
  <2> QED BY <2>1, <2>6, <2>7 DEF OneADay
<1>3. CASE feed = "yfinance"
  <2> DEFINE raw == source["yfinance"][s]
  <2>1. Loaded(feed, s) = raw
    BY <1>3 DEF Loaded
  <2>2. Len(raw) \in Nat /\ Timed(raw, Len(raw))
    BY <1>1, SourceInTime
  <2>3. DOMAIN raw = 1 .. Len(raw)
    BY <2>2, FrameLength DEF Timed
  <2>4. \A i, j \in 1 .. Len(raw) : i < j => Day(raw[i].t) < Day(raw[j].t)
    BY <1>1, <2>3
  <2> HIDE DEF raw
  <2> QED BY <2>1, <2>2, <2>4 DEF OneADay
<1> QED BY <1>2, <1>3
------------------------------------------------------------------------------
\* A bet is about two bars of its frame as well.
LEMMA BetsAreBars ==
    ASSUME NEW f, NEW n, Timed(f, n), NEW mode \in {"mis", "cnc"}, NEW side,
           NEW k \in CusumEvents(f), ~ IsSkipped(f, k, mode)
    PROVE  /\ MetaLabel(f, k, side, mode).at \in 1 .. n
           /\ MetaLabel(f, k, side, mode).exit \in 1 .. n
<1> DEFINE v == VerticalPosition(f, k, mode)
           touch == IF side > 0 THEN FirstTouch(f, k, v, Upper, Lower, StopIsLow(side))
                    ELSE FirstTouch(f, k, v, Lower, Upper, StopIsLow(side))
           gained == side * (f[v].close - f[k].close)
           pays == (touch.touched = "high") = (side > 0)
<1>1. IsFrame(f, n) /\ n \in Nat
  BY DEF Timed, IsFrame
<1>2. k \in 1 .. n /\ k \in Int
  BY <1>1, EventsAreBars
<1>3. v \in 1 .. n /\ v \in Int
  <2>1. ~ (v <= k)
    BY DEF IsSkipped
  <2>2. v \in 1 .. n
    BY ONLY <2>1, <1>2, Timed(f, n), mode \in {"mis", "cnc"}, VerticalFacts
  <2> HIDE DEF v
  <2> QED BY <2>2, <1>1
<1>4. MetaLabel(f, k, side, mode)
        = IF touch.touched = "vertical"
            THEN [at |-> k, exit |-> v, side |-> side, barrier |-> "vertical",
                  label |-> IF gained > 0 THEN 1 ELSE 0]
            ELSE [at |-> k, exit |-> touch.at, side |-> side,
                  barrier |-> IF pays THEN "profit" ELSE "stop",
                  label |-> IF pays THEN 1 ELSE 0]
  BY DEF MetaLabel
<1> HIDE DEF v, gained, pays
<1>5. \E tie, up, down : tie \in BOOLEAN /\ touch = FirstTouch(f, k, v, up, down, tie)
  <2>1. StopIsLow(side) \in BOOLEAN
    BY DEF StopIsLow
  <2> DEFINE low == StopIsLow(side)
  <2> HIDE DEF low
  <2>2. low \in BOOLEAN
    BY <2>1 DEF low
  <2>3. touch = IF side > 0 THEN FirstTouch(f, k, v, Upper, Lower, low)
                ELSE FirstTouch(f, k, v, Lower, Upper, low)
    BY DEF low
  <2> HIDE DEF touch
  <2> QED BY <2>2, <2>3
<1> HIDE DEF touch
<1>6. /\ touch.touched \in {"vertical", "high", "low"}
      /\ touch.touched # "vertical" => touch.at \in (k + 1) .. v
  <2>1. PICK tie, up, down : tie \in BOOLEAN /\ touch = FirstTouch(f, k, v, up, down, tie)
    BY <1>5
  <2> QED BY ONLY <2>1, <1>2, <1>3, FirstTouchFacts
<1>7. touch.touched # "vertical" => touch.at \in 1 .. n
  BY ONLY <1>1, <1>2, <1>3, <1>6
<1> QED BY ONLY <1>2, <1>3, <1>4, <1>7

\* What the script keeps of a symbol: a frame with a bar a day, and events and exits
\* on its bars.
IsSymbolRow(r) ==
    /\ {"frame", "direct", "meta"} \subseteq DOMAIN r
    /\ \E n : /\ OneADay(r["frame"], n)
              /\ \A which \in {"direct", "meta"} : \A l \in r[which] :
                    l.at \in 1 .. n /\ l.exit \in 1 .. n

\* build_symbol_rows makes such a row of a frame with a bar a day.
LEMMA SymbolRowsAreOfBars ==
    ASSUME NEW f, NEW n, OneADay(f, n)
    PROVE  IsSymbolRow(SymbolRows(f))
<1> DEFINE r == SymbolRows(f)
<1>1. r = [frame |-> f, features |-> FeatureMatrix(f),
           direct |-> Labels(f, "cnc"), meta |-> MetaLabels(f, "cnc")]
  BY DEF SymbolRows
<1> HIDE DEF r
<1>2. /\ {"frame", "direct", "meta"} \subseteq DOMAIN r
      /\ r["frame"] = f /\ r["direct"] = Labels(f, "cnc") /\ r["meta"] = MetaLabels(f, "cnc")
  BY <1>1
<1>3. Timed(f, n)
  BY DEF OneADay
<1>4. ASSUME NEW l \in Labels(f, "cnc") PROVE l.at \in 1 .. n /\ l.exit \in 1 .. n
  <2>1. PICK k \in CusumEvents(f) : ~ IsSkipped(f, k, "cnc") /\ l = TripleBarrier(f, k, "cnc")
    BY DEF Labels
  <2>2. "cnc" \in {"mis", "cnc"}
    OBVIOUS
  <2>3. /\ TripleBarrier(f, k, "cnc").at = k /\ k \in 1 .. n
        /\ TripleBarrier(f, k, "cnc").exit \in 1 .. n
    BY ONLY <1>3, <2>1, <2>2, LabelsAreBars
  <2> QED BY ONLY <2>1, <2>3
<1>5. ASSUME NEW l \in MetaLabels(f, "cnc") PROVE l.at \in 1 .. n /\ l.exit \in 1 .. n
  <2>1. PICK k \in CusumEvents(f) :
           ~ IsSkipped(f, k, "cnc") /\ l = MetaLabel(f, k, MomentumSide(f, k), "cnc")
    BY DEF MetaLabels
  <2> DEFINE side == MomentumSide(f, k)
  <2>2. l = MetaLabel(f, k, side, "cnc") /\ "cnc" \in {"mis", "cnc"}
    BY <2>1
  <2> HIDE DEF side
  <2>3. /\ MetaLabel(f, k, side, "cnc").at \in 1 .. n
        /\ MetaLabel(f, k, side, "cnc").exit \in 1 .. n
    BY ONLY <1>3, <2>1, <2>2, BetsAreBars
  <2> QED BY ONLY <2>2, <2>3
<1> HIDE DEF OneADay
<1>6. \A which \in {"direct", "meta"} : \A l \in r[which] : l.at \in 1 .. n /\ l.exit \in 1 .. n
  BY <1>2, <1>4, <1>5
<1>7. IsSymbolRow(r)
  BY <1>2, <1>6 DEF IsSymbolRow
<1> QED BY <1>7 DEF r

\* Numbers that grow from place to place grow by one a place at least.
LEMMA GrowByOne ==
    ASSUME NEW g, NEW m \in Nat, \A i \in 1 .. m : g[i] \in Int,
           \A i, j \in 1 .. m : i < j => g[i] < g[j]
    PROVE  \A i, j \in 1 .. m : i <= j => j - i <= g[j] - g[i]
<1> SUFFICES ASSUME NEW i \in 1 .. m
             PROVE  \A j \in 1 .. m : i <= j => j - i <= g[j] - g[i]
  OBVIOUS
<1> DEFINE Odd == {j \in 1 .. m : i <= j /\ ~ (j - i <= g[j] - g[i])}
<1>1. SUFFICES ASSUME Odd # {} PROVE FALSE
  OBVIOUS
<1>2. IsFiniteSet(Odd) /\ Odd \in SUBSET Int
  <2>1. IsFiniteSet(1 .. m)
    BY FS_Interval
  <2>2. Odd \in SUBSET (1 .. m) /\ Odd \in SUBSET Int
    OBVIOUS
  <2> HIDE DEF Odd
  <2> QED BY <2>1, <2>2, FS_Subset
<1>3. PICK j \in Odd : \A y \in Odd : j <= y
  <2> HIDE DEF Odd
  <2> QED BY <1>1, <1>2, LeastElement
<1>4. j \in 1 .. m /\ i <= j /\ ~ (j - i <= g[j] - g[i])
  OBVIOUS
<1>5. g[i] \in Int /\ g[j] \in Int /\ i \in Int /\ j \in Int
  BY <1>4
<1>6. j # i
  BY <1>4, <1>5
<1>7. j - 1 \in 1 .. m /\ i <= j - 1 /\ ~ (j <= j - 1) /\ j - 1 < j
  BY <1>4, <1>5, <1>6
<1>8. j - 1 - i <= g[j - 1] - g[i]
  BY <1>3, <1>7
<1>9. g[j - 1] < g[j] /\ g[j - 1] \in Int
  BY <1>4, <1>7
<1> QED BY ONLY <1>4, <1>5, <1>8, <1>9
\* The events of a symbol stand in the order of its bars.
LEMMA PoolableFacts ==
    ASSUME NEW s, IsSymbolRow(usable[s]), NEW which \in {"direct", "meta"},
           NEW events, events = PoolableEvents(s, which),
           NEW frame, frame = usable[s].frame
    PROVE  \E n, m : /\ OneADay(frame, n) /\ IsFrame(events, m)
                     /\ \A i \in 1 .. m : events[i].at \in 1 .. n /\ events[i].exit \in 1 .. n
                     /\ \A i, j \in 1 .. m : i < j => events[i].at < events[j].at
<1> DEFINE valid == {l \in usable[s][which] : IsComplete(usable[s].features[l.at])}
           P == {l.at : l \in valid}
           At(k) == {l \in valid : l.at = k}
           order == Ascending(P)
           m == Cardinality(P)
<1>1. PICK n : /\ OneADay(frame, n)
               /\ \A l \in usable[s][which] : l.at \in 1 .. n /\ l.exit \in 1 .. n
  BY DEF IsSymbolRow
<1>2. n \in Nat
  BY <1>1 DEF OneADay, Timed, IsFrame
<1>3. P \in SUBSET (1 .. n)
  BY <1>1
<1>4. \A k \in P : \E l \in valid : l.at = k
  OBVIOUS
<1>5. \A l \in valid : l.at \in 1 .. n /\ l.exit \in 1 .. n
  BY <1>1
<1>6. events = [k \in DOMAIN order |-> CHOOSE l \in At(order[k]) : TRUE]
  BY DEF PoolableEvents
<1> HIDE DEF P, valid
<1>7. P \in SUBSET Int /\ IsFiniteSet(P)
  <2>1. IsFiniteSet(1 .. n)
    BY <1>2, FS_Interval
  <2>2. P \in SUBSET Int
    BY <1>3
  <2> QED BY <2>1, <2>2, <1>3, FS_Subset
<1>8. /\ m \in Nat /\ DOMAIN order = 1 .. m
      /\ \A k \in 1 .. m : order[k] \in P
  BY <1>7, AscendingOrder
<1>9. \A i, j \in 1 .. m : i < j => order[i] < order[j]
  BY <1>7, AscendingGrows
<1> HIDE DEF m, order
<1>10. events = [k \in 1 .. m |-> CHOOSE l \in At(order[k]) : TRUE]
  BY <1>6, <1>8
<1>11. ASSUME NEW k \in 1 .. m
       PROVE  /\ events[k].at = order[k] /\ events[k].at \in 1 .. n
              /\ events[k].exit \in 1 .. n
  <2>1. \E l : l \in At(order[k])
    BY <1>4, <1>8
  <2>2. events[k] \in At(order[k])
    BY <2>1, <1>10
  <2> QED BY <2>2, <1>5
<1>12. IsFrame(events, m)
  <2>1. events = [k \in 1 .. m |-> events[k]]
    BY <1>10
  <2> QED BY <2>1, <1>8 DEF IsFrame
<1>13. \A i, j \in 1 .. m : i < j => events[i].at < events[j].at
  BY <1>9, <1>11
<1> QED BY <1>1, <1>11, <1>12, <1>13

\* A label lasts a day at least, and as many as lie between its bars.
LEMMA HoldFacts ==
    ASSUME NEW f, NEW l, Day(f[l.exit].t) \in Int, Day(f[l.at].t) \in Int
    PROVE  /\ HoldDays(f, l) \in Int /\ 1 <= HoldDays(f, l)
           /\ Day(f[l.exit].t) - Day(f[l.at].t) <= HoldDays(f, l)
<1> DEFINE d == Day(f[l.exit].t) - Day(f[l.at].t)
           both == {1, d}
<1>1. d \in Int
  OBVIOUS
<1>2. HoldDays(f, l) = Max(both)
  BY DEF HoldDays
<1> HIDE DEF d
<1>3. both \in SUBSET Int /\ both # {} /\ 1 \in both /\ d \in both
  BY <1>1
<1>4. IsFiniteSet(both)
  <2>1. IsFiniteSet({1}) /\ both = {1} \cup {d}
    BY FS_Singleton
  <2> QED BY <2>1, FS_AddElement
<1> HIDE DEF both
<1>5. Max(both) \in Int /\ 1 <= Max(both) /\ d <= Max(both)
  BY <1>3, <1>4, Extremes
<1> QED BY <1>2, <1>5 DEF d

\* Events on the clock, as the property wants them.
Spaced(p, m) ==
    /\ IsFrame(p, m)
    /\ \A i \in 1 .. m : p[i].s0 \in Int /\ p[i].s1 \in Int /\ p[i].s0 <= p[i].s1
    /\ \A i, j \in 1 .. m : i < j =>
         /\ p[i].s0 < p[j].s0
         /\ p[i].symbol = p[j].symbol /\ p[j].t0 <= p[i].t1 => p[j].s0 <= p[i].s1
         /\ p[i].symbol # p[j].symbol => p[i].s1 < p[j].s0

\* So are those of one symbol, from its epoch on.
LEMMA SymbolIsSpaced ==
    ASSUME NEW s, IsSymbolRow(usable[s]), NEW which \in {"direct", "meta"}, NEW epoch \in Int,
           NEW p, p = PooledSymbol(s, which, epoch)
    PROVE  \E m : Spaced(p, m) /\ \A i \in 1 .. m : p[i].symbol = s /\ epoch <= p[i].s0
<1> DEFINE events == PoolableEvents(s, which)
           frame == usable[s].frame
           from(i) == Day(frame[events[i].at].t)
           to(i) == Day(frame[events[i].exit].t)
<1>1. PICK n, m : /\ OneADay(frame, n) /\ IsFrame(events, m)
                  /\ \A i \in 1 .. m : events[i].at \in 1 .. n /\ events[i].exit \in 1 .. n
                  /\ \A i, j \in 1 .. m : i < j => events[i].at < events[j].at
  BY PoolableFacts
<1>2. m \in Nat /\ DOMAIN events = 1 .. m
  BY <1>1, FrameLength DEF IsFrame
<1>3. p = [i \in DOMAIN events |->
              [symbol |-> s, t0 |-> frame[events[i].at].t, t1 |-> frame[events[i].exit].t,
               s0 |-> epoch + i - 1, s1 |-> epoch + i - 1 + HoldDays(frame, events[i]),
               label |-> events[i].label]]
  BY DEF PooledSymbol
<1> HIDE DEF events, frame
<1>4. p = [i \in 1 .. m |->
              [symbol |-> s, t0 |-> frame[events[i].at].t, t1 |-> frame[events[i].exit].t,
               s0 |-> epoch + i - 1, s1 |-> epoch + i - 1 + HoldDays(frame, events[i]),
               label |-> events[i].label]]
  BY <1>2, <1>3
<1>5. \A i \in 1 .. m : /\ p[i].symbol = s /\ p[i].t0 = frame[events[i].at].t
                        /\ p[i].t1 = frame[events[i].exit].t /\ p[i].s0 = epoch + i - 1
                        /\ p[i].s1 = epoch + i - 1 + HoldDays(frame, events[i])
  BY <1>4
<1>6. IsFrame(p, m)
  <2>1. p = [i \in 1 .. m |-> p[i]]
    BY <1>4
  <2> QED BY <2>1, <1>2 DEF IsFrame
<1>7. \A a \in 1 .. n : frame[a].t \in Nat /\ Day(frame[a].t) \in Nat
  <2>1. \A a \in 1 .. n : frame[a].t \in Nat
    BY <1>1 DEF OneADay, Timed
  <2> QED BY <2>1, FeatureAssumption, Division DEF Day
<1>8. \A i \in 1 .. m : /\ from(i) \in Nat /\ to(i) \in Nat
                        /\ p[i].t0 \in Nat /\ p[i].t1 \in Nat
                        /\ from(i) = Day(p[i].t0) /\ to(i) = Day(p[i].t1)
  BY <1>1, <1>5, <1>7
<1>9. \A i, j \in 1 .. m : i < j => from(i) < from(j)
  BY <1>1 DEF OneADay
<1>10. \A i \in 1 .. m : /\ HoldDays(frame, events[i]) \in Int
                         /\ 1 <= HoldDays(frame, events[i])
                         /\ to(i) - from(i) <= HoldDays(frame, events[i])
  <2> SUFFICES ASSUME NEW i \in 1 .. m
               PROVE  /\ HoldDays(frame, events[i]) \in Int
                      /\ 1 <= HoldDays(frame, events[i])
                      /\ to(i) - from(i) <= HoldDays(frame, events[i])
    OBVIOUS
  <2>1. from(i) \in Int /\ to(i) \in Int
    BY <1>8
  <2> QED BY <2>1, HoldFacts
<1>11. \A i, j \in 1 .. m : i <= j => j - i <= from(j) - from(i)
  <2> DEFINE g == [i \in 1 .. m |-> from(i)]
  <2>1. \A i \in 1 .. m : g[i] = from(i)
    OBVIOUS
  <2> HIDE DEF g, from
  <2>2. \A i \in 1 .. m : g[i] \in Int
    BY <2>1, <1>8
  <2>3. \A i, j \in 1 .. m : i < j => g[i] < g[j]
    BY <2>1, <1>9
  <2>4. \A i, j \in 1 .. m : i <= j => j - i <= g[j] - g[i]
    BY <2>2, <2>3, <1>2, GrowByOne
  <2> QED BY <2>1, <2>4
<1> HIDE DEF from, to
<1>12. ASSUME NEW i \in 1 .. m
       PROVE  /\ p[i].s0 \in Int /\ p[i].s1 \in Int /\ p[i].s0 <= p[i].s1 /\ epoch <= p[i].s0
  <2> DEFINE days == HoldDays(frame, events[i])
  <2>1. days \in Int /\ 1 <= days
    BY <1>10
  <2>2. p[i].s0 = epoch + i - 1 /\ p[i].s1 = epoch + i - 1 + days
    BY <1>5
  <2>3. i \in Int /\ 1 <= i
    BY <1>2
  <2> HIDE DEF days
  <2> QED BY ONLY <2>1, <2>2, <2>3, epoch \in Int
<1>13. ASSUME NEW i \in 1 .. m, NEW j \in 1 .. m, i < j, p[j].t0 <= p[i].t1
       PROVE  p[j].s0 <= p[i].s1
  <2>1. from(j) <= to(i)
    <3>1. Day(p[j].t0) <= Day(p[i].t1)
      BY <1>8, <1>13, FeatureAssumption, Division DEF Day
    <3> QED BY ONLY <3>1, <1>8, i \in 1 .. m, j \in 1 .. m
  <2>2. i \in Int /\ j \in Int /\ i <= j
    BY <1>2, <1>13
  <2>3. j - i <= from(j) - from(i) /\ from(i) \in Int /\ from(j) \in Int /\ to(i) \in Int
    BY <2>2, <1>8, <1>11
  <2> DEFINE days == HoldDays(frame, events[i])
  <2>4. days \in Int /\ to(i) - from(i) <= days
    BY <1>10
  <2>5. p[j].s0 = epoch + j - 1 /\ p[i].s1 = epoch + i - 1 + days
    BY <1>5
  <2> HIDE DEF days
  <2>6. j - i <= days
    BY ONLY <2>1, <2>2, <2>3, <2>4
  <2> QED BY ONLY <2>2, <2>4, <2>5, <2>6, epoch \in Int
<1>14. ASSUME NEW i \in 1 .. m, NEW j \in 1 .. m, i < j PROVE p[i].s0 < p[j].s0
  BY ONLY <1>2, <1>5, <1>14, epoch \in Int
<1>15. \A i, j \in 1 .. m : p[i].symbol = p[j].symbol
  BY <1>5
<1>16. Spaced(p, m)
  BY ONLY <1>6, <1>12, <1>13, <1>14, <1>15 DEF Spaced
<1> QED BY ONLY <1>5, <1>12, <1>16
\* One sequence behind another.
Joined(p, q) == p \o q

\* A joined sequence is the one and then the other.
LEMMA JoinedFrames ==
    ASSUME NEW p, NEW m, IsFrame(p, m), NEW q, NEW r, IsFrame(q, r), NEW z, z = Joined(p, q)
    PROVE  /\ m \in Nat /\ r \in Nat /\ IsFrame(z, m + r)
           /\ \A i \in 1 .. m : z[i] = p[i]
           /\ \A i \in 1 .. m + r : i \notin 1 .. m => i - m \in 1 .. r /\ z[i] = q[i - m]
<1> DEFINE S == {p[i] : i \in 1 .. m} \cup {q[j] : j \in 1 .. r}
<1>1. m \in Nat /\ r \in Nat /\ p = [i \in 1 .. m |-> p[i]] /\ q = [j \in 1 .. r |-> q[j]]
  BY DEF IsFrame
<1>2. (\A i \in 1 .. m : p[i] \in S) /\ (\A j \in 1 .. r : q[j] \in S)
  OBVIOUS
<1> HIDE DEF S
<1>3. p \in [1 .. m -> S] /\ q \in [1 .. r -> S]
  BY <1>1, <1>2
<1>4. p \in Seq(S) /\ q \in Seq(S)
  BY <1>1, <1>3
<1>5. Len(p) = m /\ Len(q) = r
  BY FrameLength
<1>6. z \in Seq(S) /\ Len(z) = Len(p) + Len(q)
  BY ONLY <1>4, z = Joined(p, q) DEF Joined
<1>7. \A i \in 1 .. m + r : z[i] = IF i <= m THEN p[i] ELSE q[i - m]
  <2>1. \A i \in 1 .. Len(p) + Len(q) :
           (p \o q)[i] = IF i <= Len(p) THEN p[i] ELSE q[i - Len(p)]
    BY ONLY <1>4
  <2>2. z = p \o q
    BY DEF Joined
  <2> QED BY ONLY <2>1, <2>2, <1>5
<1>8. \A i \in 1 .. m : i \in 1 .. m + r /\ i <= m
  BY <1>1
<1>9. \A i \in 1 .. m + r : i \notin 1 .. m => i - m \in 1 .. r /\ ~ (i <= m)
  BY <1>1
<1>10. z = [i \in 1 .. m + r |-> z[i]]
  BY ONLY <1>5, <1>6
<1>11. IsFrame(z, m + r)
  <2>1. m + r \in Nat
    BY ONLY <1>1
  <2> QED BY ONLY <2>1, <1>10 DEF IsFrame
<1>12. ASSUME NEW i \in 1 .. m PROVE z[i] = p[i]
  BY ONLY <1>7, <1>8, <1>12
<1>13. ASSUME NEW i \in 1 .. m + r, i \notin 1 .. m PROVE i - m \in 1 .. r /\ z[i] = q[i - m]
  BY ONLY <1>7, <1>9, <1>13
<1> QED BY ONLY <1>1, <1>11, <1>12, <1>13

\* Events laid behind all others, of another symbol.
LEMMA JoinedIsSpaced ==
    ASSUME NEW p, NEW m, Spaced(p, m), NEW q, NEW r, Spaced(q, r),
           \A i \in 1 .. m, j \in 1 .. r : p[i].s1 < q[j].s0 /\ p[i].symbol # q[j].symbol,
           NEW both, both = Joined(p, q)
    PROVE  Spaced(both, m + r)
<1>1. IsFrame(p, m) /\ IsFrame(q, r)
  BY DEF Spaced
<1>2. /\ m \in Nat /\ r \in Nat /\ IsFrame(both, m + r)
      /\ \A i \in 1 .. m : both[i] = p[i]
      /\ \A i \in 1 .. m + r : i \notin 1 .. m => i - m \in 1 .. r /\ both[i] = q[i - m]
  BY <1>1, JoinedFrames
<1>3. \A i \in 1 .. m : p[i].s0 \in Int /\ p[i].s1 \in Int /\ p[i].s0 <= p[i].s1
  BY DEF Spaced
<1>4. \A i \in 1 .. r : q[i].s0 \in Int /\ q[i].s1 \in Int /\ q[i].s0 <= q[i].s1
  BY DEF Spaced
<1>5. \A i \in 1 .. m + r : both[i].s0 \in Int /\ both[i].s1 \in Int /\ both[i].s0 <= both[i].s1
  BY ONLY <1>2, <1>3, <1>4
<1>6. ASSUME NEW i \in 1 .. m + r, NEW j \in 1 .. m + r, i < j
      PROVE  /\ both[i].s0 < both[j].s0
             /\ both[i].symbol = both[j].symbol /\ both[j].t0 <= both[i].t1 =>
                  both[j].s0 <= both[i].s1
             /\ both[i].symbol # both[j].symbol => both[i].s1 < both[j].s0
  <2>1. CASE j \in 1 .. m
    <3>1. i \in 1 .. m /\ both[i] = p[i] /\ both[j] = p[j]
      BY ONLY <2>1, <1>2, <1>6, i \in 1 .. m + r
    <3> QED BY <2>1, <3>1, <1>6 DEF Spaced
  <2>2. CASE i \in 1 .. m /\ j \notin 1 .. m
    <3>1. j - m \in 1 .. r /\ both[i] = p[i] /\ both[j] = q[j - m]
      BY <2>2, <1>2
    <3>2. p[i].s1 < q[j - m].s0 /\ p[i].symbol # q[j - m].symbol
      BY <2>2, <3>1
    <3>3. p[i].s0 <= p[i].s1 /\ p[i].s0 \in Int /\ p[i].s1 \in Int /\ q[j - m].s0 \in Int
      BY <2>2, <3>1, <1>3, <1>4
    <3> QED BY ONLY <3>1, <3>2, <3>3
  <2>3. CASE i \notin 1 .. m
    <3>1. i \in Int /\ j \in Int /\ j \notin 1 .. m
      BY ONLY <2>3, <1>2, <1>6, i \in 1 .. m + r, j \in 1 .. m + r
    <3>2. i - m \in 1 .. r /\ j - m \in 1 .. r /\ both[i] = q[i - m] /\ both[j] = q[j - m]
      BY <2>3, <3>1, <1>2
    <3>3. i - m < j - m
      BY ONLY <3>1, <1>2, <1>6
    <3> QED BY <3>2, <3>3 DEF Spaced
  <2> QED BY <2>1, <2>2, <2>3
<1> QED BY ONLY <1>2, <1>5, <1>6 DEF Spaced

\* The next symbol begins when every label so far is over.
LEMMA EpochIsLater ==
    ASSUME NEW p, NEW m, Spaced(p, m)
    PROVE  EpochAfter(p) \in Int /\ \A i \in 1 .. m : p[i].s1 < EpochAfter(p)
<1> DEFINE limits == {p[i].s1 : i \in DOMAIN p}
<1>1. m \in Nat /\ IsFrame(p, m) /\ DOMAIN p = 1 .. m
  BY FrameLength DEF Spaced, IsFrame
<1>2. \A i \in 1 .. m : p[i].s1 \in Int
  BY DEF Spaced
<1>3. PoolGap \in Int /\ PoolGap > 0
  <2> DEFINE gaps == {PoolGapDays, 4 * MaxHold}
  <2>1. PoolGapDays \in Nat \ {0} /\ 4 * MaxHold \in Int
    BY PipelineAssumption, LabellingAssumption
  <2>2. gaps \in SUBSET Int /\ gaps # {} /\ PoolGapDays \in gaps
    BY <2>1
  <2>3. IsFiniteSet(gaps)
    <3>1. IsFiniteSet({PoolGapDays}) /\ gaps = {PoolGapDays} \cup {4 * MaxHold}
      BY FS_Singleton
    <3> QED BY <3>1, FS_AddElement
  <2>4. PoolGap = Max(gaps)
    BY DEF PoolGap
  <2> HIDE DEF gaps
  <2>5. Max(gaps) \in Int /\ PoolGapDays <= Max(gaps)
    BY <2>2, <2>3, Extremes
  <2> QED BY ONLY <2>1, <2>4, <2>5
<1>4. CASE p = << >>
  <2>1. 1 .. m = {}
    BY <1>1, <1>4
  <2> QED BY <1>4, <2>1 DEF EpochAfter
<1>5. CASE p # << >>
  <2>1. limits \in SUBSET Int
    BY <1>1, <1>2
  <2>2. IsFiniteSet(limits)
    <3>1. IsFiniteSet(1 .. m)
      BY <1>1, FS_Interval
    <3> DEFINE over == [i \in 1 .. m |-> p[i].s1]
    <3>2. over \in Surjection(1 .. m, limits)
      BY <1>1 DEF Surjection
    <3> HIDE DEF over, limits
    <3> QED BY <3>1, <3>2, FS_Surjection
  <2>3. limits # {}
    <3>1. m # 0
      <4>1. m = 0 => DOMAIN p = {}
        BY <1>1
      <4>2. m = 0 => p = << >>
        BY <4>1, <1>1 DEF IsFrame
      <4> QED BY <4>2, <1>5
    <3>2. 1 \in 1 .. m
      BY <1>1, <3>1
    <3> QED BY <1>1, <3>2
  <2>4. EpochAfter(p) = Max(limits) + PoolGap
    BY <1>5 DEF EpochAfter, EndOf
  <2>5. \A i \in 1 .. m : p[i].s1 \in limits
    BY <1>1
  <2> HIDE DEF limits
  <2>6. Max(limits) \in Int /\ \A y \in limits : y <= Max(limits)
    BY <2>1, <2>2, <2>3, Extremes
  <2> QED BY ONLY <1>2, <1>3, <2>4, <2>5, <2>6
<1> QED BY <1>4, <1>5

\* The symbols laid by a turn are those of the universe up to it.
LaidUpTo(p, k) ==
    \E m : /\ Spaced(p, m)
           /\ \A i \in 1 .. m : \E a \in 1 .. k : p[i].symbol = Universe[a]

\* The clock begins with nothing on it.
LEMMA NothingLaid == LaidUpTo(<< >>, 0)
<1>1. IsFrame(<< >>, 0) /\ \A i \in 1 .. 0 : FALSE
  BY DEF IsFrame
<1>2. Spaced(<< >>, 0)
  BY <1>1 DEF Spaced
<1> QED BY <1>1, <1>2 DEF LaidUpTo

\* A symbol more keeps them spaced.
LEMMA BehindIsSpaced ==
    ASSUME \A s \in DOMAIN usable : IsSymbolRow(usable[s]), NEW which \in {"direct", "meta"},
           NEW p, NEW k \in 1 .. Len(Universe), LaidUpTo(p, k - 1)
    PROVE  LaidUpTo(Behind(which, p, k), k)
<1> DEFINE s == Universe[k]
           q == PooledSymbol(s, which, EpochAfter(p))
<1>1. PICK m : /\ Spaced(p, m)
               /\ \A i \in 1 .. m : \E a \in 1 .. k - 1 : p[i].symbol = Universe[a]
  BY DEF LaidUpTo
<1>2. /\ Len(Universe) \in Nat /\ k \in Int
      /\ \A a \in 1 .. k - 1 : a \in 1 .. k /\ Universe[a] # s
  <2>1. Len(Universe) \in Nat /\ DOMAIN Universe = 1 .. Len(Universe)
    BY PipelineAssumption
  <2>2. \A a \in 1 .. k - 1 : a \in 1 .. k /\ a \in 1 .. Len(Universe) /\ a # k
    BY <2>1
  <2> QED BY <2>1, <2>2, PipelineAssumption
<1>3. \A i \in 1 .. m : p[i].symbol # s /\ \E a \in 1 .. k : p[i].symbol = Universe[a]
  BY ONLY <1>1, <1>2
<1>4. CASE s \notin DOMAIN usable
  <2>1. Behind(which, p, k) = p
    BY <1>4 DEF Behind
  <2> QED BY <2>1, <1>1, <1>3 DEF LaidUpTo
<1>5. CASE s \in DOMAIN usable
  <2>1. Behind(which, p, k) = Joined(p, q)
    BY <1>5 DEF Behind, Joined
  <2>2. EpochAfter(p) \in Int /\ \A i \in 1 .. m : p[i].s1 < EpochAfter(p)
    BY <1>1, EpochIsLater
  <2>3. IsSymbolRow(usable[s])
    BY <1>5
  <2>4. PICK r : Spaced(q, r) /\ \A j \in 1 .. r : q[j].symbol = s /\ EpochAfter(p) <= q[j].s0
    <3> DEFINE epoch == EpochAfter(p)
    <3>1. epoch \in Int /\ q = PooledSymbol(s, which, epoch)
      BY <2>2
    <3> HIDE DEF s, epoch, q
    <3>2. \E r : Spaced(q, r) /\ \A j \in 1 .. r : q[j].symbol = s /\ epoch <= q[j].s0
      BY ONLY <2>3, <3>1, which \in {"direct", "meta"}, SymbolIsSpaced
    <3> QED BY <3>2 DEF epoch
  <2> HIDE DEF q
  <2>5. ASSUME NEW i \in 1 .. m, NEW j \in 1 .. r
        PROVE  p[i].s1 < q[j].s0 /\ p[i].symbol # q[j].symbol
    <3>1. p[i].s1 \in Int /\ q[j].s0 \in Int
      BY <1>1, <2>4 DEF Spaced
    <3>2. p[i].s1 < EpochAfter(p) /\ EpochAfter(p) <= q[j].s0 /\ EpochAfter(p) \in Int
      BY <2>2, <2>4
    <3>3. p[i].symbol # s /\ q[j].symbol = s
      BY <1>3, <2>4
    <3> QED BY ONLY <3>1, <3>2, <3>3
  <2> DEFINE z == Joined(p, q)
  <2>0. z = Joined(p, q)
    OBVIOUS
  <2> HIDE DEF z
  <2>6. Spaced(z, m + r)
    BY ONLY <1>1, <2>0, <2>4, <2>5, JoinedIsSpaced
  <2>7. ASSUME NEW i \in 1 .. m + r PROVE \E a \in 1 .. k : z[i].symbol = Universe[a]
    <3>1. /\ m \in Nat /\ r \in Nat
          /\ i \in 1 .. m => z[i] = p[i]
          /\ i \notin 1 .. m => i - m \in 1 .. r /\ z[i] = q[i - m]
      <4>1. IsFrame(p, m) /\ IsFrame(q, r)
        BY <1>1, <2>4 DEF Spaced
      <4> QED BY ONLY <4>1, <2>0, i \in 1 .. m + r, JoinedFrames
    <3>2. CASE i \in 1 .. m
      BY <3>1, <3>2, <1>3
    <3>3. CASE i \notin 1 .. m
      <4>1. z[i].symbol = s
        BY <3>1, <3>3, <2>4
      <4>2. k \in 1 .. k
        BY ONLY k \in 1 .. Len(Universe), <1>2
      <4> QED BY <4>1, <4>2
    <3> QED BY <3>2, <3>3
  <2>8. LaidUpTo(z, k)
    BY ONLY <2>6, <2>7 DEF LaidUpTo
  <2> QED BY ONLY <2>0, <2>1, <2>8
<1> QED BY <1>4, <1>5

\* So all of them are.
LEMMA PoolIsSpaced ==
    ASSUME \A s \in DOMAIN usable : IsSymbolRow(usable[s]), NEW which \in {"direct", "meta"}
    PROVE  \E m : Spaced(Pooled(which), m)
<1> DEFINE n == Len(Universe)
<1>1. n \in Nat
  BY PipelineAssumption
<1>2. PICK turns : IsCourse("symbols", which, turns, n) /\ Pooled(which) = turns[n]
  BY <1>1, PooledBy
<1> HIDE DEF n
<1> DEFINE Odd == {k \in 0 .. n : ~ LaidUpTo(turns[k], k)}
<1>3. Odd = {}
  <2>1. SUFFICES ASSUME Odd # {} PROVE FALSE
    OBVIOUS
  <2>2. IsFiniteSet(Odd) /\ Odd \in SUBSET Int
    <3>1. IsFiniteSet(0 .. n)
      BY <1>1, FS_Interval
    <3>2. Odd \in SUBSET (0 .. n) /\ Odd \in SUBSET Int
      OBVIOUS
    <3> HIDE DEF Odd
    <3> QED BY <3>1, <3>2, FS_Subset
  <2>3. PICK k \in Odd : \A y \in Odd : k <= y
    <3> HIDE DEF Odd
    <3> QED BY <2>1, <2>2, LeastElement
  <2>4. k \in 0 .. n /\ k \in Nat /\ ~ LaidUpTo(turns[k], k)
    OBVIOUS
  <2>5. \A j \in 0 .. n : turns[j] = Stage("symbols", which, turns, j)
    <3>1. turns = [j \in 0 .. n |-> Stage("symbols", which, turns, j)]
      BY <1>2 DEF IsCourse
    <3> QED BY <3>1
  <2>6. k # 0
    <3>1. k = 0 => turns[k] = << >>
      BY <2>4, <2>5 DEF Stage, Origin
    <3> QED BY <2>4, <3>1, NothingLaid
  <2>7. k - 1 \in 0 .. n /\ ~ (k <= k - 1) /\ k \in 1 .. n
    BY <2>4, <2>6, <1>1
  <2>8. LaidUpTo(turns[k - 1], k - 1)
    BY <2>3, <2>7
  <2>9. turns[k] = Behind(which, turns[k - 1], k)
    BY <2>4, <2>5, <2>6 DEF Stage, Turn
  <2>10. k \in 1 .. Len(Universe)
    BY <2>7 DEF n
  <2> QED BY <2>4, <2>8, <2>9, <2>10, BehindIsSpaced
<1>4. LaidUpTo(turns[n], n)
  BY <1>1, <1>3
<1> QED BY <1>2, <1>4 DEF LaidUpTo

------------------------------------------------------------------------------
\* What the arm at hand has read and made of its symbols.
PipelineInv ==
    /\ source \in Sources /\ arms \in Seq({"validated", "yfinance"})
    /\ phase \in {"load", "rows", "cross", "pool", "judge"} => arms # << >>
    /\ \A s \in DOMAIN daily : \E n : OneADay(daily[s], n)
    /\ \A s \in DOMAIN usable : IsSymbolRow(usable[s])
    /\ PurgeIsNeverLeakier

\* Spaced pools are what the purge needs.
LEMMA SpacedIsNotLeakier ==
    ASSUME \A which \in Strategies : \E m : Spaced(pools[which], m)
    PROVE  PurgeIsNeverLeakier
<1> SUFFICES ASSUME NEW which \in Strategies, NEW p, p = pools[which],
                    NEW m \in DOMAIN p, NEW n \in DOMAIN p, m < n
             PROVE  /\ p[m].s0 < p[n].s0
                    /\ p[m].symbol = p[n].symbol /\ p[n].t0 <= p[m].t1 => p[n].s0 <= p[m].s1
                    /\ p[m].symbol # p[n].symbol => p[m].s1 < p[n].s0
  BY DEF PurgeIsNeverLeakier
<1>1. PICK size : Spaced(p, size)
  OBVIOUS
<1>2. DOMAIN p = 1 .. size
  BY <1>1, FrameLength DEF Spaced
<1> QED BY <1>1, <1>2 DEF Spaced

\* Before there is a pool there is nothing to purge.
LEMMA NoPoolIsSpaced ==
    ASSUME pools = NoPool
    PROVE  PurgeIsNeverLeakier
<1>1. \A which \in Strategies : pools[which] = << >>
  BY DEF NoPool
<1>2. \E m : Spaced(<< >>, m)
  BY NothingLaid DEF LaidUpTo
<1> QED BY <1>1, <1>2, SpacedIsNotLeakier

\* The script starts with an arm to run and no bars.
LEMMA PipelineStarts == PipelineInit => PipelineInv
<1> SUFFICES ASSUME PipelineInit PROVE PipelineInv
  OBVIOUS
<1>1. source \in Sources /\ arms \in ArmLists /\ daily = NoBars /\ usable = NoBars
      /\ pools = NoPool
  BY DEF PipelineInit
<1>2. arms \in Seq({"validated", "yfinance"}) /\ arms # << >>
  BY <1>1, PipelineAssumption
<1>3. DOMAIN NoBars = {}
  BY DEF NoBars
<1> QED BY <1>1, <1>2, <1>3, NoPoolIsSpaced DEF PipelineInv

\* run_arm reads frames with a bar a day.
LEMMA LoadArmKeeps == PipelineInv /\ LoadArm => PipelineInv'
<1> SUFFICES ASSUME PipelineInv, LoadArm PROVE PipelineInv'
  OBVIOUS
<1>1. /\ phase = "load" /\ phase' = "rows"
      /\ UNCHANGED <<source, arms, usable, pools>>
  BY DEF LoadArm
<1>2. arms # << >> /\ Arm \in {"validated", "yfinance"}
  BY <1>1 DEF PipelineInv, Arm
<1>3. \A s \in DOMAIN daily' : s \in Range(Universe) /\ daily'[s] = Loaded(Arm, s)
  BY DEF LoadArm
<1>4. \A s \in DOMAIN daily' : \E n : OneADay(daily'[s], n)
  <2>1. source \in Sources
    BY DEF PipelineInv
  <2> QED BY <2>1, <1>2, <1>3, LoadedIsDaily
<1> QED BY <1>1, <1>2, <1>4 DEF PipelineInv, PurgeIsNeverLeakier

\* The rows built are of those frames.
LEMMA BuildRowsKeeps == PipelineInv /\ BuildSymbolRows => PipelineInv'
<1> SUFFICES ASSUME PipelineInv, BuildSymbolRows PROVE PipelineInv'
  OBVIOUS
<1>1. /\ phase = "rows" /\ phase' = "cross"
      /\ UNCHANGED <<source, arms, daily, pools>>
  BY DEF BuildSymbolRows
<1>2. \A s \in DOMAIN usable' : s \in DOMAIN daily /\ usable'[s] = SymbolRows(daily[s])
  BY DEF BuildSymbolRows
<1>3. \A s \in DOMAIN usable' : IsSymbolRow(usable'[s])
  <2> SUFFICES ASSUME NEW s \in DOMAIN usable' PROVE IsSymbolRow(usable'[s])
    OBVIOUS
  <2>1. PICK n : OneADay(daily[s], n)
    BY <1>2 DEF PipelineInv
  <2>2. IsSymbolRow(SymbolRows(daily[s]))
    BY ONLY <2>1, SymbolRowsAreOfBars
  <2> QED BY <2>2, <1>2
<1> QED BY <1>1, <1>3 DEF PipelineInv, PurgeIsNeverLeakier

\* Two more columns leave bars and labels alone.
LEMMA CrossSectionKeeps == PipelineInv /\ AddCrossSectional => PipelineInv'
<1> SUFFICES ASSUME PipelineInv, AddCrossSectional PROVE PipelineInv'
  OBVIOUS
<1>1. /\ phase = "cross" /\ phase' = "pool"
      /\ UNCHANGED <<source, arms, daily, pools>>
  BY DEF AddCrossSectional
<1>2. \A s \in DOMAIN usable' : s \in DOMAIN usable /\ usable'[s] = WithCrossSection(s)
  BY DEF AddCrossSectional
<1>3. \A s \in DOMAIN usable' : IsSymbolRow(usable'[s])
  <2> SUFFICES ASSUME NEW s \in DOMAIN usable' PROVE IsSymbolRow(usable'[s])
    OBVIOUS
  <2>1. IsSymbolRow(usable[s])
    BY <1>2 DEF PipelineInv
  <2>2. /\ DOMAIN WithCrossSection(s) = DOMAIN usable[s]
        /\ \A x \in DOMAIN usable[s] :
              x # "features" => WithCrossSection(s)[x] = usable[s][x]
    BY DEF WithCrossSection
  <2>3. \A x \in {"frame", "direct", "meta"} : WithCrossSection(s)[x] = usable[s][x]
    BY <2>1, <2>2 DEF IsSymbolRow
  <2> HIDE DEF IsSymbolRow
  <2>4. IsSymbolRow(WithCrossSection(s))
    BY <2>1, <2>2, <2>3 DEF IsSymbolRow
  <2> QED BY <2>4, <1>2
<1> QED BY <1>1, <1>3 DEF PipelineInv, PurgeIsNeverLeakier

\* Both strategies are pooled from the same rows.
LEMMA PoolingKeeps == PipelineInv /\ PoolStrategies => PipelineInv'
<1> SUFFICES ASSUME PipelineInv, PoolStrategies PROVE PipelineInv'
  OBVIOUS
<1>1. /\ phase = "pool" /\ UNCHANGED <<source, arms, daily, usable>>
      /\ pools' = [which \in Strategies |-> Pooled(which)]
  BY DEF PoolStrategies
<1>2. \A which \in Strategies : \E m : Spaced(pools'[which], m)
  <2> SUFFICES ASSUME NEW which \in Strategies PROVE \E m : Spaced(pools'[which], m)
    OBVIOUS
  <2>1. which \in {"direct", "meta"} /\ pools'[which] = Pooled(which)
    BY <1>1 DEF Strategies
  <2>2. \A s \in DOMAIN usable : IsSymbolRow(usable[s])
    BY DEF PipelineInv
  <2>3. \E m : Spaced(Pooled(which), m)
    BY ONLY <2>1, <2>2, PoolIsSpaced
  <2> QED BY <2>1, <2>3
<1>3. PurgeIsNeverLeakier'
  <2> DEFINE p(which) == pools'[which]
  <2> SUFFICES ASSUME NEW which \in Strategies,
                      NEW m \in DOMAIN p(which), NEW n \in DOMAIN p(which), m < n
               PROVE  /\ p(which)[m].s0 < p(which)[n].s0
                      /\ p(which)[m].symbol = p(which)[n].symbol
                           /\ p(which)[n].t0 <= p(which)[m].t1 =>
                              p(which)[n].s0 <= p(which)[m].s1
                      /\ p(which)[m].symbol # p(which)[n].symbol =>
                              p(which)[m].s1 < p(which)[n].s0
    BY DEF PurgeIsNeverLeakier, Strategies
  <2>1. PICK size : Spaced(pools'[which], size)
    BY <1>2
  <2>2. DOMAIN pools'[which] = 1 .. size
    BY <2>1, FrameLength DEF Spaced
  <2> QED BY <2>1, <2>2 DEF Spaced
<1>4. arms # << >>
  BY <1>1 DEF PipelineInv
<1> QED BY <1>1, <1>3, <1>4 DEF PipelineInv

\* Nothing is pooled of an arm that is judged, or when the script is run again.
LEMMA AfreshKeeps ==
    ASSUME PipelineInv, source' = source, daily' = NoBars, usable' = NoBars, pools' = NoPool,
           arms' \in Seq({"validated", "yfinance"}),
           phase' \in {"load", "rows", "cross", "pool", "judge"} => arms' # << >>
    PROVE  PipelineInv'
<1>1. DOMAIN NoBars = {}
  BY DEF NoBars
<1>2. \A which \in Strategies : pools'[which] = << >>
  BY DEF NoPool
<1>3. PurgeIsNeverLeakier'
  <2>1. DOMAIN << >> = {}
    OBVIOUS
  <2> QED BY <1>2, <2>1 DEF PurgeIsNeverLeakier, Strategies
<1> QED BY <1>1, <1>3 DEF PipelineInv

\* Every step of the script keeps the invariant; most touch neither bars nor pools.
LEMMA PipelineStep == PipelineInv /\ [PipelineNext]_pipelineVars => PipelineInv'
<1> SUFFICES ASSUME PipelineInv, [PipelineNext]_pipelineVars PROVE PipelineInv'
  OBVIOUS
<1>1. CASE UNCHANGED <<source, arms, daily, usable, pools>>
           /\ (phase' \in {"load", "rows", "cross", "pool", "judge"} => arms # << >>)
  BY <1>1 DEF PipelineInv, PurgeIsNeverLeakier
<1>2. CASE TooFewSymbols \/ RowsRaise \/ EvaluationRaises
  BY <1>1, <1>2 DEF TooFewSymbols, RowsRaise, EvaluationRaises, RaiseError
<1>3. CASE CountTrials
  BY <1>1, <1>3 DEF CountTrials
<1>4. CASE LogMlflow
  BY <1>1, <1>4 DEF LogMlflow
<1>5. CASE EvaluateArm
  <2>1. /\ phase = "judge" /\ arms' = Tail(arms) /\ source' = source
        /\ phase' = IF arms' = << >> THEN "count" ELSE "load"
        /\ daily' = NoBars /\ usable' = NoBars /\ pools' = NoPool
    BY <1>5 DEF EvaluateArm
  <2>2. arms # << >> /\ arms \in Seq({"validated", "yfinance"})
    BY <2>1 DEF PipelineInv
  <2>3. arms' \in Seq({"validated", "yfinance"})
    BY <2>1, <2>2
  <2>4. phase' \in {"load", "rows", "cross", "pool", "judge"} => arms' # << >>
    BY <2>1
  <2> QED BY ONLY PipelineInv, <2>1, <2>3, <2>4, AfreshKeeps
<1>6. CASE RunAgain
  <2>1. /\ arms' \in ArmLists /\ source' = source
        /\ daily' = NoBars /\ usable' = NoBars /\ pools' = NoPool
    BY <1>6 DEF RunAgain
  <2>2. arms' \in Seq({"validated", "yfinance"}) /\ arms' # << >>
    BY <2>1, PipelineAssumption
  <2> QED BY ONLY PipelineInv, <2>1, <2>2, AfreshKeeps
<1>7. CASE UNCHANGED pipelineVars
  <2>1. UNCHANGED <<source, arms, phase, daily, usable, pools>>
    BY <1>7 DEF pipelineVars
  <2> QED BY <1>1, <2>1 DEF PipelineInv
<1>8. CASE LoadArm \/ BuildSymbolRows \/ AddCrossSectional \/ PoolStrategies
  BY <1>8, LoadArmKeeps, BuildRowsKeeps, CrossSectionKeeps, PoolingKeeps
<1> QED BY <1>2, <1>3, <1>4, <1>5, <1>6, <1>7, <1>8 DEF PipelineNext

\* On the synthetic clock of the complete pipeline an overlap of two events of a
\* symbol stays one and the events of two symbols never overlap, whatever bars the
\* archive or yfinance have, whatever the filter drops, and however often the script
\* is run.
THEOREM ClockIsNotLeakier == PipelineSpec => []PurgeIsNeverLeakier
<1>1. PipelineInv => PurgeIsNeverLeakier
  BY DEF PipelineInv
<1> QED BY <1>1, PipelineStarts, PipelineStep, PTL DEF PipelineSpec
===============================================================================
