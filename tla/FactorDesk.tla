------------------------------ MODULE FactorDesk ------------------------------
(***************************************************************************)
(* The factor gate (scripts/run_factor_gate.py), run again as the panel    *)
(* grows by a day: fetch the corporate actions, adjust, screen, score,     *)
(* build a book per month end, walk the books month by month against the   *)
(* equal-weight benchmark, judge, and log the trial.                       *)
(*                                                                         *)
(* What a job derives is kept in a variable as soon as it is derived; the  *)
(* unit of weights is 1 / One.                                             *)
(***************************************************************************)
EXTENDS FactorSignals

CONSTANTS Panels,      \* of [raw, value: name -> day -> number, events]
          FirstDay, LastDay, MonthDays,
          TopN, AdvWindow, MinHistory,
          Horizon,
          GateGroups,  \* CPCV_GROUPS
          MinNames, QuantilePct, NameCap, SectorCap,
          BandPct,     \* no_trade_band
          Rate,        \* round_trip_rate()
          MinIr,       \* the gate's threshold on the mean over the deviation
          FeedFails, LogFails

ASSUME DeskAssumption ==
    /\ {FirstDay, LastDay, MonthDays, TopN, AdvWindow, MinHistory, Horizon,
        MinNames, NameCap, SectorCap, GateGroups} \subseteq Nat \ {0}
    /\ FirstDay <= LastDay /\ QuantilePct \in 1 .. 100 /\ BandPct \in 0 .. 99
    /\ NameCap <= One /\ SectorCap <= One /\ {Rate, MinIr} \subseteq Nat
    /\ {FeedFails, LogFails} \subseteq BOOLEAN
    /\ \A p \in Panels : {p.raw, p.value} \subseteq [Names -> [1 .. LastDay -> Nat \cup {NaN}]]

\* Prices are positive and in units so small that adjusting leaves them so.
ASSUME PriceAssumption ==
    \A p \in Panels : \A E \in SUBSET p.events : \A s \in Names :
        \A n \in FirstDay .. LastDay : \A t \in 1 .. n :
            Adjusted([i \in 1 .. n |-> p.raw[s][i]], E)[t] \in (Nat \ {0}) \cup {NaN}

VARIABLES panel,       \* what the exchange publishes, day by day
          day,         \* the last day of the panel on disk
          known,       \* corporate_actions.csv
          listed,      \* ind_nifty500list.csv: "none", "good" or "bad"
          step,        \* of the script
          ab,          \* whether the cluster arm follows (--ab)
          arm,         \* "equal" or "cluster"
          close,       \* ever-eligible name -> adjusted close of every day
          universe,    \* month end -> names of the liquidity universe
          sectors,     \* ever-eligible name -> sector, as this job has it
          shared,      \* what _shared_inputs returns
          books,       \* target_weights, of the month ends with a book
          held,        \* held_weights of the month ends walked so far
          active,      \* net return less the benchmark, by month end
          verdict,
          logged,      \* runs in the tracker
          last         \* history: what the previous job of an arm ended with

gateVars == <<panel, day, known, listed, step, ab, arm, close, universe, sectors, shared,
          books, held, active, verdict, logged, last>>

Blank == [x \in {} |-> NaN]
Arms == {"equal", "cluster"}

------------------------------------------------------------------------------
(* Dates.                                                                  *)

Month(t) == (t - 1) \div MonthDays

\* month_end_rebalance_dates: of an unfinished month, its last day so far.
MonthEnds(n) == {t \in 1 .. n : t = n \/ Month(t + 1) # Month(t)}

------------------------------------------------------------------------------
(* liquidity_universe, at month end t.                                     *)

Median(f, I) ==
    LET Kth(k) == CHOOSE v \in {f[i] : i \in I} :
                     /\ Cardinality({i \in I : f[i] < v}) < k
                     /\ Cardinality({i \in I : f[i] <= v}) >= k
        n == Cardinality(I)
    IN  Kth((n + 1) \div 2) + Kth((n + 2) \div 2)

\* Twice the rolling median: half of the window has to be there.
AverageDailyValue(value, t) ==
    LET there == {i \in Days(t, AdvWindow) : i >= 1 /\ value[i] # NaN}
    IN  IF there # {} /\ Cardinality(there) >= AdvWindow \div 2
          THEN Median(value, there) ELSE NaN

Liquid(value, t) ==
    LET adv == [s \in Names |-> AverageDailyValue(value[s], t)]
        seasoned == {s \in Names : adv[s] # NaN /\
                        Cardinality({i \in 1 .. t : value[s][i] # NaN}) >= MinHistory}
        Ahead(s) == {q \in seasoned : adv[q] > adv[s] \/ (adv[q] = adv[s] /\ q <= s)}
    IN  {s \in seasoned : Cardinality(Ahead(s)) <= TopN}

------------------------------------------------------------------------------
(* build_cross_sectional_labels.                                           *)

Forward(c, t) == IF t + Horizon \in DOMAIN c THEN Growth(c, t, t + Horizon) ELSE NaN

LabelledDates(c, dates) ==
    {t \in dates : \E s \in DOMAIN c : Forward(c[s], t) # NaN}

------------------------------------------------------------------------------
(* construct_book: scores and volatilities of the eligible names.          *)

\* round() of quantile * n, halves to the even number.
Rounded(x) ==
    LET down == x \div 100
        rest == x % 100
    IN  IF rest < 50 \/ (rest = 50 /\ down % 2 = 0) THEN down ELSE down + 1

\* nlargest keeps the first of equals.
SelectTopQuantile(score) ==
    LET names == DOMAIN score
        count == IF Rounded(QuantilePct * Cardinality(names)) < 1 THEN 1
                 ELSE Rounded(QuantilePct * Cardinality(names))
        Ahead(s) == {q \in names : score[q] > score[s] \/ (score[q] = score[s] /\ q <= s)}
    IN  {s \in names : Cardinality(Ahead(s)) <= count}

InverseVolWeights(vol, names) ==
    LET Calm(s) == (One * One + vol[s] - 1) \div vol[s]    \* more than nothing
    IN  [s \in names |-> (One * Calm(s)) \div Total(Calm, names)]

\* A slip the runs must notice: the sectors are forgotten.
CapsByName(weights) ==
    [s \in DOMAIN weights |-> IF weights[s] > NameCap THEN NameCap ELSE weights[s]]

ApplyCaps(weights) ==
    LET clipped == [s \in DOMAIN weights |->
                       IF weights[s] > NameCap THEN NameCap ELSE weights[s]]
        SectorTotal(s) == Total(LAMBDA q : clipped[q],
                                {q \in DOMAIN weights : sectors[q] = sectors[s]})
    IN  [s \in DOMAIN weights |->
            IF SectorTotal(s) > SectorCap THEN (clipped[s] * SectorCap) \div SectorTotal(s)
            ELSE clipped[s]]

ConstructBook(score, vol, columns) ==
    LET weights == ApplyCaps(InverseVolWeights(vol, SelectTopQuantile(score)))
    IN  [s \in columns |-> IF s \in DOMAIN weights THEN weights[s] ELSE 0]

------------------------------------------------------------------------------
(* monthly_backtest.                                                       *)

\* The no-trade band is relative to the larger of the two weights.
Move(want, current) ==
    LET reference == IF want > current THEN want ELSE current
    IN  IF 100 * Distance(want, current) > BandPct * reference THEN want ELSE current

\* NaN returns are filled with 0; unit 1 / One squared.
NetReturn(now, before, ret) ==
    Total(LAMBDA s : now[s] * (IF ret[s] = NaN THEN 0 ELSE ret[s]), DOMAIN now)
      - Rate * Total(LAMBDA s : Distance(now[s], before[s]), DOMAIN now)

\* The mean over the eligible names that have a return; NaN without any.
BenchmarkReturn(ret, eligible) ==
    LET there == {s \in eligible \cap DOMAIN ret : ret[s] # NaN}
    IN  IF there = {} THEN NaN
        ELSE (One * Total(LAMBDA s : ret[s], there)) \div Cardinality(there)

------------------------------------------------------------------------------
(* evaluate_factor_gate.  Every path is the same series, because nothing   *)
(* is fitted; what the script does not compute is None and fails.  The      *)
(* Deflated Sharpe Ratio is left out: the number of trials reaches it only *)
(* through the variance of the paths, which is nil.                        *)

MaxSectorWeight ==
    Max({Total(LAMBDA s : books[t][s], {s \in DOMAIN close : sectors[s] = x}) :
            t \in DOMAIN books, x \in Range(sectors)})

EvaluateFactorGate ==
    LET dates == {t \in DOMAIN active : active[t] # NaN}
        n == Cardinality(dates)
        sum == Total(LAMBDA t : active[t], dates)
        spread == Total(LAMBDA t : Distance(n * active[t], sum), dates)
    IN  [activeIr  |-> n > 1 /\ spread > 0 /\ 100 * n * sum >= MinIr * spread,
         overfit   |-> FALSE,
         negative  |-> sum >= 0,
         robust    |-> FALSE,
         sector    |-> 4 * MaxSectorWeight <= One,
         factor    |-> FALSE]

Passed(results) == \A criterion \in DOMAIN results : results[criterion]

------------------------------------------------------------------------------
GateInit ==
    /\ panel \in Panels
    /\ day = FirstDay
    /\ known = {} /\ listed = "none" /\ step = "fetch" /\ ab = FALSE /\ arm = "equal"
    /\ close = Blank /\ universe = Blank /\ sectors = Blank /\ shared = Blank
    /\ books = Blank /\ held = Blank /\ active = Blank
    /\ verdict = Blank /\ logged = 0
    /\ last = [a \in Arms |-> [day |-> 0, known |-> {}, close |-> Blank, sectors |-> Blank,
                               books |-> Blank, held |-> Blank, active |-> Blank]]

Idle == <<panel, day, logged, last>>
Results == <<close, universe, sectors, shared, books, held, active, verdict>>

Visible(of) == [s \in DOMAIN of |-> [t \in 1 .. day |-> of[s][t]]]

\* fetch_corporate_actions.main: the file is written anew from the windows
\* (months) that answered; one that failed twice is skipped.
FetchCorporateActions ==
    /\ step = "fetch"
    /\ \E missed \in IF FeedFails THEN SUBSET {Month(t) : t \in 1 .. day} ELSE {{}} :
          known' = {e \in panel.events : e.day <= day /\ Month(e.day) \notin missed}
    /\ step' = "load"
    /\ UNCHANGED <<Idle, listed, ab, arm, Results>>

\* _load_sectors: the list is downloaded once and kept, whatever the body was; a
\* download that fails or a list that cannot be read makes every name "Other".
LoadSectors ==
    /\ listed' \in IF listed # "none" THEN {listed}
                   ELSE {"good"} \cup IF FeedFails THEN {"none", "bad"} ELSE {}
    /\ sectors' = [s \in DOMAIN close' |->
                      IF listed' = "good" THEN Sectors[s] ELSE "Other"]

\* main, _load_validated_universe.  The columns are the names that are
\* eligible at some month end of the panel.
Load ==
    /\ step = "load"
    /\ LET adjusted == [s \in Names |->
                           Adjusted(Visible(panel.raw)[s], {e \in known : e.name = s})]
       IN  /\ universe' = [t \in MonthEnds(day) |-> Liquid(Visible(panel.value), t)]
           /\ close' = [s \in UNION Range(universe') |-> adjusted[s]]
    /\ LoadSectors
    /\ ab' \in BOOLEAN
    /\ arm' = "equal"
    /\ step' = "share"
    /\ UNCHANGED <<Idle, known, shared, books, held, active, verdict>>

Returns == [s \in DOMAIN close |-> [t \in 1 .. day |-> SimpleReturn(close[s], t)]]

\* _shared_inputs.
Share ==
    /\ step = "share"
    /\ LET ret == Returns
           market == [t \in 1 .. day |-> MarketReturn(ret, t)]
           dates == LabelledDates(close, MonthEnds(day))
       IN  shared' = [t \in dates |->
               [factors |-> [s \in DOMAIN close |->
                                FactorAt(close[s], ret[s], panel.value[s], market, t)],
                vol |-> [s \in DOMAIN close |-> Volatility(ret[s], t)],
                forward |-> [s \in DOMAIN close |-> Forward(close[s], t)]]]
    /\ step' = "book"
    /\ UNCHANGED <<Idle, known, listed, ab, arm, close, universe, sectors, books, held,
                  active, verdict>>

Eligible(t, score) ==
    {s \in DOMAIN close : /\ score[s] # NaN
                          /\ shared[t].vol[s] # NaN /\ shared[t].vol[s] > 0
                          /\ s \in universe[t]}

\* The first half of evaluate_combiner: a book for every date with enough names.
Book ==
    /\ step = "book"
    /\ LET score == [t \in DOMAIN shared |->
                        IF arm = "equal" THEN EqualWeight(Neutral(shared[t].factors, sectors))
                        ELSE ClusterSelection(Neutral(shared[t].factors, sectors))]
           dates == {t \in DOMAIN shared : Cardinality(Eligible(t, score[t])) >= MinNames}
       IN  /\ books' = [t \in dates |->
                 ConstructBook([s \in Eligible(t, score[t]) |-> score[t][s]],
                               shared[t].vol, DOMAIN close)]
           /\ step' = IF dates = {} THEN "failed" ELSE "walk"
    /\ held' = Blank /\ active' = Blank
    /\ UNCHANGED <<Idle, known, listed, ab, arm, close, universe, sectors, shared, verdict>>

\* One month of monthly_backtest and _benchmark_returns.
Rebalance ==
    /\ step = "walk"
    /\ DOMAIN held # DOMAIN books
    /\ LET t == Min(DOMAIN books \ DOMAIN held)
           before == IF held = Blank THEN [s \in DOMAIN close |-> 0]
                     ELSE held[Max(DOMAIN held)]
           now == [s \in DOMAIN close |-> Move(books[t][s], before[s])]
           bench == BenchmarkReturn(shared[t].forward, universe[t])
       IN  /\ held' = [d \in DOMAIN held \cup {t} |-> IF d = t THEN now ELSE held[d]]
           /\ active' = [d \in DOMAIN active \cup {t} |->
                  IF d # t THEN active[d]
                  ELSE IF bench = NaN THEN NaN
                  ELSE NetReturn(now, before, shared[t].forward) - bench]
    /\ UNCHANGED <<Idle, known, listed, step, ab, arm, close, universe, sectors, shared, books,
                  verdict>>

\* CombinatorialPurgedCV.split wants a rebalance per group.
Judge ==
    /\ step = "walk"
    /\ DOMAIN held = DOMAIN books
    /\ Cardinality(DOMAIN books) >= GateGroups
    /\ verdict' = EvaluateFactorGate
    /\ step' = "judged"
    /\ UNCHANGED <<Idle, known, listed, ab, arm, close, universe, sectors, shared, books,
                  held, active>>

JudgeRaises ==
    /\ step = "walk"
    /\ DOMAIN held = DOMAIN books
    /\ Cardinality(DOMAIN books) < GateGroups
    /\ step' = "failed"
    /\ UNCHANGED <<Idle, known, listed, ab, arm, Results>>

Remember ==
    last' = [last EXCEPT ![arm] = [day |-> day, known |-> known, close |-> close,
                                   sectors |-> sectors, books |-> books, held |-> held,
                                   active |-> active]]

\* run_validated_ab goes on to the cluster arm over the same inputs.
NextArm ==
    /\ step = "judged" /\ ab /\ arm = "equal"
    /\ Remember
    /\ arm' = "cluster" /\ step' = "book"
    /\ UNCHANGED <<panel, day, known, listed, ab, Results, logged>>

\* _log_mlflow swallows its failures; without mlflow nothing is logged.
Log ==
    /\ step = "judged" /\ (ab => arm = "cluster")
    /\ logged' \in {logged + 1} \cup IF LogFails THEN {logged} ELSE {}
    /\ Remember
    /\ step' = "done"
    /\ UNCHANGED <<panel, day, known, listed, ab, arm, Results>>

\* The panel grows (scripts/build_nifty500_panel.py) and the gate is run again.
NextDay ==
    /\ step \in {"done", "failed"} /\ day < LastDay
    /\ day' = day + 1 /\ step' = "fetch"
    /\ close' = Blank /\ universe' = Blank /\ sectors' = Blank /\ shared' = Blank
    /\ books' = Blank /\ held' = Blank /\ active' = Blank /\ verdict' = Blank
    /\ UNCHANGED <<panel, known, listed, ab, arm, logged, last>>

GateNext == \/ FetchCorporateActions \/ Load \/ Share \/ Book
            \/ Rebalance \/ Judge \/ JudgeRaises \/ NextArm \/ Log \/ NextDay

GateSpec == GateInit /\ [][GateNext]_gateVars

------------------------------------------------------------------------------
(* Properties.                                                             *)

\* Adjustment leaves no jump where an action is known: the adjusted return of
\* the ex-date is nil, and every other day's is the raw one ("so the series is
\* continuous", back_adjust_for_splits).
AdjustedIsContinuous ==
    \A s \in DOMAIN close : \A t \in 2 .. day :
        LET raw == panel.raw[s] IN
        raw[t - 1] # NaN /\ raw[t] # NaN =>
            SimpleReturn(close[s], t) =
                IF \E e \in known : e.name = s /\ e.day = t /\ Applies(raw, e)
                  THEN 0 ELSE SimpleReturn(raw, t)

\* What a job found for a month stays what it was when the panel has grown,
\* later splits included: the book, the weights held and the active return of
\* every month the earlier job had, as long as both jobs have the same columns,
\* the same sectors and the same actions of the earlier job's days.
SettledBooks ==
    LET then == last[arm] IN
    (/\ step = "judged"
     /\ DOMAIN then.close = DOMAIN close /\ then.sectors = sectors
     /\ then.known = {e \in known : e.day <= then.day}) =>
        \A t \in DOMAIN then.books :
            /\ t \in DOMAIN books /\ books[t] = then.books[t]
            /\ held[t] = then.held[t] /\ active[t] = then.active[t]

\* A book buys only names that traded that day and through the volatility
\* window before it, and that the universe of that day names.
BookIsTradable ==
    \A t \in DOMAIN books : \A s \in DOMAIN close :
        books[t][s] > 0 => /\ Defined(panel.raw[s], Days(t, VolWindow + 1))
                           /\ s \in universe[t]

\* What is held never outgrows what the caps allow by more than the no-trade
\* band lets a weight lag behind its target, and a name that left the book is
\* sold.
ExposureBounded ==
    \A t \in DOMAIN held :
        /\ \A s \in DOMAIN close : held[t][s] > 0 => books[t][s] > 0
        /\ \A x \in {sectors[s] : s \in DOMAIN close} :
              (100 - BandPct) * Total(LAMBDA s : held[t][s],
                                      {s \in DOMAIN close : sectors[s] = x})
                 <= 100 * SectorCap
===============================================================================
